CONSTANTS
    Slots = {p1, p2}
    idleproc = idleproc
    initproc = initproc
    NULL = NULL
    MAX_PROCESS = 4
    MAX_TIME_SLICE = 2
    MaxSleep = 1
SPECIFICATION FairSpec
PROPERTIES
    NoStarvation
    OrphansReaped
    SleepEnds
    KilledExits
