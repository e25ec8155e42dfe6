CONSTANTS
    Slots = {p1, p2, p3}
    idleproc = idleproc
    initproc = initproc
    NULL = NULL
    MAX_PROCESS = 5
    MAX_TIME_SLICE = 1
    MaxSleep = 2
SYMMETRY Symmetry
SPECIFICATION Spec
INVARIANTS
    ProcInv
    FamilyInv
    NoLostChild
    TreeConsistent
    EndsInOrder
PROPERTIES
    ZombieReapedByParent
    SleepLasts
    TimersOwned
