CONSTANTS
    Parts = {"pid", "timers", "stdin"}
    MAX_PROCESS = 5
    MAX_PID = 8
    Timers = {t1, t2, t3, t4}
    MaxTicks = 4
    Readers = {r1, r2}
    STDIN_BUFSIZE = 2
    CONSBUFSIZE = 3
    MaxKeys = 5
    MaxLen = 2
SPECIFICATION PartsSpec
INVARIANTS
    PidInv
    TimerInv
    StdinInv
PROPERTIES
    RefinesPidSpec
    GetPidReturns
    ImplementsTimers
    WakesOnTime
    WaitingReaderServed
