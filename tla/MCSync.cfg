CONSTANTS
    Parts = {"semaphores", "monitor"}
    N = 4
    TIMES = 2
SPECIFICATION SyncSpec
INVARIANTS
    PhiInv
    ForksExclusive
    HungryForReason
    MonitorInv
PROPERTIES
    SemaphoresEnd
    MonitorEnds
