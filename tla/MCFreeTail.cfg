CONSTANTS
    Parts = {"free_list"}
    NULL = NULL
    NPage = 4
    FreesBelow = FALSE
    nbase = 16
    BuddyPages = 9
    First = 3
    MAX_ORDER = 4
    PGSIZE = 16
    SLAB_STRUCT = 3
    SLAB_CACHE_SIZES <- MCCacheSizes
    Requests <- MCRequests
    SlubPages = 4
    SLOB_UNIT = 2
    PU = 6
    BB = 2
    HeapPages = 3
    Sizes <- MCSizes
SPECIFICATION AllocSpec
INVARIANTS
    FreeListCheck
