CONSTANTS
    Parts = {"resources"}
    NULL = NULL
    Procs = {initproc, r1, r2, r3}
    initproc = initproc
    Mms = {m1, m2}
    PGSIZE = 2
    USERBASE = 2
    USERTOP = 8
    Flags <- MCFlags
    MaxAreas = 3
    NPAGES = 6
    NENTRY = 2
    UserPages = 5
    Segments <- MCSegments
    MaxSegments = 2
    Proc = {p1, p2, p3}
    Width = 3
    Priorities <- MCPriorities
    MAX_TIME_SLICE = 1
SPECIFICATION ProcessesSpec
SYMMETRY Symmetric
VIEW View
INVARIANTS
    ForkReleases
