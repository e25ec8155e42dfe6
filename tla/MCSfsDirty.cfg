CONSTANTS
    Parts = {"sfs"}
    Procs = {init, p1, p2}
    init = init
    Files = {f}
    Dirs = {root, d}
    Devs = {}
    root = root
    NENTRY = 3
    MaxLost = 1
    Threads = {t1, t2, t3}
    Inos = {i1}
    Nodes = {n1, n2}
    MaxWrites = 2
    f1 = f1
    f2 = f2
    d1 = d1
    d2 = d2
    Buffers <- MCBuffers
    NBLOCKS = 3
    SFS_BLKSIZE = 2
    SFS_NDIRECT = 1
    SFS_MAX_FILE_SIZE = 6
    NULL = NULL
SPECIFICATION FilesSpec
SYMMETRY Symmetric
CONSTRAINT Bounded
INVARIANTS
    DirtyIfModified
CHECK_DEADLOCK FALSE
