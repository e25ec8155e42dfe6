CONSTANTS
    Parts = {"stdin"}
    MAX_PROCESS = 5
    MAX_PID = 8
    Timers = {t1}
    MaxTicks = 1
    Readers = {r1}
    STDIN_BUFSIZE = 2
    CONSBUFSIZE = 2
    MaxKeys = 3
    MaxLen = 2
SPECIFICATION PartsSpec
PROPERTIES
    KillEndsRead
