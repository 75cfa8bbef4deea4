SPECIFICATION FairSpec
CONSTANTS
    WAITMAX = 2
    MAXDEPTH = 2
    BANNERMAX = 2
    BUFLEN = 2
    OPENWINDOW = 4
    BYTE = 256
    RETRIES = 1
    ALIVE = 2
    COUNTMAX = 1
    REKEY = TRUE
    Lens = {0, 3}
    Statuses = {3, 258}
    NOSTATUS = NOSTATUS
    MaxPrinted = 2
INVARIANTS
    TypeOK
    ExitMirrorsStatus
PROPERTIES
    LoginEnds
    DeadServerDropped
CHECK_DEADLOCK FALSE
