SPECIFICATION SysSpec
CONSTANTS
    WINDOW = 2
    BUMP = 3
    MAXDATA = 2
    CHUNK = 2
    MAXU32 = 5
    CLOSEWAIT = 1
    MaxOut = 3
    MaxGrant = 4
    MaxAttempts = 6
    MaxBannerLines = 2
    DataLens = {2}
    Windows = {4}
    WAITMAX = 3
    MAXDEPTH = 1
    BANNERMAX = 2
    BUFLEN = 2
    OPENWINDOW = 4
    BYTE = 256
    RETRIES = 0
    ALIVE = 1
    COUNTMAX = 1
    REKEY = FALSE
    Lens = {1, 2}
    Statuses = {258}
    NOSTATUS = NOSTATUS
    MaxPrinted = 3
    ExitCode = 258
INVARIANTS
    OutputIntact
PROPERTIES
    ClientAcceptable
    CommandEndsClient
    ClientEndsServer
CHECK_DEADLOCK FALSE
