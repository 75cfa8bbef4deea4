SPECIFICATION HealthySpec
CONSTANTS
    WINDOW = 2
    BUMP = 3
    MAXDATA = 2
    CHUNK = 1
    MAXU32 = 5
    CLOSEWAIT = 2
    MaxOut = 1
    MaxGrant = 6
    MaxAttempts = 1
    MaxBannerLines = 1
    DataLens = {2}
    Windows = {3}
INVARIANTS
    ExitForwarded
CHECK_DEADLOCK FALSE
