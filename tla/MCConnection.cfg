SPECIFICATION FairSpec
CONSTANTS
    WINDOW = 2
    BUMP = 3
    MAXDATA = 2
    CHUNK = 1
    MAXU32 = 5
    CLOSEWAIT = 2
    MaxOut = 2
    MaxGrant = 6
    MaxAttempts = 2
    MaxBannerLines = 2
    DataLens = {2}
    Windows = {0, 3}
INVARIANTS
    TypeOK
    LocalWindowBand
    WindowRespected
    OutputComplete
    NoOrphan
    OneChannelOneClose
    DrainIsFinal
    SessionAuthorised
PROPERTIES
    WireRefined
    HandshakeBounded
    DrainBounded
    CompletionNoticed
    OverLimitCloses
CHECK_DEADLOCK FALSE
