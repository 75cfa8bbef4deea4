SPECIFICATION HTSpec
CONSTANTS
    Invocations = {p1, p2, p3}
    Clients = {c1, c2, c3}
    Keys = {p1, p2, p3}
    NONE = NONE
    NOKEY = NOKEY
    LEN = 2
    MaxLosses = 1
    MaxTorn = 1
SYMMETRY Symmetric
INVARIANTS
    CreatorOwnsName
    CreatedIsDurable
    ReturnedIsComplete
    FirstUseBinds
    NoFalseAlarm
PROPERTIES
    SeedRetained
    RecordStable
CHECK_DEADLOCK FALSE
