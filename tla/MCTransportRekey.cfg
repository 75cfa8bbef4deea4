SPECIFICATION Spec
CONSTANTS
    DataLens = {23}
    KexinitLen = 500
    SEQ = 4
    MAXLEN = 35000
    MaxData = 1
    MaxRekeys = 1
    MaxFaults = 0
INVARIANTS
    RekeyAgrees
CHECK_DEADLOCK FALSE
