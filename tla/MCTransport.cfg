SPECIFICATION Spec
CONSTANTS
    DataLens = {24}
    KexinitLen = 500
    SEQ = 4
    MAXLEN = 35000
    MaxData = 3
    MaxRekeys = 2
    MaxFaults = 2
INVARIANTS
    
    KeystreamFresh
    NoSpuriousDrop
PROPERTIES
    KexCompletes
CHECK_DEADLOCK FALSE
