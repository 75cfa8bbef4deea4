SPECIFICATION Spec
CONSTANTS
    Words <- MCWords
    Number <- MCNumber
    Parts <- MCParts
    Size <- MCSize
    HexKeys = {"hex"}
    Dashed = {"-x"}
    Lines <- MCLines
    UNSET = UNSET
    ROOM = 5
    MaxInput = 5
INVARIANTS
    EffectiveOptions
    CommandVerbatim
PROPERTIES
    CommandLineWins
CHECK_DEADLOCK FALSE
