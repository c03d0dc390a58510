CONSTANTS
    ChunkSize = 2
    Fuel = 30
    StackWords = 20
    Reach26 = 256
    Reach19 = 16
    PrintAddr = 5
    AbortAddr = 6
    Junk = Junk
    Cases <- FarCases
SPECIFICATION Spec
CHECK_DEADLOCK FALSE
INVARIANT
    AcceptedCompiles
