CONSTANTS
    ChunkSize = 2
    Fuel = 30
    StackWords = 120
    Reach26 = 33554432
    Reach19 = 262144
    PrintAddr = 5
    AbortAddr = 6
    Junk = Junk
    Cases <- AllCases
SPECIFICATION Spec
CHECK_DEADLOCK FALSE
INVARIANTS
    EnginesAgree
    NothingUndefined
    NeverFaults
    AbiHonoured
    BalancedAtReturn
PROPERTY Terminates
