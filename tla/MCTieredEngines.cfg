CONSTANTS
    ChunkSize = 2
    Fuel = 80
    StackWords = 60
    Reach26 = 33554432
    Reach19 = 262144
    PrintAddr = 5
    AbortAddr = 6
    Junk = Junk
    Programs <- Crossings
    Thresholds = {1, 2, 3, 100}
SPECIFICATION Spec
CHECK_DEADLOCK FALSE
INVARIANT TiersAgree
PROPERTIES
    Terminates
    FollowsPolicy
