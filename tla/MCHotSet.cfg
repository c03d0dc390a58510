CONSTANTS
    Func = {1, 2, 3}
    MaxCalls = 2
    Bodies <- ShortBodies
SPECIFICATION FairSpec
CHECK_DEADLOCK FALSE
INVARIANTS
    FindsReachable
    FoundOnce
PROPERTY Terminates
