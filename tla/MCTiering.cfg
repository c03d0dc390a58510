CONSTANTS
    Func = {main, f, g}
    Main = main
    Threshold = 2
    MaxDepth = 4
    Graphs <- LiveGraphs
SPECIFICATION Spec
SYMMETRY Renamings
CHECK_DEADLOCK FALSE
INVARIANTS
    TypeOK
    NativeCallResolves
    NoWayBack
    EntryInRegion
    EntryIsCurrent
    RegionsBounded
PROPERTY ImplementsPolicy
