CONSTANTS
    f = f
    g = g
    h = h
    Func = {main, f, g, h}
    Main = main
    Threshold = 2
    MaxDepth = 3
    Graphs <- Programs
    Line = {l1, l2}
    Zero = zero
    Stale = stale
    NoObj = NoObj
    NoWord = NoWord
    NoFunc = NoFunc
SPECIFICATION MemorySpec
CHECK_DEADLOCK FALSE
INVARIANT FetchesOwnCode
PROPERTIES
    UsesMemoryAsAssumed
    ImplementsTiering
