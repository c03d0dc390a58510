CONSTANTS
    Func = {main, f}
    Main = main
    Threshold = 1
    MaxDepth = 3
    Graphs <- LiveGraphs
SPECIFICATION Spec
CHECK_DEADLOCK FALSE
INVARIANT
    CalledOnceStaysInterpreted
