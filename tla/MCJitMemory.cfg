CONSTANTS
    Line = {l1, l2}
    Word = {zero, a, b}
    Zero = zero
    Obj = {o1, o2}
    NoObj = NoObj
    NoWord = NoWord
SPECIFICATION Spec
SYMMETRY Renamings
CHECK_DEADLOCK FALSE
INVARIANTS
    Coherent
    NeverCrashes
PROPERTY CodeIsFrozen
