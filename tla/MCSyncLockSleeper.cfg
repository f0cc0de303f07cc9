CONSTANTS
    a = a  b = b  c = c
    NoLock = NoLock
    Proc = {a, b, c}
    Kinds = {"sync", "recovery"}
    Foreign = {}
    Suspends = TRUE
    MaxRun = 2
SPECIFICATION Spec
SYMMETRY ProcSymmetry
INVARIANT MutualExclusion
CHECK_DEADLOCK FALSE
