CONSTANTS
    a = a  b = b  c = c
    NoLock = NoLock
    Proc = {a, b, c}
    Kinds = {"sync"}
    Foreign = {}
    Suspends = TRUE
    MaxRun = 3
SPECIFICATION Spec
SYMMETRY ProcSymmetry
INVARIANTS MutualExclusion LiveLockIsInUse
CHECK_DEADLOCK FALSE
