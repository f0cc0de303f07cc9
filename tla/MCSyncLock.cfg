CONSTANTS
    a = a  b = b  c = c
    NoLock = NoLock
    Proc = {a, b, c}
    Kinds = {"sync", "recovery", "unlock", "unlock --stale"}
    Foreign = {c}
    Suspends = FALSE
    MaxRun = 2
SPECIFICATION LiveUnlock
INVARIANT RunningOwnsLock
PROPERTY LockIsFreedAgain
CHECK_DEADLOCK FALSE
