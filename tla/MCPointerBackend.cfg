CONSTANTS
    d1 = d1  d2 = d2  s1 = s1  s2 = s2  s3 = s3
    None = None
    Device = {d1, d2}
    Snapshot = {s1, s2, s3}
    Limit = 2
    Repairs = TRUE
SPECIFICATION Spec
SYMMETRY Interchangeable
INVARIANTS NamedIsStored HistoryWasActive
PROPERTIES HistoryKeepsEntries ImplementsRemoteHead
CHECK_DEADLOCK FALSE
