CONSTANTS
    d1 = d1  d2 = d2  d3 = d3  s1 = s1  s2 = s2  s3 = s3  s4 = s4
    None = None
    Device = {d1, d2, d3}
    Snapshot = {s1, s2, s3, s4}
    MaxListed = 2
SPECIFICATION Spec
SYMMETRY Interchangeable
INVARIANTS HistoryIsComplete PublishedStandsBehindReviewed
PROPERTIES ImplementsRemoteHead
CHECK_DEADLOCK FALSE
