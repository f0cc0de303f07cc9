CONSTANTS
    d1 = d1  d2 = d2  p1 = p1  p2 = p2  p3 = p3  c1 = c1  c2 = c2
    Absent = Absent  None = None
    Device = {d1, d2}
    Path = {p1, p2, p3}
    Content = {c1, c2}
    Initial <- FileOutsideGroup
    Together <- OneGroup
    Protected <- Unprotected
    Partial = {d1, d2}
    ExternalWriters = FALSE
    MaxAttempts = 1
    MaxEdit = 2  MaxFault = 1  MaxSnapshot = 3
SPECIFICATION Spec
SYMMETRY Symmetry
INVARIANTS NoVersionLost UnacceptedBytesAreJournaled BaselineWasActive
PROPERTY ImplementsThreeWaySync
