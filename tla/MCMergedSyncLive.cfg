CONSTANTS
    d1 = d1  d2 = d2  p1 = p1  p2 = p2  p3 = p3  c1 = c1  c2 = c2
    Absent = Absent  None = None
    Device = {d1, d2}
    Path = {p1}
    Content = {c1, c2}
    Initial <- OneFile
    Together <- Ungrouped
    Protected <- Unprotected
    Partial = {}
    ExternalWriters = TRUE
    MaxAttempts = 2
    MaxEdit = 2  MaxFault = 1  MaxSnapshot = 5
SPECIFICATION LiveSpec
PROPERTIES EventuallySettled PublicationOverwritesOnlyAccepted
