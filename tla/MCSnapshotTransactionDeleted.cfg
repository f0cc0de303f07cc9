CONSTANTS
    d = d  x = x  y = y  f = f  v1 = v1  v2 = v2
    Missing = Missing  Dir = Dir  None = None
    Target = {d, x, f}
    Inside <- MCInside
    Managed = {d, x, f}
    Content = {v1, v2}
    AtFirst = {v1}
    ExternalWriters = FALSE
    MaxApply = 1
    MaxEdit = 1
    MaxFault = 2
SPECIFICATION Spec
PROPERTIES InstalledDeletionStands
CHECK_DEADLOCK FALSE
