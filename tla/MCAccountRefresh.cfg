CONSTANTS
    s1 = s1  s2 = s2  a = a
    Default = Default
    NoLock = NoLock
    Session = {s1, s2}
    Account = {a}
    Mortal = {s1}
    MaxSyncs <- TwoAndOne
    MaxCredential = 2
SPECIFICATION FairSpec
INVARIANTS SyncedKey EndedSessionHasNoKey OfferIsInUse RefreshedOnce
PROPERTIES RefreshReplacesItsOwn SyncsReturn
CHECK_DEADLOCK FALSE
