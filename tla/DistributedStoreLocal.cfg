SPECIFICATION FairSpec
CONSTANTS
    k1 = k1
    k2 = k2
    NumNodes = 3
    Keys = {k1, k2}
    Owner <- TwoOwners
    NumSegments <- TwoValues
    Readers = {0, 2}
    Socket = FALSE
    MaxCrashes = 0
    SpuriousWakeups = FALSE
    Nothing = Nothing
INVARIANT NoAssertFails
PROPERTY ReadsEnd
