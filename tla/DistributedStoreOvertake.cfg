SPECIFICATION Spec
CONSTANTS
    k1 = k1
    k2 = k2
    NumNodes = 3
    Keys = {k1}
    Owner <- OneOwner
    NumSegments <- OneValue
    Readers = {0, 1, 2}
    Socket = TRUE
    MaxCrashes = 0
    SpuriousWakeups = FALSE
    Nothing = Nothing
INVARIANT NoAssertFails
CHECK_DEADLOCK FALSE
