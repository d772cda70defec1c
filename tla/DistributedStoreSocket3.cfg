SPECIFICATION FairSpec
CONSTANTS
    k1 = k1
    k2 = k2
    NumNodes = 3
    Keys = {k1}
    Owner <- OneOwner
    NumSegments <- ShortValue
    Readers = {1, 2}
    Socket = TRUE
    MaxCrashes = 1
    SpuriousWakeups = TRUE
    Nothing = Nothing
INVARIANTS TypeOK LocalSegmentsComplete ReplyAnswersRequest
PROPERTIES  ImplementsValueStore ValueReachesAll
CHECK_DEADLOCK FALSE
