SPECIFICATION FairSpec
CONSTANTS
    Keys = {k1, k2}
    Waiters = {w1, w2}
    Putters = {p1, p2}
    MaxPuts = 1
    Absent = Absent
    Null = Null
INVARIANTS TypeOK ReturnsOnlyWhenAdded NoDeletedSignalUsed ListenersAreWaiting
PROPERTY SleeperIsWoken
CONSTRAINT KeysIntact
CHECK_DEADLOCK FALSE
