SPECIFICATION FairSpec
CONSTANTS
    Keys = {k1, k2}
    Waiters = {w1}
    Putters = {p1, p2}
    MaxPuts = 1
    Absent = Absent
    Null = Null
PROPERTY WaiterReturnsOnceAdded
CHECK_DEADLOCK FALSE
