SPECIFICATION FairSpec
CONSTANTS
    StartSize = 6
    SizeT = 2
    IntSize = 1
    DoubleSize = 2
    AddressBytes = 3
    NoHome = 9
    BufferSize = 12
    Outboxes <- MCOutboxes
INVARIANTS TypeOK HandledAsSent RowsArrive NoOverrun
PROPERTIES EverythingHandled
CHECK_DEADLOCK FALSE
