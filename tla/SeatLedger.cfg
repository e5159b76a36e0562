CONSTANTS
    Tickets = {t1, t2, t3}
    Kinds <- MCKinds
    Capacity <- MCCapacity
    MaxQty = 2
    Opened = 2
    MaxOps = 3
    SheetFaults = 1
    MaxMsgs = 2
    Payments = {"p1", "p2"}
    EventTickets = {"t1", "t2"}
    MaxReloads = 2
    MaxFaults = 2
SPECIFICATION FairSpec
INVARIANTS
    TypeOK
    Balanced
    SheetTellsTruth
    TwiceOnlyUnmarked
PROPERTIES
    ReloadKeepsCounters
    PaymentIsBooked
    DueIsReminded
CHECK_DEADLOCK FALSE
