CONSTANTS
    Users = {u1}
    Admins = {u1}
    NoUser = NoUser
    NoTicket = NoTicket
    Tickets = {t1}
    Events = {e1}
    Workshops = {}
    Bases = {"pair"}
    Quality <- MCQuality
    Capacity <- MCCapacity
    MaxQty = 1
    Attempts = 2
    MaxMishaps = 1
    MaxOrders = 1
    MaxDeliveries = 2
    Watched = e1
SPECIFICATION FairSpec
INVARIANTS
    TypeOK
    SeatsConserved
    AskedOnce
PROPERTIES
    LedgerSpec
    PaidSeatsStay
    CreatedIsTemporary
