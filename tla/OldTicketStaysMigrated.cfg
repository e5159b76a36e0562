CONSTANTS
    Users = {u1}
    Admins = {u1}
    NoUser = NoUser
    NoTicket = NoTicket
    Tickets = {t1, t2}
    Events = {e1, e2}
    Workshops = {}
    Bases = {"pair"}
    Quality <- MCQuality
    Capacity <- MCCapacity
    MaxQty = 1
    Attempts = 3
    MaxMishaps = 1
    MaxOrders = 1
    MaxDeliveries = 0
    Watched = e1
SPECIFICATION Spec
PROPERTY OldTicketStaysMigrated
