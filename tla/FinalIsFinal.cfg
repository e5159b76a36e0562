CONSTANTS
    Users = {u1}
    Admins = {}
    NoUser = NoUser
    NoTicket = NoTicket
    Tickets = {t1}
    Events = {e1}
    Workshops = {}
    Bases = {"pair"}
    Quality <- MCQuality
    Capacity <- MCCapacity
    MaxQty = 1
    Attempts = 3
    MaxMishaps = 0
    MaxOrders = 0
    MaxDeliveries = 1
    Watched = e1
SPECIFICATION Spec
PROPERTY FinalIsFinal
