CONSTANTS
    BotTickets = {b1}
    WebTickets = {}
    Requests = {}
    Capacity = 1
    MaxFaults = 0
    NoTicket = NoTicket
SPECIFICATION Spec
PROPERTY JobCancelsCreated
