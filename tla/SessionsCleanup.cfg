CONSTANTS
    BotTickets = {b1}
    WebTickets = {}
    Requests = {}
    Capacity = 1
    MaxFaults = 3
    NoTicket = NoTicket
SPECIFICATION FairSpec
PROPERTY ExpiredEnds
