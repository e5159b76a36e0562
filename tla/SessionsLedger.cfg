CONSTANTS
    BotTickets = {b1}
    WebTickets = {w1}
    Requests = {r1}
    Capacity = 1
    MaxFaults = 1
    NoTicket = NoTicket
SPECIFICATION Spec
CONSTRAINT Unspoilt
INVARIANTS TypeOK SeatsToSell
PROPERTY LedgerSpec
