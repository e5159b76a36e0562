CONSTANTS
    Events = {"e1", "e2"}
    Tickets = {"small", "big", "season"}
    Individual = {"season"}
    Childless = {"season"}
    Dear = {"big"}
    MaxStarts = 2
    Kids = {"k1", "k2"}
    MaxChanges = 1
    Plays = {"a", "b"}
    Showings = {"s1", "s2"}
    PlayOf <- MCPlayOf
    Visitors <- MCVisitors
    Sold <- MCSold
    Someone = {"dev"}
    SalesMoves = 3
    Ids = {1, 2}
    Codes = {"old", "A"}
    PromotionMoves = 2
    First = "e1"
    Seats = {1, 2}
    ScheduleMoves = 4
    Orders = {"o1", "o2", "o3"}
    Limits = {0, 2}
    MaxDeliveries = 2
    MaxEdits = 1
    MaxBacks = 2
SPECIFICATION PartsSpec
CONSTRAINT Followed
INVARIANTS
    TypeOK
    OwnDialogNeverFails
    EveryButtonAnswered
    SummaryIsTrue
    WaitingIsShown
    ChosenAreBooked
    BackIsKnown
    FreeSeatsKept
    OrderFits
    LimitHolds
PROPERTIES
    TypedGoesWhereAsked
    StartedAsSelected
    SavedAsShown
    StraightNeverFails
