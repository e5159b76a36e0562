------------------------------ MODULE Dialogs -------------------------------
(***************************************************************************)
(* The dialogs of the bot and the rows they work on, each by itself: the   *)
(* choice of a part is made in the initial state, and only that part runs. *)
(* ReserveDialog is extended and has its variables for itself.  The other  *)
(* parts have the variables they declare, under the same names (but for    *)
(* four that ReserveDialog has too); a name several of them use is one     *)
(* variable, that of the part which runs.                                  *)
(***************************************************************************)
EXTENDS ReserveDialog

CONSTANTS
    Kids, MaxChanges,                                   \* ChildrenForm
    Plays, Showings, PlayOf, Visitors, Sold, Someone, SalesMoves,  \* SalesDialog
    Ids, Codes, PromotionMoves,                         \* PromotionForm
    First, Seats, ScheduleMoves,                        \* ScheduleForm
    Orders, Limits, MaxDeliveries, MaxEdits,            \* PromotionUse
    MaxBacks                                            \* BirthdayOrder

ASSUME PartsAssumption ==
    /\ IsFiniteSet(Kids) /\ 0 \notin Ids
    /\ First \in Events /\ Seats \subseteq Nat
    /\ IsFiniteSet(Orders) /\ Limits \subseteq Nat
    /\ {MaxChanges, SalesMoves, PromotionMoves, ScheduleMoves, MaxDeliveries,
        MaxEdits, MaxBacks} \subseteq Nat

VARIABLES
    part,                                      \* the part that runs
    at, message, answers, begun,  \* conv, screen, data and starts of the parts
    saved, form, rows, moves,                              \* of several parts
    kid, limit, admin, filter, children, selected, adding, editing, edit,
    booked, last, asked, changes,                          \* ChildrenForm
    sales, row, found,                                     \* SalesDialog
    update,                                                \* PromotionForm
    service, dels, opened, taken, busy, clean,             \* ScheduleForm
    max, count, offered, sheet, order, discount, deliveries, edits, most, lost,
    unasked,                                               \* PromotionUse
    bd, live, mixed, orders, backs                         \* BirthdayOrder

F == INSTANCE ChildrenForm WITH screen <- message
M == INSTANCE SalesDialog WITH
        Tickets <- Sold, MaxMoves <- SalesMoves, conv <- at
C == INSTANCE PromotionForm WITH
        MaxMoves <- PromotionMoves, conv <- at, screen <- message, data <- answers
S == INSTANCE ScheduleForm WITH
        MaxMoves <- ScheduleMoves, conv <- at, screen <- message, data <- answers
U == INSTANCE PromotionUse
B == INSTANCE BirthdayOrder WITH conv <- at, starts <- begun

\* What the parts that do not run have for theirs.
childrenVars == <<kid, limit, admin, filter, children, selected, adding, editing,
                  edit, booked, last, asked, changes>>
salesVars == <<sales, row, found>>
scheduleVars == <<service, dels, opened, taken, busy, clean>>
useVars == <<max, count, offered, sheet, order, discount, deliveries, edits,
             most, lost, unasked>>
birthdayVars == <<bd, live, mixed, orders, backs>>
sharedVars == <<at, message, answers, begun, saved, form, rows, moves>>
partsVars == <<part, vars, sharedVars, childrenVars, salesVars, update,
               scheduleVars, useVars, birthdayVars>>

NoChildren == /\ kid = 0 /\ limit = 0 /\ admin = 0 /\ filter = 0 /\ children = 0
              /\ selected = 0 /\ adding = 0 /\ editing = 0 /\ edit = 0
              /\ booked = 0 /\ last = 0 /\ asked = 0 /\ changes = 0
NoSales == sales = 0 /\ row = 0 /\ found = 0
NoSchedule == /\ service = 0 /\ dels = 0 /\ opened = 0 /\ taken = 0 /\ busy = 0
              /\ clean = 0
NoUse == /\ max = 0 /\ count = 0 /\ offered = 0 /\ sheet = 0 /\ order = 0
         /\ discount = 0 /\ deliveries = 0 /\ edits = 0 /\ most = 0 /\ lost = 0
         /\ unasked = 0
NoBirthday == bd = 0 /\ live = 0 /\ mixed = 0 /\ orders = 0 /\ backs = 0

PartsInit ==
    /\ Init
    /\ \/ /\ part = "reserve"
          /\ at = 0 /\ message = 0 /\ answers = 0 /\ begun = 0
          /\ saved = 0 /\ form = 0 /\ rows = 0 /\ moves = 0 /\ update = 0
          /\ NoChildren /\ NoSales /\ NoSchedule /\ NoUse /\ NoBirthday
       \/ /\ part = "children" /\ F!Init
          /\ at = 0 /\ answers = 0 /\ begun = 0
          /\ saved = 0 /\ form = 0 /\ rows = 0 /\ moves = 0 /\ update = 0
          /\ NoSales /\ NoSchedule /\ NoUse /\ NoBirthday
       \/ /\ part = "sales" /\ M!Init
          /\ message = 0 /\ answers = 0 /\ begun = 0
          /\ form = 0 /\ rows = 0 /\ update = 0
          /\ NoChildren /\ NoSchedule /\ NoUse /\ NoBirthday
       \/ /\ part = "promotion" /\ C!Init
          /\ begun = 0
          /\ NoChildren /\ NoSales /\ NoSchedule /\ NoUse /\ NoBirthday
       \/ /\ part = "schedule" /\ S!Init
          /\ begun = 0 /\ form = 0 /\ update = 0
          /\ NoChildren /\ NoSales /\ NoUse /\ NoBirthday
       \/ /\ part = "use" /\ U!Init
          /\ at = 0 /\ message = 0 /\ answers = 0 /\ begun = 0
          /\ saved = 0 /\ rows = 0 /\ moves = 0 /\ update = 0
          /\ NoChildren /\ NoSales /\ NoSchedule /\ NoBirthday
       \/ /\ part = "birthday" /\ B!Init
          /\ message = 0 /\ answers = 0
          /\ form = 0 /\ rows = 0 /\ moves = 0 /\ update = 0
          /\ NoChildren /\ NoSales /\ NoSchedule /\ NoUse

PartsNext ==
    \/ /\ part = "reserve" /\ Next
       /\ UNCHANGED <<part, sharedVars, childrenVars, salesVars, update,
                      scheduleVars, useVars, birthdayVars>>
    \/ /\ part = "children" /\ F!Next
       /\ UNCHANGED <<part, vars, at, answers, begun, saved, form, rows, moves,
                      salesVars, update, scheduleVars, useVars, birthdayVars>>
    \/ /\ part = "sales" /\ M!Next
       /\ UNCHANGED <<part, vars, message, answers, begun, form, rows, update,
                      childrenVars, scheduleVars, useVars, birthdayVars>>
    \/ /\ part = "promotion" /\ C!Next
       /\ UNCHANGED <<part, vars, begun, childrenVars, salesVars, scheduleVars,
                      useVars, birthdayVars>>
    \/ /\ part = "schedule" /\ S!Next
       /\ UNCHANGED <<part, vars, begun, form, update, childrenVars, salesVars,
                      useVars, birthdayVars>>
    \/ /\ part = "use" /\ U!Next
       /\ UNCHANGED <<part, vars, at, message, answers, begun, saved, rows, moves,
                      update, childrenVars, salesVars, scheduleVars, birthdayVars>>
    \/ /\ part = "birthday" /\ B!Next
       /\ UNCHANGED <<part, vars, message, answers, form, rows, moves, update,
                      childrenVars, salesVars, scheduleVars, useVars>>
    \/ /\ part = "birthday" /\ at = "END" /\ begun = MaxStarts
       /\ UNCHANGED partsVars                       \* he orders no further party
PartsSpec == PartsInit /\ [][PartsNext]_partsVars

----------------------------------------------------------------------------
(* The properties of the parts: their comments are in their modules.       *)

\* Children that were marked are booked (ChildrenForm).
ChosenAreBooked == part = "children" => F!ChosenAreBooked
\* A typed text changes what was asked for last (ChildrenForm).
TypedGoesWhereAsked == [][part = "children" => F!TypedAsAsked]_childrenVars
\* A campaign is started with what was selected last (SalesDialog).
StartedAsSelected == [][part = "sales" => M!AsSelected]_salesVars
\* A promo code becomes what its summary showed (PromotionForm).
SavedAsShown == [][part = "promotion" => C!AsShown]_rows
\* What "back" shows was saved (PromotionForm).
BackIsKnown == part = "promotion" => C!BackIsKnown
\* Saving a form keeps the free seats of a showing (ScheduleForm).
FreeSeatsKept == part = "schedule" => S!FreeSeatsKept
\* A form that is filled in straight does not fail (ScheduleForm).
StraightNeverFails == [][part = "schedule" => S!NoFailure]_at
\* A code's limit is exceeded in the known ways only (PromotionUse).
LimitHolds == part = "use" => U!LimitHolds
\* A party that is ordered is one the theatre offers (BirthdayOrder).
OrderFits == part = "birthday" => B!OrderFits
=============================================================================
