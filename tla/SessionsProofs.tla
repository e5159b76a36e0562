--------------------------- MODULE SessionsProofs ---------------------------
(* Sessions implements SeatLedger: commit by commit, for any number of     *)
(* tickets, booking forms and seats.                                       *)
EXTENDS SessionsLedger, FiniteSetTheorems, TLAPS

Counters == [Columns -> Int]

\* A row is never the absence of one, and its columns are numbers.
LEMMA RowsAreRows ==
    /\ \A r \in Counters : r # NoRow /\ r["free"] \in Int /\ r["nonconfirm"] \in Int
    /\ \A op \in Operations, c \in Columns : Delta[op][c] \in Int
    /\ [free |-> Capacity, nonconfirm |-> 0] \in Counters
<1>1. \A r \in Counters : r # NoRow
  <2>1. DOMAIN NoRow = {}
    BY DEF NoRow
  <2>2. \A r \in Counters : DOMAIN r = Columns
    BY DEF Counters
  <2> QED BY <2>1, <2>2 DEF Columns
<1>2. \A r \in Counters : r["free"] \in Int /\ r["nonconfirm"] \in Int
  BY DEF Counters, Columns
<1>3. \A op \in Operations, c \in Columns : Delta[op][c] \in Int
  BY DEF Delta, Operations, Columns
<1>4. [free |-> Capacity, nonconfirm |-> 0] \in Counters
  BY SessionsAssumption DEF Counters, Columns
<1> QED BY <1>1, <1>2, <1>3, <1>4

\* What p writes is a row.
LEMMA WrittenTyped ==
    ASSUME NEW p \in Process, row \in Counters, seen[p] \in Counters, doing[p] \in Operations
    PROVE  update_schedule_event(p) \in Counters
BY RowsAreRows DEF update_schedule_event, Counters

LEMMA StatusesTyped ==
    /\ \A op \in Operations : Outcome[op] \in Status
    /\ {"ABSENT", "CREATED", "PAID", "CANCELED"} \subseteq Status
    /\ "book" \in Operations /\ "cancel" \in Operations
    /\ "confirm" \in Operations /\ "reject" \in Operations
BY DEF Outcome, Operations, Status

\* The type invariant by parts.
DataTyped == /\ status \in [Tickets -> Status]
             /\ age \in [Tickets -> 0..2]
             /\ row \in Counters
OutsideTyped == payable \subseteq Tickets /\ asked \subseteq Tickets
PlacesInCode == {"idle", "read", "create", "counters", "status", "pay"}
StepsTyped == /\ at \in [Process -> PlacesInCode]
              /\ doing \in [Process -> Operations]
              /\ ticket \in [Process -> Tickets \cup {NoTicket}]
              /\ \A p \in Process : at[p] # "idle" => ticket[p] \in Tickets
SeenTyped == /\ seen \in [Process -> Counters \cup {NoRow}]
             /\ \A p \in Process : at[p] \in {"create", "counters"} => seen[p] # NoRow
TodoTyped == todo \in [Lists -> SUBSET Tickets]
HistoryTyped == faults \in 0..MaxFaults /\ spoilt \in BOOLEAN /\ unasked \subseteq WebTickets

LEMMA TypeOKParts ==
    TypeOK <=> /\ DataTyped /\ OutsideTyped /\ StepsTyped
               /\ SeenTyped /\ TodoTyped /\ HistoryTyped
BY DEF TypeOK, DataTyped, OutsideTyped, PlacesInCode, StepsTyped, SeenTyped,
       TodoTyped, HistoryTyped, Counters

LEMMA InitTyped == Init => TypeOK
<1> SUFFICES ASSUME Init PROVE TypeOK
  OBVIOUS
<1>1. DataTyped
  BY RowsAreRows, StatusesTyped DEF Init, DataTyped
<1>2. OutsideTyped /\ TodoTyped
  BY DEF Init, OutsideTyped, TodoTyped
<1>3. StepsTyped /\ SeenTyped
  BY StatusesTyped DEF Init, StepsTyped, SeenTyped, PlacesInCode
<1>4. faults \in 0..MaxFaults
  BY SessionsAssumption DEF Init
<1>5. spoilt \in BOOLEAN /\ unasked \subseteq WebTickets
  BY DEF Init
<1> QED BY <1>1, <1>2, <1>3, <1>4, <1>5, TypeOKParts DEF HistoryTyped
-----------------------------------------------------------------------------
(* The steps of handlers keep the types.                                   *)

LEMMA BeginTyped ==
    ASSUME StepsTyped, NEW p \in Process, NEW op \in Operations, NEW t \in Tickets,
           NEW where \in PlacesInCode, Begin(p, op, t, where)
    PROVE  StepsTyped'
BY DEF Begin, StepsTyped

LEMMA GoToTyped ==
    ASSUME StepsTyped, NEW p \in Process, NEW where \in PlacesInCode,
           at[p] # "idle", GoTo(p, where)
    PROVE  StepsTyped'
BY DEF GoTo, StepsTyped

LEMMA FinishTyped ==
    ASSUME StepsTyped, SeenTyped, NEW p \in Process, NEW r \in Counters \cup {NoRow},
           Finish(p, r)
    PROVE  StepsTyped' /\ SeenTyped'
BY StatusesTyped DEF Finish, StepsTyped, SeenTyped, PlacesInCode

LEMMA EndTyped ==
    ASSUME StepsTyped, SeenTyped, TodoTyped, NEW P, EndProcesses(P)
    PROVE  StepsTyped' /\ SeenTyped' /\ TodoTyped'
BY StatusesTyped DEF EndProcesses, StepsTyped, SeenTyped, TodoTyped, PlacesInCode

\* A session takes the row of the database or keeps its own.
LEMMA ReadTyped ==
    ASSUME DataTyped, SeenTyped, NEW p \in Process, get_schedule_event(p)
    PROVE  /\ seen' \in [Process -> Counters \cup {NoRow}]
           /\ seen'[p] # NoRow
           /\ \A q \in Process \ {p} : seen'[q] = seen[q]
BY RowsAreRows DEF get_schedule_event, DataTyped, SeenTyped

Typed == DataTyped /\ OutsideTyped /\ StepsTyped /\ SeenTyped /\ TodoTyped /\ HistoryTyped

\* History stays what it is when at most the flag is set.
LEMMA SpoilsTyped ==
    ASSUME HistoryTyped, NEW condition \in BOOLEAN, Spoils(condition),
           UNCHANGED <<faults, unasked>>
    PROVE  HistoryTyped'
<1>1. faults' \in 0..MaxFaults /\ unasked' \subseteq WebTickets
  BY DEF HistoryTyped
<1>2. spoilt' \in BOOLEAN
  BY DEF HistoryTyped, Spoils
<1> QED BY <1>1, <1>2 DEF HistoryTyped

LEMMA OvertakenBoolean == \A p : Overtaken(p) \in BOOLEAN
BY DEF Overtaken

LEMMA StepActionsTyped ==
    ASSUME Typed, NEW p \in Process,
           ReadRow(p) \/ CommitCounters(p) \/ CommitStatus(p) \/ CreatePayment(p)
    PROVE  Typed'
<1> USE DEF Typed
<1>1. CASE ReadRow(p)
  <2>1. StepsTyped'
    BY <1>1, GoToTyped DEF ReadRow, PlacesInCode
  <2>2. SeenTyped'
    BY <1>1, ReadTyped DEF ReadRow, GoTo, SeenTyped, StepsTyped
  <2>3. /\ DataTyped' /\ OutsideTyped' /\ TodoTyped' /\ HistoryTyped'
    BY <1>1 DEF ReadRow, dataVars, outsideVars, DataTyped, OutsideTyped, TodoTyped,
                HistoryTyped
  <2> QED BY <2>1, <2>2, <2>3
<1>2. CASE CommitCounters(p)
  <2>1. at[p] = "counters" /\ seen[p] \in Counters /\ doing[p] \in Operations
    BY <1>2 DEF CommitCounters, SeenTyped, StepsTyped
  <2>2. row' \in Counters /\ row' # NoRow
    BY <1>2, <2>1, WrittenTyped, RowsAreRows DEF CommitCounters, DataTyped
  <2>3. StepsTyped'
    BY <1>2, <2>1, GoToTyped DEF CommitCounters, PlacesInCode
  <2>4. SeenTyped'
    BY <1>2, <2>2 DEF CommitCounters, SeenTyped, GoTo, StepsTyped
  <2>5. DataTyped' /\ OutsideTyped' /\ TodoTyped'
    BY <1>2, <2>2 DEF CommitCounters, outsideVars, DataTyped, OutsideTyped, TodoTyped
  <2>6. HistoryTyped'
    BY <1>2, SpoilsTyped, OvertakenBoolean DEF CommitCounters
  <2> QED BY <2>3, <2>4, <2>5, <2>6
<1>3. CASE CommitStatus(p)
  <2>1. seen[p] \in Counters \cup {NoRow} /\ ticket[p] \in Tickets /\ doing[p] \in Operations
    BY <1>3 DEF CommitStatus, SeenTyped, StepsTyped
  <2>2. StepsTyped' /\ SeenTyped'
    BY <1>3, <2>1, FinishTyped DEF CommitStatus
  <2>3. DataTyped' /\ OutsideTyped' /\ TodoTyped' /\ HistoryTyped'
    BY <1>3, <2>1, StatusesTyped
       DEF CommitStatus, DataTyped, OutsideTyped, TodoTyped, HistoryTyped
  <2> QED BY <2>2, <2>3
<1>4. CASE CreatePayment(p)
  <2>1. ticket[p] \in Tickets
    BY <1>4 DEF CreatePayment, StepsTyped
  <2>2. StepsTyped' /\ SeenTyped'
    BY <1>4, FinishTyped DEF CreatePayment
  <2>3. DataTyped' /\ OutsideTyped' /\ TodoTyped' /\ HistoryTyped'
    BY <1>4, <2>1
       DEF CreatePayment, dataVars, DataTyped, OutsideTyped, TodoTyped, HistoryTyped
  <2> QED BY <2>2, <2>3
<1> QED BY <1>1, <1>2, <1>3, <1>4

LEMMA BotActionsTyped ==
    ASSUME Typed,
           \/ create_tickets
           \/ \E t \in Tickets :
                \/ confirm_go_pay(t) \/ cancel_ticket_and_return_seat(t)
                \/ confirm_reserve(t) \/ reject_reserve(t) \/ processing_ticket_paid(t)
    PROVE  Typed'
<1> USE DEF Typed
<1>0. "bot" \in Process
  BY DEF Process
<1>1. ASSUME NEW t \in Tickets, confirm_go_pay(t) PROVE Typed'
  <2>1. StepsTyped'
    BY <1>0, <1>1, BeginTyped, StatusesTyped DEF confirm_go_pay, PlacesInCode
  <2>2. SeenTyped'
    BY <1>0, <1>1, RowsAreRows
       DEF confirm_go_pay, Begin, SeenTyped, StepsTyped, DataTyped
  <2>3. DataTyped' /\ OutsideTyped' /\ TodoTyped' /\ HistoryTyped'
    BY <1>1 DEF confirm_go_pay, dataVars, outsideVars, DataTyped, OutsideTyped, TodoTyped,
                HistoryTyped
  <2> QED BY <2>1, <2>2, <2>3
<1>2. ASSUME NEW op \in Operations, NEW t \in Tickets, Handle(op, t)
      PROVE  Typed'
  <2>1. StepsTyped'
    BY <1>0, <1>2, BeginTyped DEF Handle, PlacesInCode
  <2>2. SeenTyped'
    BY <1>0, <1>2 DEF Handle, Begin, SeenTyped, StepsTyped
  <2>3. DataTyped' /\ OutsideTyped' /\ TodoTyped' /\ HistoryTyped'
    BY <1>2 DEF Handle, dataVars, outsideVars, DataTyped, OutsideTyped, TodoTyped,
                HistoryTyped
  <2> QED BY <2>1, <2>2, <2>3
<1>3. ASSUME NEW t \in Tickets,
             cancel_ticket_and_return_seat(t) \/ confirm_reserve(t) \/ reject_reserve(t)
      PROVE  Typed'
  BY <1>2, <1>3, StatusesTyped
     DEF cancel_ticket_and_return_seat, confirm_reserve, reject_reserve
<1>4. CASE create_tickets
  <2>1. ticket["bot"] \in Tickets /\ at["bot"] # "idle"
    BY <1>0, <1>4 DEF create_tickets, StepsTyped
  <2>2. StepsTyped'
    BY <1>0, <1>4, <2>1, GoToTyped DEF create_tickets, PlacesInCode
  <2>3. SeenTyped'
    BY <1>0, <1>4 DEF create_tickets, GoTo, SeenTyped, StepsTyped
  <2>4. DataTyped' /\ OutsideTyped' /\ TodoTyped' /\ HistoryTyped'
    BY <1>4, <2>1, StatusesTyped
       DEF create_tickets, outsideVars, DataTyped, OutsideTyped, TodoTyped, HistoryTyped
  <2> QED BY <2>2, <2>3, <2>4
<1>5. ASSUME NEW t \in Tickets, processing_ticket_paid(t) PROVE Typed'
  <2>1. DataTyped' /\ OutsideTyped'
    BY <1>5, StatusesTyped DEF processing_ticket_paid, DataTyped, OutsideTyped
  <2>2. StepsTyped' /\ SeenTyped' /\ TodoTyped'
    BY <1>5 DEF processing_ticket_paid, procVars, StepsTyped, SeenTyped, TodoTyped
  <2>3. HistoryTyped'
    BY <1>5, SpoilsTyped DEF processing_ticket_paid
  <2> QED BY <2>1, <2>2, <2>3
<1> QED BY <1>1, <1>3, <1>4, <1>5

LEMMA JobActionsTyped ==
    ASSUME Typed,
           \/ cancel_old_created_tickets
           \/ \E t \in Tickets : cancel_ticket_and_return_seat_auto(t)
    PROVE  Typed'
<1> USE DEF Typed
<1>0. "job" \in Process /\ "job" \in Lists
  BY DEF Process, Lists
<1>1. CASE cancel_old_created_tickets
  <2>1. TodoTyped'
    BY <1>0, <1>1 DEF cancel_old_created_tickets, TodoTyped
  <2>2. DataTyped' /\ OutsideTyped' /\ StepsTyped' /\ SeenTyped' /\ HistoryTyped'
    BY <1>1 DEF cancel_old_created_tickets, dataVars, outsideVars, DataTyped, OutsideTyped,
                StepsTyped, SeenTyped, HistoryTyped
  <2> QED BY <2>1, <2>2
<1>2. ASSUME NEW t \in Tickets, cancel_ticket_and_return_seat_auto(t) PROVE Typed'
  <2>1. StepsTyped'
    BY <1>0, <1>2, BeginTyped, StatusesTyped
       DEF cancel_ticket_and_return_seat_auto, PlacesInCode
  <2>2. SeenTyped' /\ TodoTyped'
    BY <1>0, <1>2
       DEF cancel_ticket_and_return_seat_auto, Begin, SeenTyped, StepsTyped, TodoTyped
  <2>3. DataTyped' /\ OutsideTyped' /\ HistoryTyped'
    BY <1>2 DEF cancel_ticket_and_return_seat_auto, dataVars, outsideVars, DataTyped,
                OutsideTyped, HistoryTyped
  <2> QED BY <2>1, <2>2, <2>3
<1> QED BY <1>1, <1>2

LEMMA CleanupActionsTyped ==
    ASSUME Typed,
           \/ get_expired_tickets \/ CleanupCommit \/ CleanupFails
           \/ \E t \in Tickets : CleanupRead(t)
    PROVE  Typed'
<1> USE DEF Typed
<1>0. "cleanup" \in Process /\ "cleanup" \in Lists
  BY DEF Process, Lists
<1>1. CASE get_expired_tickets
  <2>1. TodoTyped'
    BY <1>0, <1>1 DEF get_expired_tickets, Expired, TodoTyped
  <2>2. DataTyped' /\ OutsideTyped' /\ StepsTyped' /\ SeenTyped' /\ HistoryTyped'
    BY <1>1 DEF get_expired_tickets, dataVars, outsideVars, DataTyped, OutsideTyped,
                StepsTyped, SeenTyped, HistoryTyped
  <2> QED BY <2>1, <2>2
<1>2. ASSUME NEW t \in Tickets, CleanupRead(t) PROVE Typed'
  <2>1. StepsTyped'
    BY <1>0, <1>2, BeginTyped, StatusesTyped DEF CleanupRead, PlacesInCode
  <2>2. SeenTyped'
    <3>1. get_schedule_event("cleanup")
      BY <1>2 DEF CleanupRead
    <3>2. \A q \in Process \ {"cleanup"} : at'[q] = at[q]
      BY <1>2 DEF CleanupRead, Begin, StepsTyped
    <3> QED BY <1>0, <3>1, <3>2, ReadTyped DEF SeenTyped
  <2>3. TodoTyped'
    BY <1>0, <1>2 DEF CleanupRead, TodoTyped
  <2>4. DataTyped' /\ OutsideTyped' /\ HistoryTyped'
    BY <1>2 DEF CleanupRead, dataVars, outsideVars, DataTyped, OutsideTyped, HistoryTyped
  <2> QED BY <2>1, <2>2, <2>3, <2>4
<1>3. CASE CleanupCommit
  <2>1. /\ seen["cleanup"] \in Counters /\ doing["cleanup"] \in Operations
        /\ ticket["cleanup"] \in Tickets
    BY <1>0, <1>3 DEF CleanupCommit, SeenTyped, StepsTyped
  <2>2. row' \in Counters
    BY <1>0, <1>3, <2>1, WrittenTyped DEF CleanupCommit, DataTyped
  <2>3. StepsTyped' /\ SeenTyped'
    BY <1>0, <1>3, <2>2, FinishTyped DEF CleanupCommit
  <2>4. DataTyped' /\ OutsideTyped' /\ TodoTyped'
    BY <1>3, <2>1, <2>2, StatusesTyped
       DEF CleanupCommit, outsideVars, DataTyped, OutsideTyped, TodoTyped
  <2>5. HistoryTyped'
    BY <1>3, SpoilsTyped, OvertakenBoolean DEF CleanupCommit
  <2> QED BY <2>3, <2>4, <2>5
<1>4. CASE CleanupFails
  <2>1. StepsTyped' /\ SeenTyped' /\ TodoTyped'
    BY <1>4, EndTyped DEF CleanupFails
  <2>2. DataTyped' /\ OutsideTyped'
    BY <1>4 DEF CleanupFails, dataVars, outsideVars, DataTyped, OutsideTyped
  <2>3. HistoryTyped'
    BY <1>4, SessionsAssumption DEF CleanupFails, outsideVars, HistoryTyped
  <2> QED BY <2>1, <2>2, <2>3
<1> QED BY <1>1, <1>2, <1>3, <1>4

LEMMA FormActionsTyped ==
    ASSUME Typed, NEW r \in Requests,
           FormCommit(r) \/ \E t \in WebTickets, n \in 0..1 : post_booking_form(r, t, n)
    PROVE  Typed'
<1> USE DEF Typed
<1>0. r \in Process
  BY DEF Process
<1>1. ASSUME NEW t \in WebTickets, NEW n \in 0..1, post_booking_form(r, t, n) PROVE Typed'
  <2>0. t \in Tickets
    BY DEF Tickets
  <2>1. StepsTyped'
    BY <1>0, <1>1, <2>0, BeginTyped, StatusesTyped DEF post_booking_form, PlacesInCode
  <2>2. SeenTyped'
    BY <1>0, <1>1, RowsAreRows
       DEF post_booking_form, Begin, SeenTyped, StepsTyped, DataTyped
  <2>3. DataTyped' /\ OutsideTyped' /\ TodoTyped' /\ HistoryTyped'
    BY <1>1 DEF post_booking_form, dataVars, outsideVars, DataTyped, OutsideTyped,
                TodoTyped, HistoryTyped
  <2> QED BY <2>1, <2>2, <2>3
<1>2. CASE FormCommit(r)
  <2>1. /\ at[r] = "counters" /\ seen[r] \in Counters /\ doing[r] \in Operations
        /\ ticket[r] \in Tickets
    BY <1>0, <1>2 DEF FormCommit, SeenTyped, StepsTyped
  <2>2. row' \in Counters /\ row' # NoRow
    BY <1>0, <1>2, <2>1, WrittenTyped, RowsAreRows DEF FormCommit, DataTyped
  <2>3. StepsTyped'
    BY <1>0, <1>2, <2>1, GoToTyped DEF FormCommit, PlacesInCode
  <2>4. SeenTyped'
    BY <1>2, <2>2 DEF FormCommit, SeenTyped, GoTo, StepsTyped
  <2>5. DataTyped' /\ OutsideTyped' /\ TodoTyped'
    BY <1>2, <2>1, <2>2, StatusesTyped
       DEF FormCommit, outsideVars, DataTyped, OutsideTyped, TodoTyped
  <2>6. HistoryTyped'
    BY <1>2, SpoilsTyped, OvertakenBoolean DEF FormCommit
  <2> QED BY <2>3, <2>4, <2>5, <2>6
<1> QED BY <1>1, <1>2

LEMMA WorldActionsTyped ==
    ASSUME Typed, BotCrash \/ WebCrash \/ \E t \in Tickets : Tick(t)
    PROVE  Typed'
<1> USE DEF Typed
<1>1. ASSUME NEW t \in Tickets, Tick(t) PROVE Typed'
  <2>1. age' \in [Tickets -> 0..2]
    BY <1>1 DEF Tick, DataTyped
  <2>2. /\ DataTyped' /\ OutsideTyped' /\ StepsTyped' /\ SeenTyped' /\ TodoTyped'
        /\ HistoryTyped'
    BY <1>1, <2>1 DEF Tick, outsideVars, procVars, DataTyped, OutsideTyped, StepsTyped,
                SeenTyped, TodoTyped, HistoryTyped
  <2> QED BY <2>2
<1>2. ASSUME NEW P, Crash(P)
      PROVE  Typed'
  <2>1. StepsTyped' /\ SeenTyped' /\ TodoTyped'
    BY <1>2, EndTyped DEF Crash
  <2>2. DataTyped' /\ OutsideTyped'
    BY <1>2 DEF Crash, dataVars, outsideVars, DataTyped, OutsideTyped
  <2>3. faults' \in 0..MaxFaults /\ unasked' \subseteq WebTickets
    BY <1>2, SessionsAssumption DEF Crash, HistoryTyped
  <2>4. spoilt' \in BOOLEAN
    BY <1>2 DEF Crash, Spoils, HistoryTyped
  <2> QED BY <2>1, <2>2, <2>3, <2>4 DEF HistoryTyped
<1> QED BY <1>1, <1>2 DEF BotCrash, WebCrash
-----------------------------------------------------------------------------
LEMMA NextTyped == TypeOK /\ [Next]_vars => TypeOK'
<1>a. TypeOK <=> Typed
  BY TypeOKParts DEF Typed
<1>b. TypeOK' <=> Typed'
  BY DEF TypeOK, Typed, DataTyped, OutsideTyped, PlacesInCode, StepsTyped, SeenTyped,
         TodoTyped, HistoryTyped, Counters
<1>0. SUFFICES ASSUME Typed, [Next]_vars PROVE Typed'
  BY <1>a, <1>b
<1>1. CASE \E p \in Process :
             ReadRow(p) \/ CommitCounters(p) \/ CommitStatus(p) \/ CreatePayment(p)
  BY <1>0, <1>1, StepActionsTyped
<1>2. CASE \/ \E t \in BotTickets : confirm_go_pay(t) \/ cancel_ticket_and_return_seat(t)
           \/ create_tickets
           \/ \E t \in Tickets :
                confirm_reserve(t) \/ reject_reserve(t) \/ processing_ticket_paid(t)
  BY <1>0, <1>2, BotActionsTyped DEF Tickets
<1>3. CASE \/ cancel_old_created_tickets
           \/ \E t \in Tickets : cancel_ticket_and_return_seat_auto(t)
  BY <1>0, <1>3, JobActionsTyped
<1>4. CASE CleanupStep \/ CleanupFails
  BY <1>0, <1>4, CleanupActionsTyped DEF CleanupStep
<1>5. CASE \/ \E r \in Requests, t \in WebTickets, n \in 0..1 : post_booking_form(r, t, n)
           \/ \E r \in Requests : FormCommit(r)
  BY <1>0, <1>5, FormActionsTyped
<1>6. CASE BotCrash \/ WebCrash \/ \E t \in Tickets : Tick(t)
  BY <1>0, <1>6, WorldActionsTyped
<1>7. CASE UNCHANGED vars
  BY <1>0, <1>7 DEF vars, dataVars, outsideVars, procVars, Typed, DataTyped, OutsideTyped,
                    StepsTyped, SeenTyped, TodoTyped, HistoryTyped
<1> QED BY <1>0, <1>1, <1>2, <1>3, <1>4, <1>5, <1>6, <1>7 DEF Next

(***************************************************************************)
(* The type invariant of Sessions for every number of tickets, forms and   *)
(* seats.  Its last two conjuncts are what the steps rely on: a process    *)
(* that is not idle has a ticket, and one that is about to write the       *)
(* counters has read them, through every commit, rollback and crash.       *)
(***************************************************************************)
THEOREM SessionsTyped == Spec => []TypeOK
BY InitTyped, NextTyped, PTL DEF Spec
-----------------------------------------------------------------------------
(* What the sessions keep in order as long as nothing is spoilt.  Typing   *)
(* alone does not tell that a step moves the seats of the ledger: it takes *)
(* that a ticket being booked is in no other hands, and that at most one   *)
(* process has moved the seats of a ticket and not yet its status.         *)

\* Who does what, and where.
Shape == \A p \in Process :
    /\ p \in Lists /\ at[p] # "idle" => doing[p] = "cancel"
    /\ p \in Requests /\ at[p] # "idle" => doing[p] = "book"
    /\ at[p] = "create" => p = "bot" /\ doing[p] = "book"
    /\ at[p] \in {"read", "status"} => p \in {"bot", "job"} /\ doing[p] # "book"
    /\ at[p] = "pay" => doing[p] = "book"

\* Somebody can come back to the ticket.
Circulates(t) == t \in payable \cup asked \/ \E l \in Lists : t \in todo[l]

\* The ticket is not in the database yet.
Unwritten(p) == at[p] = "create" \/ (at[p] = "counters" /\ p # "bot")

\* A ticket that is being booked belongs to the process that books it.
Owned == \A p \in Process : at[p] # "idle" /\ doing[p] = "book" =>
    /\ age[ticket[p]] = 0 /\ ~Circulates(ticket[p])
    /\ Unwritten(p) => status[ticket[p]] = "ABSENT"
    /\ ~Unwritten(p) => status[ticket[p]] = "CREATED"
    /\ \A q \in Process \ {p} : at[q] # "idle" => ticket[q] # ticket[p]

\* A ticket that does not exist is in nobody's hands but a booking's.
Fresh == \A t \in Tickets : status[t] = "ABSENT" =>
    /\ age[t] = 0 /\ ~Circulates(t)
    /\ \A p \in Process : at[p] # "idle" /\ ticket[p] = t => doing[p] = "book"

\* The seats of a ticket are moved once.
Settled == \A p, q \in Process :
    at[p] = "status" /\ at[q] = "status" /\ ticket[p] = ticket[q] => p = q

Orderly == Shape /\ Owned /\ Fresh /\ Settled

LEMMA Names ==
    /\ "bot" \in Process /\ "job" \in Process /\ "cleanup" \in Process
    /\ "job" \in Lists /\ "cleanup" \in Lists /\ "bot" \notin Lists
    /\ Requests \subseteq Process /\ Requests \cap Lists = {} /\ "bot" \notin Requests
    /\ Process = {"bot"} \cup Lists \cup Requests
BY SessionsAssumption DEF Process, Lists

\* Where a ticket stands, in the four cases there are.
LEMMA Stands ==
    ASSUME Typed, Orderly, NEW t \in Tickets
    PROVE  /\ \A p \in Process : Settling(p, t) => Stand(t) = Place(Outcome[doing[p]])
           /\ (\A p \in Process : ~Settling(p, t)) /\ Unseated(t) => Stand(t) = "none"
           /\ (\A p \in Process : ~Settling(p, t)) /\ ~Unseated(t)
                => Stand(t) = Place(status[t])
           /\ Stand(t) = "held"
                => /\ \A p \in Process : ~Settling(p, t)
                   /\ ~Unseated(t) /\ status[t] \in {"CREATED", "PAID"}
<1>1. ASSUME NEW p \in Process, Settling(p, t)
      PROVE  /\ Stand(t) = Place(Outcome[doing[p]])
             /\ Stand(t) # "held"
  <2>1. p = CHOOSE q \in Process : Settling(q, t)
    BY <1>1 DEF Orderly, Settled, Settling
  <2>2. Stand(t) = Place(Outcome[doing[p]])
    BY <1>1, <2>1 DEF Stand
  <2>3. doing[p] \in {"cancel", "confirm", "reject"}
    BY <1>1 DEF Settling, Orderly, Shape, Typed, StepsTyped, Operations
  <2> QED BY <2>2, <2>3 DEF Place, Outcome
<1>2. (\A p \in Process : ~Settling(p, t)) /\ Unseated(t) => Stand(t) = "none"
  BY DEF Stand
<1>3. (\A p \in Process : ~Settling(p, t)) /\ ~Unseated(t) => Stand(t) = Place(status[t])
  BY DEF Stand
<1>4. Place(status[t]) = "held" => status[t] \in {"CREATED", "PAID"}
  BY DEF Place
<1> QED BY <1>1, <1>2, <1>3, <1>4

-----------------------------------------------------------------------------
(* The order is kept.                                                      *)

\* A process takes up a ticket that exists and is not being booked.
LEMMA OrderlyWhenTakenUp ==
    ASSUME Typed, Orderly, NEW p \in Process, NEW op \in Operations \ {"book"},
           NEW t \in Tickets, NEW where \in {"read", "counters"},
           Begin(p, op, t, where), Circulates(t),
           p \notin Requests, p \in Lists => op = "cancel",
           where = "read" => p \in {"bot", "job"},
           UNCHANGED <<status, age, payable, asked>>,
           \A x : Circulates(x)' => Circulates(x)
    PROVE  Orderly'
<1> USE DEF Typed, StepsTyped, Begin, Orderly
<1>1. Shape'
  BY Names DEF Shape
<1>2. Owned'
  BY DEF Owned, Unwritten
<1>3. Fresh'
  BY DEF Fresh
<1>4. Settled'
  BY DEF Settled
<1> QED BY <1>1, <1>2, <1>3, <1>4

\* A process books a new ticket.
LEMMA OrderlyWhenBooked ==
    ASSUME Typed, Orderly, NEW p \in Process, NEW t \in Tickets,
           NEW where \in {"create", "counters"},
           Begin(p, "book", t, where), Untouched(t),
           p \notin Lists, where = "create" <=> p = "bot",
           UNCHANGED <<status, age, payable, asked, todo>>
    PROVE  Orderly'
<1> USE DEF Typed, StepsTyped, Begin, Orderly
<1>0. \A x : Circulates(x)' <=> Circulates(x)
  BY DEF Circulates
<1>1. Shape'
  BY Names DEF Shape
<1>2. Owned'
  BY <1>0 DEF Owned, Unwritten, Untouched, Fresh
<1>3. Fresh'
  BY <1>0 DEF Fresh
<1>4. Settled'
  BY DEF Settled
<1> QED BY <1>1, <1>2, <1>3, <1>4

LEMMA OrderlyReadRow ==
    ASSUME Typed, Orderly, NEW p \in Process, ReadRow(p)
    PROVE  Orderly'
<1> USE DEF Typed, StepsTyped, ReadRow, GoTo, Orderly, dataVars, outsideVars
<1>0. \A x : Circulates(x)' <=> Circulates(x)
  BY DEF Circulates
<1>1. Shape'
  BY Names DEF Shape
<1>2. Owned'
  BY <1>0 DEF Owned, Unwritten, Shape
<1>3. Fresh'
  BY <1>0 DEF Fresh
<1>4. Settled'
  BY DEF Settled
<1> QED BY <1>1, <1>2, <1>3, <1>4

LEMMA OrderlyCommitCounters ==
    ASSUME Typed, Orderly, NEW p \in Process, CommitCounters(p), ~spoilt'
    PROVE  Orderly'
<1> USE DEF Typed, StepsTyped, CommitCounters, GoTo, Orderly, outsideVars
<1>0. \A x : Circulates(x)' <=> Circulates(x)
  BY DEF Circulates
<1>1. Shape'
  BY Names DEF Shape
<1>2. Owned'
  <2>1. doing[p] = "book" => p = "bot"
    BY Names DEF Shape
  <2>2. \A q \in Process : at[q] # "idle" /\ q # p => Unwritten(q)' = Unwritten(q)
    BY DEF Unwritten
  <2> QED BY <1>0, <2>1, <2>2 DEF Owned, Unwritten
<1>3. Fresh'
  BY <1>0 DEF Fresh
<1>4. Settled'
  <2>1. doing[p] # "book" => Stand(ticket[p]) = "held"
    BY DEF Spoils, Overtaken
  <2>2. doing[p] # "book" => \A q \in Process : ~Settling(q, ticket[p])
    BY <2>1, Stands
  <2> QED BY <2>2 DEF Settled, Settling
<1> QED BY <1>1, <1>2, <1>3, <1>4

LEMMA OrderlyCommitStatus ==
    ASSUME Typed, Orderly, NEW p \in Process, CommitStatus(p)
    PROVE  Orderly'
<1> USE DEF Typed, StepsTyped, CommitStatus, Finish, Orderly
<1>0. \A x : Circulates(x)' => Circulates(x)
  BY DEF Circulates
<1>a. doing[p] # "book" /\ Outcome[doing[p]] # "ABSENT"
  BY DEF Shape, Outcome, Operations
<1>1. Shape'
  BY Names DEF Shape
<1>2. Owned'
  BY <1>0, <1>a DEF Owned, Unwritten, DataTyped
<1>3. Fresh'
  BY <1>0, <1>a DEF Fresh, DataTyped
<1>4. Settled'
  BY DEF Settled
<1> QED BY <1>1, <1>2, <1>3, <1>4

LEMMA OrderlyCreatePayment ==
    ASSUME Typed, Orderly, NEW p \in Process, CreatePayment(p)
    PROVE  Orderly'
<1> USE DEF Typed, StepsTyped, CreatePayment, Finish, Orderly, dataVars
<1>0. \A x : x # ticket[p] => (Circulates(x)' => Circulates(x))
  BY DEF Circulates
<1>a. /\ doing[p] = "book" /\ status[ticket[p]] = "CREATED"
      /\ \A q \in Process \ {p} : at[q] # "idle" => ticket[q] # ticket[p]
  BY DEF Shape, Owned, Unwritten
<1>1. Shape'
  BY Names DEF Shape
<1>2. Owned'
  BY <1>0, <1>a DEF Owned, Unwritten
<1>3. Fresh'
  BY <1>0, <1>a DEF Fresh
<1>4. Settled'
  BY DEF Settled
<1> QED BY <1>1, <1>2, <1>3, <1>4

LEMMA OrderlyCreateTickets ==
    ASSUME Typed, Orderly, create_tickets
    PROVE  Orderly'
<1> USE Names DEF Typed, StepsTyped, create_tickets, GoTo, Orderly, outsideVars
<1>0. \A x : Circulates(x)' <=> Circulates(x)
  BY DEF Circulates
<1>a. doing["bot"] = "book" /\ status[ticket["bot"]] = "ABSENT"
  BY DEF Shape, Owned, Unwritten
<1>1. Shape'
  BY DEF Shape
<1>2. Owned'
  BY <1>0, <1>a DEF Owned, Unwritten, DataTyped
<1>3. Fresh'
  BY <1>0, <1>a DEF Fresh, DataTyped
<1>4. Settled'
  BY DEF Settled
<1> QED BY <1>1, <1>2, <1>3, <1>4

LEMMA OrderlyPaid ==
    ASSUME Typed, Orderly, NEW t \in Tickets, processing_ticket_paid(t)
    PROVE  Orderly'
<1> USE DEF Typed, StepsTyped, processing_ticket_paid, procVars, Orderly
<1>0. \A x : x # t => (Circulates(x)' => Circulates(x))
  BY DEF Circulates
<1>a. Circulates(t)
  BY DEF Circulates
<1>1. Shape'
  BY DEF Shape
<1>2. Owned'
  BY <1>0, <1>a DEF Owned, Unwritten, DataTyped
<1>3. Fresh'
  BY <1>0, <1>a DEF Fresh, DataTyped
<1>4. Settled'
  BY DEF Settled
<1> QED BY <1>1, <1>2, <1>3, <1>4

\* The lists hold tickets that have been there for a while.
LEMMA OrderlyListed ==
    ASSUME Typed, Orderly, cancel_old_created_tickets \/ get_expired_tickets
    PROVE  Orderly'
<1> USE DEF Typed, StepsTyped, Orderly, dataVars, outsideVars
<1>a. /\ UNCHANGED <<status, age, payable, asked, at, doing, ticket>>
  BY DEF cancel_old_created_tickets, get_expired_tickets
<1>0. \A x \in Tickets : Circulates(x)' =>
        Circulates(x) \/ (status[x] = "CREATED" /\ age[x] # 0)
  BY <1>a, Names DEF cancel_old_created_tickets, get_expired_tickets, Expired, Circulates,
     TodoTyped
<1>1. Shape' /\ Settled'
  BY <1>a DEF Shape, Settled
<1>2. Owned'
  BY <1>0, <1>a DEF Owned, Unwritten
<1>3. Fresh'
  BY <1>0, <1>a DEF Fresh
<1> QED BY <1>1, <1>2, <1>3

LEMMA OrderlyCleanupCommit ==
    ASSUME Typed, Orderly, CleanupCommit
    PROVE  Orderly'
<1> USE Names DEF Typed, StepsTyped, CleanupCommit, Finish, Orderly, outsideVars
<1>0. \A x : Circulates(x)' <=> Circulates(x)
  BY DEF Circulates
<1>a. doing["cleanup"] = "cancel"
  BY DEF Shape
<1>1. Shape'
  BY DEF Shape
<1>2. Owned'
  BY <1>0, <1>a DEF Owned, Unwritten, DataTyped
<1>3. Fresh'
  BY <1>0, <1>a DEF Fresh, DataTyped
<1>4. Settled'
  BY DEF Settled
<1> QED BY <1>1, <1>2, <1>3, <1>4

LEMMA OrderlyFormCommit ==
    ASSUME Typed, Orderly, NEW r \in Requests, FormCommit(r)
    PROVE  Orderly'
<1> USE Names DEF Typed, StepsTyped, FormCommit, GoTo, Orderly, outsideVars
<1>0. \A x : Circulates(x)' <=> Circulates(x)
  BY DEF Circulates
<1>a. r \in Process /\ r # "bot" /\ r \notin Lists /\ doing[r] = "book"
  BY DEF Shape
<1>1. Shape'
  BY <1>a DEF Shape
<1>2. Owned'
  BY <1>0, <1>a DEF Owned, Unwritten, DataTyped
<1>3. Fresh'
  BY <1>0, <1>a DEF Fresh, DataTyped
<1>4. Settled'
  BY <1>a DEF Settled
<1> QED BY <1>1, <1>2, <1>3, <1>4

LEMMA OrderlyTick ==
    ASSUME Typed, Orderly, NEW t \in Tickets, Tick(t)
    PROVE  Orderly'
<1> USE DEF Typed, StepsTyped, Tick, Orderly, outsideVars, procVars
<1>0. \A x : Circulates(x)' <=> Circulates(x)
  BY DEF Circulates
<1>1. Shape' /\ Settled'
  BY DEF Shape, Settled
<1>2. Owned'
  BY <1>0 DEF Owned, Unwritten, DataTyped
<1>3. Fresh'
  BY <1>0 DEF Fresh, DataTyped
<1> QED BY <1>1, <1>2, <1>3

\* A process that ends leaves its ticket as it is.
LEMMA OrderlyEnd ==
    ASSUME Typed, Orderly, NEW P, EndProcesses(P),
           UNCHANGED <<status, age, payable, asked>>
    PROVE  Orderly'
<1> USE DEF Typed, StepsTyped, EndProcesses, Orderly
<1>0. \A x : Circulates(x)' => Circulates(x)
  BY DEF Circulates
<1>1. Shape'
  BY DEF Shape
<1>2. Owned'
  BY <1>0 DEF Owned, Unwritten
<1>3. Fresh'
  BY <1>0 DEF Fresh
<1>4. Settled'
  BY DEF Settled
<1> QED BY <1>1, <1>2, <1>3, <1>4

Kept == spoilt \/ Orderly

LEMMA OrderlyStep ==
    ASSUME Typed, Kept, [Next]_vars
    PROVE  Kept'
<1>1. SUFFICES ASSUME ~spoilt' PROVE Orderly'
  BY DEF Kept
<1>2. ~spoilt
  BY <1>1 DEF Next, vars, dataVars, outsideVars, procVars, ReadRow, CommitCounters,
     CommitStatus, CreatePayment, confirm_go_pay, cancel_ticket_and_return_seat, Handle,
     create_tickets, confirm_reserve, reject_reserve, processing_ticket_paid, Spoils,
     cancel_ticket_and_return_seat_auto, Tick, cancel_old_created_tickets, CleanupStep,
     get_expired_tickets, CleanupRead, CleanupCommit, CleanupFails, post_booking_form,
     FormCommit, BotCrash, WebCrash, Crash
<1>3. Orderly
  BY <1>2 DEF Kept
<1>4. ASSUME NEW p \in Process,
             ReadRow(p) \/ CommitCounters(p) \/ CommitStatus(p) \/ CreatePayment(p)
      PROVE  Orderly'
  BY <1>1, <1>3, <1>4, OrderlyReadRow, OrderlyCommitCounters, OrderlyCommitStatus,
     OrderlyCreatePayment
<1>5. ASSUME NEW t \in Tickets, confirm_go_pay(t)
      PROVE  Orderly'
  BY <1>3, <1>5, OrderlyWhenBooked, Names DEF confirm_go_pay, dataVars, outsideVars
<1>6. ASSUME NEW t \in Tickets,
             \/ cancel_ticket_and_return_seat(t) \/ confirm_reserve(t) \/ reject_reserve(t)
      PROVE  Orderly'
  <2>1. Circulates(t) /\ UNCHANGED <<status, age, payable, asked, todo>>
    BY <1>6 DEF Circulates, cancel_ticket_and_return_seat, confirm_reserve, reject_reserve,
       Handle, dataVars, outsideVars
  <2>2. \A x : Circulates(x)' => Circulates(x)
    BY <2>1 DEF Circulates
  <2>3. PICK op \in Operations \ {"book"} : Begin("bot", op, t, "read")
    BY <1>6 DEF cancel_ticket_and_return_seat, confirm_reserve, reject_reserve, Handle,
       Operations
  <2> QED BY <1>3, <2>1, <2>2, <2>3, OrderlyWhenTakenUp, Names
<1>7. CASE create_tickets
  BY <1>3, <1>7, OrderlyCreateTickets
<1>8. ASSUME NEW t \in Tickets, processing_ticket_paid(t) \/ Tick(t)
      PROVE  Orderly'
  BY <1>3, <1>8, OrderlyPaid, OrderlyTick
<1>9. ASSUME NEW t \in Tickets, cancel_ticket_and_return_seat_auto(t) \/ CleanupRead(t)
      PROVE  Orderly'
  <2>1. PICK p \in Lists : /\ t \in todo[p] /\ todo' = [todo EXCEPT ![p] = @ \ {t}]
                           /\ Begin(p, "cancel", t,
                                    IF p = "job" THEN "read" ELSE "counters")
    BY <1>9, Names DEF cancel_ticket_and_return_seat_auto, CleanupRead
  <2>2. UNCHANGED <<status, age, payable, asked>>
    BY <1>9 DEF cancel_ticket_and_return_seat_auto, CleanupRead, dataVars, outsideVars
  <2>3. Circulates(t) /\ \A x : Circulates(x)' => Circulates(x)
    BY <2>1, <2>2 DEF Circulates, Typed, TodoTyped
  <2>4. p \in Process /\ p \notin Requests /\ p \in {"job", "cleanup"}
    BY Names DEF Lists
  <2>5. "cancel" \in Operations \ {"book"}
    BY DEF Operations
  <2> QED BY <1>3, <2>1, <2>2, <2>3, <2>4, <2>5, OrderlyWhenTakenUp
<1>10. CASE cancel_old_created_tickets \/ get_expired_tickets
  BY <1>3, <1>10, OrderlyListed
<1>11. CASE CleanupCommit
  BY <1>3, <1>11, OrderlyCleanupCommit
<1>12. CASE CleanupFails \/ BotCrash \/ WebCrash
  BY <1>3, <1>12, OrderlyEnd DEF CleanupFails, BotCrash, WebCrash, Crash, dataVars,
     outsideVars
<1>13. ASSUME NEW r \in Requests, NEW t \in Tickets, NEW n \in 0..1,
              post_booking_form(r, t, n)
       PROVE  Orderly'
  BY <1>3, <1>13, OrderlyWhenBooked, Names DEF post_booking_form, dataVars, outsideVars
<1>14. ASSUME NEW r \in Requests, FormCommit(r)
       PROVE  Orderly'
  BY <1>3, <1>14, OrderlyFormCommit
<1>15. CASE UNCHANGED vars
  BY <1>3, <1>15 DEF vars, dataVars, outsideVars, procVars, Orderly, Shape, Owned, Fresh,
     Settled, Unwritten, Circulates
<1> QED BY <1>4, <1>5, <1>6, <1>7, <1>8, <1>9, <1>10, <1>11, <1>12, <1>13, <1>14, <1>15
        DEF Next, CleanupStep, Tickets

LEMMA InitOrderly == Init => Kept
BY DEF Init, Kept, Orderly, Shape, Owned, Fresh, Settled, Circulates

\* One invariant for everything: types always, order until something spoils it.
LEMMA SessionsOrderly == Spec => [](Typed /\ Kept)
<1>1. TypeOK <=> Typed
  BY TypeOKParts DEF Typed
<1>2. Typed /\ Kept /\ [Next]_vars => Kept'
  BY OrderlyStep
<1> QED BY <1>1, <1>2, InitOrderly, SessionsTyped, PTL DEF Spec
-----------------------------------------------------------------------------
(* The ledger.  First what a step does to where the tickets stand.         *)

\* Stands for every ticket, in a form that holds after a step too.
StandsClear == \A t \in Tickets :
    /\ \A p \in Process : Settling(p, t) => Stand(t) = Place(Outcome[doing[p]])
    /\ (\A p \in Process : ~Settling(p, t)) /\ Unseated(t) => Stand(t) = "none"
    /\ (\A p \in Process : ~Settling(p, t)) /\ ~Unseated(t) => Stand(t) = Place(status[t])
    /\ Stand(t) = "held" => /\ \A p \in Process : ~Settling(p, t)
                            /\ ~Unseated(t) /\ status[t] \in {"CREATED", "PAID"}

LEMMA StandsAreClear == Typed /\ Orderly => StandsClear
BY Stands DEF StandsClear

\* A step between two orderly states.
InOrder == /\ Typed /\ Typed' /\ Orderly /\ StandsClear /\ StandsClear'
           /\ ~spoilt /\ ~spoilt'

\* A ticket stands where it stood when the same processes are half done
\* with it and its status is of the same kind.
LEMMA SameStand ==
    ASSUME InOrder, NEW t \in Tickets,
           \A p \in Process : Settling(p, t)' <=> Settling(p, t),
           \A p \in Process : Settling(p, t) => doing'[p] = doing[p],
           Unseated(t)' <=> Unseated(t), Place(status'[t]) = Place(status[t])
    PROVE  Stand(t)' = Stand(t)
BY DEF InOrder, StandsClear

OnlyStands(t) == \A x \in Tickets \ {t} : Stand(x)' = Stand(x)
AllStand == \A x \in Tickets : Stand(x)' = Stand(x)

\* The counters after a step that moves the seats of one ticket.
Moved(op) == /\ row'.free = row.free + Delta[op].free
             /\ row'.nonconfirm = row.nonconfirm + Delta[op].nonconfirm

LEMMA WrittenMoves ==
    ASSUME Typed, NEW p \in Process, row' = update_schedule_event(p), ~Overtaken(p)
    PROVE  Moved(doing[p])
<1>1. doing[p] \in Operations
  BY DEF Typed, StepsTyped
<1>2. \A c \in Columns : row'[c] = row[c] + Delta[doing[p]][c]
  BY <1>1, RowsAreRows DEF update_schedule_event, Overtaken, Typed, DataTyped, Counters,
     Columns
<1> QED BY <1>2 DEF Moved, Columns

\* The mapping, while nothing is spoilt.
AmountsOf(s) == [t \in Tickets |-> OfSeats(IF s[t] = "none" THEN 0 ELSE 1)]
Stands0 == [t \in Tickets |-> Stand(t)]

LEMMA MappingInOrder ==
    ASSUME InOrder
    PROVE  /\ standOf = Stands0 /\ standOf' = Stands0'
           /\ (IF spoilt THEN 0 ELSE row.free) = row.free
           /\ (IF spoilt THEN 0 ELSE row.free)' = row'.free
           /\ (IF spoilt THEN 0 ELSE row.nonconfirm) = row.nonconfirm
           /\ (IF spoilt THEN 0 ELSE row.nonconfirm)' = row'.nonconfirm
           /\ spoilt' = spoilt /\ ~spoilt
<1>1. ~spoilt /\ ~spoilt'
  BY DEF InOrder
<1>2. spoilt' = spoilt
  BY <1>1 DEF InOrder, Typed, HistoryTyped
<1>3. standOf = Stands0 /\ standOf' = Stands0'
  BY <1>1 DEF standOf, Stands0
<1> QED BY <1>1, <1>2, <1>3

SeatsOf(s) == OfSeats(IF s = "none" THEN 0 ELSE 1)

Implemented == [Ledger!Next]_Ledger!vars

\* A step that moves no seats is nothing to the ledger.
LEMMA NothingMoves ==
    ASSUME InOrder, AllStand, UNCHANGED row
    PROVE  Implemented
<1>1. Stands0' = Stands0
  BY DEF AllStand, Stands0
<1>2. standOf' = standOf /\ spoilt' = spoilt
  BY <1>1, MappingInOrder
<1> QED BY <1>2 DEF Implemented, Ledger!vars, OfSeats

\* The ledger's seats after a step that moves one ticket.
LEMMA OneMoves ==
    ASSUME InOrder, NEW t \in Tickets, OnlyStands(t)
    PROVE  /\ standOf[t] = Stand(t) /\ standOf'[t] = Stand(t)'
           /\ standOf' = [standOf EXCEPT ![t] = Stand(t)']
           /\ [x \in Tickets |-> OfSeats(IF standOf[x] = "none" THEN 0 ELSE 1)]'
                = [[x \in Tickets |-> OfSeats(IF standOf[x] = "none" THEN 0 ELSE 1)]
                     EXCEPT ![t] = SeatsOf(Stand(t)')]
<1>1. standOf = Stands0 /\ standOf' = Stands0'
  BY MappingInOrder
<1>2. \A x \in Tickets : standOf[x] = Stand(x) /\ standOf'[x] = Stand(x)'
  BY <1>1 DEF Stands0
<1>3. \A x \in Tickets \ {t} : standOf'[x] = standOf[x]
  BY <1>2 DEF OnlyStands
<1>4. standOf' = [standOf EXCEPT ![t] = Stand(t)']
  BY <1>1, <1>2, <1>3 DEF Stands0
<1> QED BY <1>2, <1>3, <1>4 DEF SeatsOf, OfSeats

\* A step that moves one ticket as an operation does is that operation.
LEMMA SeesHold ==
    ASSUME InOrder, NEW t \in Tickets, OnlyStands(t),
           Stand(t) = "none", Stand(t)' = "held", Moved("book")
    PROVE  Implemented
<1>1. SeatsOf("held") \in Ledger!Amounts
  BY DEF SeatsOf, OfSeats, Ledger!Amounts
<1>2. row'.free = row.free - 1 /\ row'.nonconfirm = row.nonconfirm + 1
  BY DEF Moved, Delta, Operations, InOrder, Typed, DataTyped, Counters, Columns
<1>3. /\ OfSeats(row'.free) = Ledger!Less(OfSeats(row.free), SeatsOf("held"))
      /\ OfSeats(row'.nonconfirm) = Ledger!More(OfSeats(row.nonconfirm), SeatsOf("held"))
  BY <1>2 DEF OfSeats, SeatsOf, Ledger!Less, Ledger!More
<1>4. Ledger!Hold(t, SeatsOf("held"))
  BY <1>3, OneMoves, MappingInOrder DEF Ledger!Hold
<1> QED BY <1>1, <1>4 DEF Implemented, Ledger!Next

LEMMA SeesSell ==
    ASSUME InOrder, NEW t \in Tickets, OnlyStands(t),
           Stand(t) = "held", Stand(t)' = "sold", Moved("confirm")
    PROVE  Implemented
<1>1. row'.free = row.free /\ row'.nonconfirm = row.nonconfirm - 1
  BY DEF Moved, Delta, Operations, InOrder, Typed, DataTyped, Counters, Columns
<1>2. OfSeats(row'.nonconfirm) = Ledger!Less(OfSeats(row.nonconfirm), SeatsOf("held"))
  BY <1>1 DEF OfSeats, SeatsOf, Ledger!Less
<1>3. SeatsOf("sold") = SeatsOf("held")
  BY DEF SeatsOf
<1>4. Ledger!Sell(t)
  BY <1>1, <1>2, <1>3, OneMoves, MappingInOrder DEF Ledger!Sell, SeatsOf
<1> QED BY <1>4 DEF Implemented, Ledger!Next

LEMMA SeesRelease ==
    ASSUME InOrder, NEW t \in Tickets, OnlyStands(t),
           Stand(t) = "held", Stand(t)' = "none", Moved("cancel")
    PROVE  Implemented
<1>1. row'.free = row.free + 1 /\ row'.nonconfirm = row.nonconfirm - 1
  BY DEF Moved, Delta, Operations, InOrder, Typed, DataTyped, Counters, Columns
<1>2. /\ OfSeats(row'.free) = Ledger!More(OfSeats(row.free), SeatsOf("held"))
      /\ OfSeats(row'.nonconfirm) = Ledger!Less(OfSeats(row.nonconfirm), SeatsOf("held"))
  BY <1>1 DEF OfSeats, SeatsOf, Ledger!Less, Ledger!More
<1>3. SeatsOf("none") = Ledger!Nothing
  BY DEF SeatsOf, OfSeats, Ledger!Nothing
<1>4. Ledger!Release(t)
  BY <1>2, <1>3, OneMoves, MappingInOrder DEF Ledger!Release, SeatsOf
<1> QED BY <1>4 DEF Implemented, Ledger!Next

\* What a step can do to the seats: nothing, or an operation on one ticket.
Rests == AllStand /\ UNCHANGED row
Holds(t) ==
    OnlyStands(t) /\ Stand(t) = "none" /\ Stand(t)' = "held" /\ Moved("book")
Sells(t) ==
    OnlyStands(t) /\ Stand(t) = "held" /\ Stand(t)' = "sold" /\ Moved("confirm")
Releases(t) ==
    OnlyStands(t) /\ Stand(t) = "held" /\ Stand(t)' = "none" /\ Moved("cancel")
Moves == Rests \/ \E t \in Tickets : Holds(t) \/ Sells(t) \/ Releases(t)

LEMMA MovesImplemented ==
    ASSUME InOrder, Moves
    PROVE  Implemented
<1>1. CASE Rests
  BY <1>1, NothingMoves DEF Rests
<1>2. ASSUME NEW t \in Tickets, Holds(t)
      PROVE  Implemented
  BY <1>2, SeesHold DEF Holds
<1>3. ASSUME NEW t \in Tickets, Sells(t)
      PROVE  Implemented
  BY <1>3, SeesSell DEF Sells
<1>4. ASSUME NEW t \in Tickets, Releases(t)
      PROVE  Implemented
  BY <1>4, SeesRelease DEF Releases
<1> QED BY <1>1, <1>2, <1>3, <1>4 DEF Moves
-----------------------------------------------------------------------------
(* Then what each step is.                                                 *)

LEMMA PlacesOf ==
    /\ Place("ABSENT") = "none" /\ Place("CREATED") = "held" /\ Place("PAID") = "held"
    /\ Place("APPROVED") = "sold" /\ Place("REJECTED") = "none"
    /\ Place("CANCELED") = "none"
    /\ Outcome["book"] = "CREATED" /\ Outcome["cancel"] = "CANCELED"
    /\ Outcome["confirm"] = "APPROVED" /\ Outcome["reject"] = "REJECTED"
BY DEF Place, Outcome

\* Processes that stay out of the half-done places leave the tickets alone.
LEMMA NobodyHalfDone ==
    ASSUME InOrder, NEW P,
           \A p \in Process \ P : at'[p] = at[p] /\ ticket'[p] = ticket[p]
                                  /\ doing'[p] = doing[p],
           \A p \in P \cap Process : ~HalfDone(p) /\ ~HalfDone(p)',
           UNCHANGED <<status, row>>
    PROVE  Rests
<1>1. ASSUME NEW t \in Tickets
      PROVE  Stand(t)' = Stand(t)
  <2>1. \A p \in Process : Settling(p, t)' <=> Settling(p, t)
    BY DEF Settling, HalfDone
  <2>2. \A p \in Process : Settling(p, t) => doing'[p] = doing[p]
    BY DEF Settling, HalfDone
  <2>3. Unseated(t)' <=> Unseated(t)
    BY Names DEF Unseated, HalfDone
  <2> QED BY <2>1, <2>2, <2>3, SameStand
<1> QED BY <1>1 DEF Rests, AllStand

LEMMA CommitCountersMove ==
    ASSUME InOrder, NEW p \in Process, NEW t \in Tickets, ticket[p] = t, CommitCounters(p)
    PROVE  IF doing[p] = "book" THEN Holds(t) ELSE Sells(t) \/ Releases(t)
<1>1. doing[p] \in Operations /\ ~Overtaken(p)
  BY DEF CommitCounters, InOrder, Typed, StepsTyped, Spoils
<1>2. Moved(doing[p])
  BY <1>1, WrittenMoves DEF CommitCounters, InOrder
<1>3. OnlyStands(t)
  <2> SUFFICES ASSUME NEW x \in Tickets \ {t} PROVE Stand(x)' = Stand(x)
    BY DEF OnlyStands
  <2>1. /\ \A q \in Process : Settling(q, x)' <=> Settling(q, x)
        /\ \A q \in Process : Settling(q, x) => doing'[q] = doing[q]
        /\ Unseated(x)' <=> Unseated(x)
    BY DEF CommitCounters, GoTo, Settling, Unseated, InOrder, Typed, StepsTyped
  <2> QED BY <2>1, SameStand DEF CommitCounters
<1>4. CASE doing[p] = "book"
  <2>1. p = "bot"
    BY <1>4, Names DEF CommitCounters, InOrder, Orderly, Shape
  <2>2. Stand(t) = "none"
    BY <1>1, <1>4 DEF Overtaken
  <2>3. status[t] = "CREATED" /\ \A q \in Process \ {p} : at[q] # "idle" => ticket[q] # t
    BY <1>4, <2>1 DEF CommitCounters, InOrder, Orderly, Owned, Unwritten
  <2>4. /\ \A q \in Process : ~Settling(q, t)'
        /\ ~Unseated(t)'
    BY <1>4, <2>1, <2>3 DEF CommitCounters, GoTo, Settling, Unseated, InOrder, Typed,
       StepsTyped
  <2>5. Stand(t)' = "held"
    BY <1>1, <2>3, <2>4, PlacesOf DEF InOrder, StandsClear, CommitCounters
  <2> QED BY <1>1, <1>2, <1>3, <1>4, <2>2, <2>5 DEF Holds
<1>5. CASE doing[p] # "book"
  <2>1. Stand(t) = "held"
    BY <1>1, <1>5 DEF Overtaken
  <2>2. Settling(p, t)' /\ doing'[p] = doing[p]
    BY <1>5 DEF CommitCounters, GoTo, Settling, InOrder, Typed, StepsTyped
  <2>3. Stand(t)' = Place(Outcome[doing[p]])
    BY <1>1, <2>2 DEF InOrder, StandsClear
  <2>4. Delta["reject"] = Delta["cancel"]
    BY DEF Delta, Operations
  <2>5. CASE doing[p] = "confirm"
    BY <1>1, <1>2, <1>3, <2>1, <2>3, <2>5, PlacesOf DEF Sells
  <2>6. CASE doing[p] \in {"cancel", "reject"}
    BY <1>1, <1>2, <1>3, <2>1, <2>3, <2>4, <2>6, PlacesOf
       DEF Moved, Releases
  <2> QED BY <1>1, <1>5, <2>5, <2>6 DEF Operations
<1> QED BY <1>4, <1>5

\* The status follows the seats, which rest.
LEMMA CommitStatusRests ==
    ASSUME InOrder, NEW p \in Process, NEW t \in Tickets, ticket[p] = t, CommitStatus(p)
    PROVE  Rests
<1>1. doing[p] \in Operations \ {"book"}
  BY DEF CommitStatus, InOrder, Typed, StepsTyped, Orderly, Shape
<1>2. /\ status' = [status EXCEPT ![t] = Outcome[doing[p]]]
      /\ status' \in [Tickets -> Status] /\ status \in [Tickets -> Status]
      /\ UNCHANGED row
  BY DEF CommitStatus, InOrder, Typed, DataTyped
<1>3. /\ at' = [at EXCEPT ![p] = "idle"] /\ doing' = [doing EXCEPT ![p] = "book"]
      /\ ticket' = [ticket EXCEPT ![p] = NoTicket] /\ at[p] = "status"
      /\ at \in [Process -> PlacesInCode] /\ doing \in [Process -> Operations]
      /\ ticket \in [Process -> Tickets \cup {NoTicket}]
  BY DEF CommitStatus, Finish, InOrder, Typed, StepsTyped
<1>4. ASSUME NEW x \in Tickets \ {t} PROVE Stand(x)' = Stand(x)
  <2>1. /\ \A q \in Process : Settling(q, x)' <=> Settling(q, x)
        /\ \A q \in Process : Settling(q, x) => doing'[q] = doing[q]
    BY <1>3 DEF Settling
  <2>2. Unseated(x)' <=> Unseated(x)
    BY <1>3, Names DEF Unseated
  <2> QED BY <1>2, <2>1, <2>2, SameStand
<1>5. Stand(t)' = Stand(t)
  <2>1. \A q \in Process : ~Settling(q, t)'
    BY <1>3 DEF Settling, InOrder, Orderly, Settled
  <2>2. ~Unseated(t)'
    BY <1>1, <1>3, Names DEF Unseated, InOrder, Orderly, Owned
  <2>3. Stand(t)' = Place(Outcome[doing[p]])
    BY <1>2, <2>1, <2>2 DEF InOrder, StandsClear
  <2>4. Stand(t) = Place(Outcome[doing[p]])
    BY <1>3 DEF InOrder, StandsClear, Settling
  <2> QED BY <2>3, <2>4
<1> QED BY <1>2, <1>4, <1>5 DEF Rests, AllStand

LEMMA CreateTicketsRests ==
    ASSUME InOrder, NEW t \in Tickets, ticket["bot"] = t, create_tickets
    PROVE  Rests
<1>1. /\ at["bot"] = "create" /\ at' = [at EXCEPT !["bot"] = "counters"]
      /\ UNCHANGED <<doing, ticket, row>>
      /\ status' = [status EXCEPT ![t] = "CREATED"]
      /\ at \in [Process -> PlacesInCode] /\ status \in [Tickets -> Status]
  BY DEF create_tickets, GoTo, InOrder, Typed, StepsTyped, DataTyped
<1>2. /\ doing["bot"] = "book" /\ status[t] = "ABSENT"
      /\ \A q \in Process \ {"bot"} : at[q] # "idle" => ticket[q] # t
  BY <1>1, Names DEF InOrder, Orderly, Shape, Owned, Unwritten
<1>3. ASSUME NEW x \in Tickets \ {t} PROVE Stand(x)' = Stand(x)
  <2>1. /\ \A q \in Process : Settling(q, x)' <=> Settling(q, x)
        /\ \A q \in Process : Settling(q, x) => doing'[q] = doing[q]
    BY <1>1 DEF Settling
  <2>2. Unseated(x)' <=> Unseated(x)
    BY <1>1 DEF Unseated
  <2> QED BY <1>1, <2>1, <2>2, SameStand
<1>4. Stand(t)' = Stand(t)
  <2>1. \A q \in Process : ~Settling(q, t) /\ ~Settling(q, t)'
    BY <1>1, <1>2 DEF Settling
  <2>2. ~Unseated(t) /\ Unseated(t)'
    BY <1>1, <1>2, Names DEF Unseated
  <2>3. Stand(t) = "none"
    BY <1>2, <2>1, <2>2, PlacesOf DEF InOrder, StandsClear
  <2>4. Stand(t)' = "none"
    BY <2>1, <2>2 DEF InOrder, StandsClear
  <2> QED BY <2>3, <2>4
<1> QED BY <1>1, <1>3, <1>4 DEF Rests, AllStand

LEMMA PaidRests ==
    ASSUME InOrder, NEW t \in Tickets, processing_ticket_paid(t)
    PROVE  Rests
<1>1. status[t] \in {"CREATED", "PAID"}
  BY DEF processing_ticket_paid, Spoils, InOrder
<1>2. status' = [status EXCEPT ![t] = "PAID"] /\ status \in [Tickets -> Status]
  BY DEF processing_ticket_paid, InOrder, Typed, DataTyped
<1>3. \A x \in Tickets : Place(status'[x]) = Place(status[x])
  BY <1>1, <1>2, PlacesOf
<1>4. /\ UNCHANGED <<at, doing, ticket, row>>
  BY DEF processing_ticket_paid, procVars
<1>5. ASSUME NEW x \in Tickets PROVE Stand(x)' = Stand(x)
  <2>1. /\ \A q \in Process : Settling(q, x)' <=> Settling(q, x)
        /\ \A q \in Process : Settling(q, x) => doing'[q] = doing[q]
        /\ Unseated(x)' <=> Unseated(x)
    BY <1>4 DEF Settling, Unseated
  <2> QED BY <1>3, <2>1, SameStand
<1> QED BY <1>4, <1>5 DEF Rests, AllStand

LEMMA CleanupReleases ==
    ASSUME InOrder, NEW t \in Tickets, ticket["cleanup"] = t, CleanupCommit
    PROVE  Releases(t)
<1>1. /\ at["cleanup"] = "counters" /\ doing["cleanup"] = "cancel"
      /\ ~Overtaken("cleanup") /\ row' = update_schedule_event("cleanup")
      /\ status' = [status EXCEPT ![t] = "CANCELED"] /\ status \in [Tickets -> Status]
  BY Names DEF CleanupCommit, Spoils, InOrder, Orderly, Shape, Typed, DataTyped
<1>2. /\ at' = [at EXCEPT !["cleanup"] = "idle"]
      /\ doing' = [doing EXCEPT !["cleanup"] = "book"]
      /\ ticket' = [ticket EXCEPT !["cleanup"] = NoTicket]
      /\ at \in [Process -> PlacesInCode] /\ doing \in [Process -> Operations]
      /\ ticket \in [Process -> Tickets \cup {NoTicket}]
  BY DEF CleanupCommit, Finish, InOrder, Typed, StepsTyped
<1>3. Moved("cancel")
  BY <1>1, WrittenMoves, Names DEF InOrder
<1>4. /\ \A x \in Tickets, q \in Process : Settling(q, x)' <=> Settling(q, x)
      /\ \A x \in Tickets, q \in Process : Settling(q, x) => doing'[q] = doing[q]
      /\ \A x \in Tickets : Unseated(x)' <=> Unseated(x)
  BY <1>1, <1>2, Names DEF Settling, Unseated
<1>5. OnlyStands(t)
  <2> SUFFICES ASSUME NEW x \in Tickets \ {t} PROVE Stand(x)' = Stand(x)
    BY DEF OnlyStands
  <2> QED BY <1>1, <1>4, SameStand
<1>6. Stand(t) = "held"
  BY <1>1 DEF Overtaken
<1>7. Stand(t)' = "none"
  <2>1. (\A q \in Process : ~Settling(q, t)) /\ ~Unseated(t)
    BY <1>6 DEF InOrder, StandsClear
  <2> QED BY <1>1, <1>4, <2>1, PlacesOf DEF InOrder, StandsClear
<1> QED BY <1>3, <1>5, <1>6, <1>7 DEF Releases

LEMMA FormHolds ==
    ASSUME InOrder, NEW r \in Requests, NEW t \in Tickets, ticket[r] = t, FormCommit(r)
    PROVE  Holds(t)
<1>0. r \in Process /\ r # "bot" /\ r \notin Lists
  BY Names
<1>1. /\ at[r] = "counters" /\ doing[r] = "book"
      /\ ~Overtaken(r) /\ row' = update_schedule_event(r)
      /\ status' = [status EXCEPT ![t] = "CREATED"] /\ status \in [Tickets -> Status]
  BY <1>0 DEF FormCommit, Spoils, InOrder, Orderly, Shape, Typed, DataTyped
<1>2. /\ at' = [at EXCEPT ![r] = "pay"] /\ UNCHANGED <<doing, ticket>>
      /\ at \in [Process -> PlacesInCode]
  BY <1>0, <1>1 DEF FormCommit, GoTo, InOrder, Typed, StepsTyped
<1>3. Moved("book")
  BY <1>0, <1>1, WrittenMoves DEF InOrder
<1>4. /\ \A x \in Tickets, q \in Process : Settling(q, x)' <=> Settling(q, x)
      /\ \A x \in Tickets, q \in Process : Settling(q, x) => doing'[q] = doing[q]
      /\ \A x \in Tickets : Unseated(x)' <=> Unseated(x)
  BY <1>0, <1>1, <1>2, Names DEF Settling, Unseated
<1>5. OnlyStands(t)
  <2> SUFFICES ASSUME NEW x \in Tickets \ {t} PROVE Stand(x)' = Stand(x)
    BY DEF OnlyStands
  <2> QED BY <1>1, <1>4, SameStand
<1>6. Stand(t) = "none"
  BY <1>1 DEF Overtaken
<1>7. Stand(t)' = "held"
  <2>1. \A q \in Process \ {r} : at[q] # "idle" => ticket[q] # t
    BY <1>0, <1>1 DEF InOrder, Orderly, Owned
  <2>2. (\A q \in Process : ~Settling(q, t)) /\ ~Unseated(t)
    BY <1>0, <1>1, <2>1, Names DEF Settling, Unseated
  <2> QED BY <1>1, <1>4, <2>2, PlacesOf DEF InOrder, StandsClear
<1> QED BY <1>3, <1>5, <1>6, <1>7 DEF Holds

\* The steps of one process between its commits.
LEMMA ProcessStepsRest ==
    ASSUME InOrder, NEW p \in Process,
           \/ ReadRow(p) \/ CreatePayment(p)
           \/ \E op \in Operations, t \in Tickets, where \in {"read", "create", "counters"} :
                /\ Begin(p, op, t, where) /\ UNCHANGED <<status, row>>
                /\ where = "counters" => p # "bot"
    PROVE  Rests
<1>1. UNCHANGED <<status, row>>
  BY DEF ReadRow, CreatePayment, dataVars
<1>2. \A q \in Process \ {p} : /\ at'[q] = at[q] /\ ticket'[q] = ticket[q]
                               /\ doing'[q] = doing[q]
  BY DEF ReadRow, CreatePayment, GoTo, Finish, Begin, InOrder, Typed, StepsTyped
<1>3. ~HalfDone(p)
  BY DEF HalfDone, ReadRow, CreatePayment, Begin
<1>4. ~HalfDone(p)'
  <2>1. CASE ReadRow(p)
    BY <2>1 DEF HalfDone, ReadRow, GoTo, InOrder, Typed, StepsTyped, Orderly, Shape
  <2>2. CASE CreatePayment(p)
    BY <2>2 DEF HalfDone, CreatePayment, Finish, InOrder, Typed, StepsTyped
  <2>3. CASE \E op \in Operations, t \in Tickets, where \in {"read", "create", "counters"} :
                /\ Begin(p, op, t, where)
                /\ where = "counters" => p # "bot"
    BY <2>3 DEF HalfDone, Begin, InOrder, Typed, StepsTyped
  <2> QED BY <2>1, <2>2, <2>3
<1>5. \A q \in {p} \cap Process : ~HalfDone(q) /\ ~HalfDone(q)'
  BY <1>3, <1>4
<1> QED BY <1>1, <1>2, <1>5, NobodyHalfDone

\* The ends of processes that are not half done.
LEMMA EndsRest ==
    ASSUME InOrder, NEW P, EndProcesses(P), \A p \in P : ~HalfDone(p),
           UNCHANGED <<status, row>>
    PROVE  Rests
<1>1. \A q \in Process \ P : /\ at'[q] = at[q] /\ ticket'[q] = ticket[q]
                             /\ doing'[q] = doing[q]
  BY DEF EndProcesses
<1>2. \A p \in P \cap Process : ~HalfDone(p)'
  BY DEF EndProcesses, HalfDone
<1> QED BY <1>1, <1>2, NobodyHalfDone

\* No process takes a step.
LEMMA StillRests ==
    ASSUME InOrder, UNCHANGED <<status, row, at, doing, ticket>>
    PROVE  Rests
<1>1. \A q \in Process \ {} : /\ at'[q] = at[q] /\ ticket'[q] = ticket[q]
                              /\ doing'[q] = doing[q]
  OBVIOUS
<1>2. \A q \in {} \cap Process : ~HalfDone(q) /\ ~HalfDone(q)'
  OBVIOUS
<1> QED BY <1>1, <1>2, NobodyHalfDone

LEMMA OrderlyMoves ==
    ASSUME InOrder, [Next]_vars
    PROVE  Moves
<1>1. ASSUME NEW p \in Process,
             ReadRow(p) \/ CommitCounters(p) \/ CommitStatus(p) \/ CreatePayment(p)
      PROVE  Moves
  <2>1. at[p] # "idle" => ticket[p] \in Tickets
    BY DEF InOrder, Typed, StepsTyped
  <2>2. CASE ReadRow(p) \/ CreatePayment(p)
    BY <2>2, ProcessStepsRest DEF Moves
  <2>3. CASE CommitCounters(p)
    BY <2>1, <2>3, CommitCountersMove DEF CommitCounters, Moves
  <2>4. CASE CommitStatus(p)
    BY <2>1, <2>4, CommitStatusRests DEF CommitStatus, Moves
  <2> QED BY <1>1, <2>2, <2>3, <2>4
<1>2. ASSUME NEW t \in Tickets,
             \/ confirm_go_pay(t) \/ cancel_ticket_and_return_seat(t) \/ confirm_reserve(t)
             \/ reject_reserve(t)
      PROVE  Rests
  <2>1. UNCHANGED <<status, row>>
    BY <1>2 DEF confirm_go_pay, cancel_ticket_and_return_seat, confirm_reserve,
       reject_reserve, Handle, dataVars
  <2>2. \E op \in Operations, where \in {"read", "create"} : Begin("bot", op, t, where)
    BY <1>2, StatusesTyped DEF confirm_go_pay, cancel_ticket_and_return_seat,
       confirm_reserve, reject_reserve, Handle
  <2> QED BY <2>1, <2>2, ProcessStepsRest, Names
<1>3. ASSUME create_tickets PROVE Rests
  <2>1. ticket["bot"] \in Tickets
    BY <1>3, Names DEF create_tickets, InOrder, Typed, StepsTyped
  <2> QED BY <1>3, <2>1, CreateTicketsRests
<1>4. ASSUME NEW t \in Tickets, processing_ticket_paid(t)
      PROVE  Rests
  BY <1>4, PaidRests
<1>5. ASSUME NEW t \in Tickets, cancel_ticket_and_return_seat_auto(t) \/ CleanupRead(t)
      PROVE  Rests
  <2>1. UNCHANGED <<status, row>>
    BY <1>5 DEF cancel_ticket_and_return_seat_auto, CleanupRead, dataVars
  <2>2. \/ Begin("job", "cancel", t, "read")
        \/ Begin("cleanup", "cancel", t, "counters")
    BY <1>5 DEF cancel_ticket_and_return_seat_auto, CleanupRead
  <2> QED BY <2>1, <2>2, ProcessStepsRest, Names, StatusesTyped
<1>6. ASSUME CleanupCommit PROVE Moves
  <2>1. ticket["cleanup"] \in Tickets
    BY <1>6, Names DEF CleanupCommit, InOrder, Typed, StepsTyped
  <2> QED BY <1>6, <2>1, CleanupReleases DEF Moves
<1>7. ASSUME CleanupFails PROVE Rests
  <2>1. \A p \in {"cleanup"} : ~HalfDone(p)
    BY <1>7 DEF CleanupFails, HalfDone
  <2> QED BY <1>7, <2>1, EndsRest DEF CleanupFails, dataVars
<1>8. ASSUME BotCrash \/ WebCrash PROVE Rests
  <2>1. PICK P : Crash(P)
    BY <1>8 DEF BotCrash, WebCrash
  <2>2. \A p \in P : ~HalfDone(p)
    BY <2>1 DEF Crash, Spoils, InOrder
  <2> QED BY <2>1, <2>2, EndsRest DEF Crash, dataVars
<1>9. ASSUME NEW r \in Requests, NEW t \in Tickets, NEW n \in 0..1,
             post_booking_form(r, t, n)
      PROVE  Rests
  <2>1. Begin(r, "book", t, "counters") /\ UNCHANGED <<status, row>>
    BY <1>9 DEF post_booking_form, dataVars
  <2> QED BY <2>1, ProcessStepsRest, Names, StatusesTyped
<1>10. ASSUME NEW r \in Requests, FormCommit(r)
       PROVE  Moves
  <2>1. ticket[r] \in Tickets
    BY <1>10, Names DEF FormCommit, InOrder, Typed, StepsTyped
  <2> QED BY <1>10, <2>1, FormHolds DEF Moves
<1>11. ASSUME \/ cancel_old_created_tickets \/ get_expired_tickets
              \/ \E t \in Tickets : Tick(t)
              \/ UNCHANGED vars
       PROVE  Rests
  BY <1>11, StillRests DEF cancel_old_created_tickets, get_expired_tickets, Tick,
     vars, dataVars, procVars
<1> QED BY <1>1, <1>2, <1>3, <1>4, <1>5, <1>6, <1>7, <1>8, <1>9, <1>10, <1>11
        DEF Next, CleanupStep, Tickets, Moves

\* A spoilt ledger is blank.
LEMMA BlankWhenSpoilt ==
    /\ spoilt => standOf = [t \in Tickets |-> "none"]
    /\ spoilt' => standOf' = [t \in Tickets |-> "none"]
BY DEF standOf

LEMMA SpoiltStaysSpoilt == spoilt /\ [Next]_vars => spoilt'
BY DEF Next, vars, dataVars, outsideVars, procVars, ReadRow, CommitCounters,
   CommitStatus, CreatePayment, confirm_go_pay, cancel_ticket_and_return_seat, Handle,
   create_tickets, confirm_reserve, reject_reserve, processing_ticket_paid, Spoils,
   cancel_ticket_and_return_seat_auto, Tick, cancel_old_created_tickets, CleanupStep,
   get_expired_tickets, CleanupRead, CleanupCommit, CleanupFails, post_booking_form,
   FormCommit, BotCrash, WebCrash, Crash

LEMMA SessionsStepImplemented ==
    ASSUME Typed, Typed', Kept, [Next]_vars,
           Orderly => StandsClear, Orderly' => StandsClear'
    PROVE  Implemented
<1>1. Kept'
  BY OrderlyStep
<1>2. spoilt \in BOOLEAN /\ spoilt' \in BOOLEAN
  BY DEF Typed, HistoryTyped
<1>3. CASE ~spoilt'
  <2>1. ~spoilt
    BY <1>3, SpoiltStaysSpoilt
  <2> QED BY <1>1, <1>3, <2>1, OrderlyMoves, MovesImplemented DEF InOrder, Kept
<1>4. CASE ~spoilt /\ spoilt'
  <2>1. standOf' = [t \in Tickets |-> "none"] /\ spoilt' = TRUE
    BY <1>2, <1>4, BlankWhenSpoilt
  <2>2. /\ (IF spoilt THEN 0 ELSE row.free)' = 0
        /\ (IF spoilt THEN 0 ELSE row.nonconfirm)' = 0
    BY <1>4
  <2>3. [t \in Tickets |-> OfSeats(IF standOf[t] = "none" THEN 0 ELSE 1)]'
          = [t \in Tickets |-> OfSeats(0)]
    BY <2>1
  <2>4. OfSeats(0) = Ledger!Nothing
    BY DEF OfSeats, Ledger!Nothing
  <2>5. Ledger!WriteOff
    BY <1>4, <2>1, <2>2, <2>3, <2>4 DEF Ledger!WriteOff
  <2> QED BY <2>5 DEF Implemented, Ledger!Next
<1>5. CASE spoilt
  <2>1. spoilt' = spoilt
    BY <1>2, <1>5, SpoiltStaysSpoilt
  <2>2. standOf' = standOf
    BY <1>5, <2>1, BlankWhenSpoilt
  <2>3. /\ (IF spoilt THEN 0 ELSE row.free)' = (IF spoilt THEN 0 ELSE row.free)
        /\ (IF spoilt THEN 0 ELSE row.nonconfirm)' = (IF spoilt THEN 0 ELSE row.nonconfirm)
    BY <1>5, <2>1
  <2> QED BY <2>1, <2>2, <2>3 DEF Implemented, Ledger!vars
<1> QED BY <1>2, <1>3, <1>4, <1>5

LEMMA SessionsInitImplemented == Init => Ledger!Init
<1> SUFFICES ASSUME Init PROVE Ledger!Init
  OBVIOUS
<1>1. ~spoilt /\ row.free = Capacity /\ row.nonconfirm = 0
  BY DEF Init
<1>2. \A t \in Tickets : Stand(t) = "none"
  BY Names, PlacesOf DEF Init, Stand, Settling, Unseated
<1>3. standOf = [t \in Tickets |-> "none"]
  BY <1>1, <1>2 DEF standOf
<1>4. OfSeats(0) = Ledger!Nothing
  BY DEF OfSeats, Ledger!Nothing
<1> QED BY <1>1, <1>3, <1>4 DEF Ledger!Init, Init

(***************************************************************************)
(* The reads and commits of the bot, the job, the clean-up and any number  *)
(* of booking forms amount to operations of the ledger, in every order,    *)
(* through every rollback and crash that finds nothing half done, until    *)
(* one of the things happens that the handlers do not guard against.       *)
(***************************************************************************)
THEOREM SessionsImplementLedger == Spec => LedgerSpec
<1>1. Typed /\ Orderly => StandsClear
  BY StandsAreClear
<1>2. Typed /\ Typed' /\ Kept /\ [Next]_vars
        /\ (Typed /\ Orderly => StandsClear) /\ (Typed' /\ Orderly' => StandsClear')
        => [Ledger!Next]_Ledger!vars
  BY SessionsStepImplemented DEF Implemented
<1>3. Spec => Ledger!Init /\ [][Ledger!Next]_Ledger!vars
  BY <1>1, <1>2, SessionsInitImplemented, SessionsOrderly, PTL DEF Spec
<1> QED BY <1>3 DEF LedgerSpec, Ledger!Spec
-----------------------------------------------------------------------------
(* What the checks before a booking are worth.                             *)

\* A process that is about to take a seat remembers a free one, or has not
\* asked for it.
SeatSeen == \A p \in Process :
    at[p] \in {"create", "counters"} /\ doing[p] = "book"
        => ticket[p] \in unasked \/ seen[p].free >= 1

LEMMA SeatSeenStep ==
    ASSUME Typed, Orderly, SeatSeen, [Next]_vars
    PROVE  SeatSeen'
<1> USE DEF Typed, StepsTyped, SeenTyped
<1>1. ASSUME NEW p \in Process, ReadRow(p)
      PROVE  SeatSeen'
  <2>1. doing[p] # "book" /\ UNCHANGED <<doing, ticket, unasked>>
    BY <1>1 DEF ReadRow, GoTo, Orderly, Shape
  <2>2. \A q \in Process \ {p} : seen'[q] = seen[q] /\ at'[q] = at[q]
    BY <1>1, ReadTyped DEF ReadRow, GoTo
  <2> QED BY <2>1, <2>2 DEF SeatSeen
<1>2. ASSUME NEW p \in Process, CommitCounters(p) \/ FormCommit(p)
      PROVE  SeatSeen'
  BY <1>2 DEF CommitCounters, FormCommit, GoTo, SeatSeen
<1>3. ASSUME NEW p \in Process, CommitStatus(p) \/ CreatePayment(p)
      PROVE  SeatSeen'
  BY <1>3 DEF CommitStatus, CreatePayment, Finish, SeatSeen
<1>4. ASSUME NEW t \in Tickets,
             \/ cancel_ticket_and_return_seat(t) \/ confirm_reserve(t) \/ reject_reserve(t)
             \/ cancel_ticket_and_return_seat_auto(t) \/ processing_ticket_paid(t)
             \/ Tick(t)
      PROVE  SeatSeen'
  BY <1>4 DEF cancel_ticket_and_return_seat, confirm_reserve, reject_reserve, Handle,
     cancel_ticket_and_return_seat_auto, processing_ticket_paid, Tick, Begin, procVars,
     SeatSeen
<1>5. ASSUME NEW t \in Tickets, confirm_go_pay(t)
      PROVE  SeatSeen'
  BY <1>5, Names DEF confirm_go_pay, Begin, SeatSeen
<1>6. ASSUME NEW r \in Requests, NEW t \in Tickets, NEW n \in 0..1,
             post_booking_form(r, t, n)
      PROVE  SeatSeen'
  <2>1. r \in Process /\ \A q \in Process \ {r} :
          /\ at'[q] = at[q] /\ doing'[q] = doing[q] /\ ticket'[q] = ticket[q]
          /\ seen'[q] = seen[q] /\ (at[q] # "idle" => ticket[q] # t)
    BY <1>6, Names DEF post_booking_form, Begin, Untouched
  <2>2. \A x \in Tickets \ {t} : x \in unasked' <=> x \in unasked
    BY <1>6 DEF post_booking_form
  <2>3. t \in unasked' \/ row.free >= 1
    BY <1>6 DEF post_booking_form
  <2>4. ticket'[r] = t /\ seen'[r] = row
    BY <1>6, <2>1 DEF post_booking_form, Begin
  <2> QED BY <2>1, <2>2, <2>3, <2>4 DEF SeatSeen
<1>7. CASE create_tickets
  BY <1>7, Names DEF create_tickets, GoTo, SeatSeen, Orderly, Shape
<1>8. CASE cancel_old_created_tickets \/ get_expired_tickets \/ UNCHANGED vars
  BY <1>8 DEF cancel_old_created_tickets, get_expired_tickets, vars, procVars, SeatSeen
<1>9. ASSUME NEW t \in Tickets, CleanupRead(t)
      PROVE  SeatSeen'
  <2>1. /\ \A q \in Process \ {"cleanup"} : seen'[q] = seen[q] /\ at'[q] = at[q]
                                /\ doing'[q] = doing[q] /\ ticket'[q] = ticket[q]
        /\ doing'["cleanup"] = "cancel" /\ UNCHANGED unasked
    BY <1>9, ReadTyped, Names DEF CleanupRead, Begin
  <2> QED BY <2>1 DEF SeatSeen
<1>10. CASE CleanupCommit
  BY <1>10 DEF CleanupCommit, Finish, SeatSeen
<1>11. ASSUME NEW P, EndProcesses(P), UNCHANGED unasked
       PROVE  SeatSeen'
  BY <1>11 DEF EndProcesses, SeatSeen
<1>12. CASE CleanupFails \/ BotCrash \/ WebCrash
  BY <1>11, <1>12 DEF CleanupFails, BotCrash, WebCrash, Crash
<1> QED BY <1>1, <1>2, <1>3, <1>4, <1>5, <1>6, <1>7, <1>8, <1>9, <1>10, <1>12, Names
        DEF Next, CleanupStep, Tickets

Enough == row.free + Cardinality(Unasked) >= 0

LEMMA UnaskedFinite == Typed => IsFiniteSet(Unasked) /\ Cardinality(Unasked) \in Nat
<1> SUFFICES ASSUME Typed PROVE IsFiniteSet(Unasked) /\ Cardinality(Unasked) \in Nat
  OBVIOUS
<1>1. Unasked \subseteq Tickets
  BY DEF Unasked, Typed, HistoryTyped, Tickets
<1> QED BY <1>1, SessionsAssumption, FS_Subset, FS_CardinalityType

\* The seats are enough after a step when they rest, when a ticket gives
\* its seat back, and when one takes a seat that was seen or not asked for.
LEMMA EnoughAfterMove ==
    ASSUME InOrder, Enough, UNCHANGED unasked, NEW t \in Tickets,
           \/ Rests
           \/ Sells(t)
           \/ Releases(t)
           \/ Holds(t) /\ (t \in unasked \/ row.free >= 1)
    PROVE  Enough'
<1>1. /\ IsFiniteSet(Unasked) /\ Cardinality(Unasked) \in Nat
      /\ Cardinality(Unasked') \in Nat /\ row.free \in Int /\ row'.free \in Int
  <2>1. IsFiniteSet(Unasked) /\ Cardinality(Unasked) \in Nat
    BY UnaskedFinite DEF InOrder
  <2>2. Unasked' \subseteq Tickets
    BY DEF Unasked, InOrder, Typed, HistoryTyped, Tickets
  <2>3. Cardinality(Unasked') \in Nat
    BY <2>2, SessionsAssumption, FS_Subset, FS_CardinalityType
  <2>4. row \in Counters /\ row' \in Counters
    BY DEF InOrder, Typed, DataTyped
  <2> QED BY <2>1, <2>3, <2>4 DEF Counters, Columns
<1>2. CASE Rests
  <2>1. Unasked' = Unasked
    BY <1>2 DEF Unasked, Rests, AllStand, InOrder, Typed, HistoryTyped, Tickets
  <2> QED BY <1>2, <2>1 DEF Enough, Rests
<1>3. CASE Sells(t)
  <2>1. Unasked' = Unasked
    BY <1>3 DEF Unasked, Sells, OnlyStands, InOrder, Typed, HistoryTyped, Tickets
  <2>2. row'.free = row.free
    BY <1>1, <1>3 DEF Sells, Moved, Delta, Operations
  <2> QED BY <2>1, <2>2 DEF Enough
<1>4. CASE Releases(t)
  <2>1. Unasked' = Unasked \ {t}
    BY <1>4 DEF Unasked, Releases, OnlyStands, InOrder, Typed, HistoryTyped, Tickets
  <2>2. row'.free = row.free + 1
    BY <1>1, <1>4 DEF Releases, Moved, Delta, Operations
  <2>3. CASE t \in Unasked
    <3>1. Cardinality(Unasked \ {t}) = Cardinality(Unasked) - 1
      BY <1>1, <2>3, FS_RemoveElement
    <3> QED BY <1>1, <2>1, <2>2, <3>1 DEF Enough
  <2>4. CASE t \notin Unasked
    <3>1. Unasked' = Unasked
      BY <2>1, <2>4
    <3> QED BY <1>1, <2>2, <3>1 DEF Enough
  <2> QED BY <2>3, <2>4
<1>5. CASE Holds(t) /\ (t \in unasked \/ row.free >= 1)
  <2>1. row'.free = row.free - 1
    BY <1>1, <1>5 DEF Holds, Moved, Delta, Operations
  <2>2. CASE row.free >= 1
    BY <1>1, <2>1, <2>2 DEF Enough
  <2>3. CASE t \in unasked
    <3>1. Unasked' = Unasked \cup {t} /\ t \notin Unasked
      BY <1>5, <2>3
         DEF Unasked, Holds, OnlyStands, InOrder, Typed, HistoryTyped, Tickets
    <3>2. Cardinality(Unasked \cup {t}) = Cardinality(Unasked) + 1
      BY <1>1, <3>1, FS_AddElement
    <3> QED BY <1>1, <2>1, <3>1, <3>2 DEF Enough
  <2> QED BY <1>5, <2>2, <2>3
<1> QED BY <1>2, <1>3, <1>4, <1>5

LEMMA EnoughStep ==
    ASSUME InOrder, SeatSeen, Enough, [Next]_vars
    PROVE  Enough'
<1>1. ASSUME NEW p \in Process, CommitCounters(p) \/ (p \in Requests /\ FormCommit(p))
      PROVE  Enough'
  <2>1. at[p] = "counters" /\ ticket[p] \in Tickets /\ doing[p] \in Operations
    BY <1>1 DEF CommitCounters, FormCommit, InOrder, Typed, StepsTyped
  <2>2. UNCHANGED unasked /\ ~Overtaken(p)
    BY <1>1 DEF CommitCounters, FormCommit, Spoils, InOrder
  <2>3. CASE doing[p] = "book"
    <3>1. Holds(ticket[p])
      BY <1>1, <2>1, <2>3, CommitCountersMove, FormHolds
    <3>2. seen[p].free = row.free
      BY <2>2, <2>3 DEF Overtaken, Delta, Operations, Columns
    <3>3. ticket[p] \in unasked \/ row.free >= 1
      BY <2>1, <2>3, <3>2 DEF SeatSeen
    <3> QED BY <2>1, <2>2, <3>1, <3>3, EnoughAfterMove
  <2>4. CASE doing[p] # "book"
    <3>1. CommitCounters(p)
      BY <1>1, <2>1, <2>4, Names DEF InOrder, Orderly, Shape
    <3> QED BY <2>1, <2>2, <2>4, <3>1, CommitCountersMove, EnoughAfterMove
  <2> QED BY <2>3, <2>4
<1>2. ASSUME CleanupCommit
      PROVE  Enough'
  <2>1. ticket["cleanup"] \in Tickets /\ UNCHANGED unasked
    BY <1>2, Names DEF CleanupCommit, InOrder, Typed, StepsTyped
  <2> QED BY <1>2, <2>1, CleanupReleases, EnoughAfterMove
<1>3. ASSUME NEW r \in Requests, NEW t \in Tickets, NEW n \in 0..1,
             post_booking_form(r, t, n)
      PROVE  Enough'
  <2>1. Begin(r, "book", t, "counters") /\ UNCHANGED <<status, row>>
    BY <1>3 DEF post_booking_form, dataVars
  <2>2. AllStand
    BY <2>1, ProcessStepsRest, Names, StatusesTyped DEF Rests
  <2>3. Stand(t) = "none"
    <3>1. status[t] = "ABSENT" /\ \A p \in Process : ~Settling(p, t)
      BY <1>3 DEF post_booking_form, Untouched, Settling
    <3>2. ~Unseated(t)
      BY <1>3, Names DEF post_booking_form, Untouched, Unseated
    <3> QED BY <3>1, <3>2, PlacesOf DEF InOrder, StandsClear
  <2>4. \A x \in Tickets \ {t} : x \in unasked' <=> x \in unasked
    BY <1>3 DEF post_booking_form
  <2>5. Unasked' = Unasked
    BY <2>2, <2>3, <2>4 DEF Unasked, AllStand, InOrder, Typed, HistoryTyped, Tickets
  <2> QED BY <2>1, <2>5 DEF Enough
<1>4. ASSUME UNCHANGED <<row, unasked>>
      PROVE  Enough'
  <2>1. row.free \in Int
    BY DEF InOrder, Typed, DataTyped, Counters, Columns
  <2>2. \A t \in Tickets : ~Holds(t) /\ ~Releases(t)
    BY <1>4, <2>1 DEF Holds, Releases, Moved, Delta, Operations
  <2>3. CASE Rests
    <3>1. Unasked' = Unasked
      BY <1>4, <2>3 DEF Unasked, Rests, AllStand, InOrder, Typed, HistoryTyped, Tickets
    <3> QED BY <1>4, <3>1 DEF Enough
  <2>4. CASE \E t \in Tickets : Sells(t)
    BY <1>4, <2>4, EnoughAfterMove
  <2> QED BY <2>2, <2>3, <2>4, OrderlyMoves DEF Moves
<1>5. ASSUME \/ \E p \in Process : ReadRow(p) \/ CommitStatus(p) \/ CreatePayment(p)
             \/ \E t \in BotTickets : confirm_go_pay(t) \/ cancel_ticket_and_return_seat(t)
             \/ create_tickets
             \/ \E t \in Tickets :
                 \/ confirm_reserve(t) \/ reject_reserve(t) \/ processing_ticket_paid(t)
                 \/ cancel_ticket_and_return_seat_auto(t) \/ Tick(t) \/ CleanupRead(t)
             \/ cancel_old_created_tickets \/ get_expired_tickets
             \/ CleanupFails \/ BotCrash \/ WebCrash
             \/ UNCHANGED vars
      PROVE  UNCHANGED <<row, unasked>>
  BY <1>5 DEF ReadRow, CommitStatus, CreatePayment, confirm_go_pay,
     cancel_ticket_and_return_seat, Handle, create_tickets, confirm_reserve,
     reject_reserve, processing_ticket_paid, cancel_ticket_and_return_seat_auto, Tick,
     CleanupRead, cancel_old_created_tickets, get_expired_tickets, CleanupFails, BotCrash,
     WebCrash, Crash, vars, dataVars
<1> QED BY <1>1, <1>2, <1>3, <1>4, <1>5, Names DEF Next, CleanupStep, Tickets

Checked == spoilt \/ (SeatSeen /\ Enough)

LEMMA CheckedStep ==
    ASSUME Typed, Typed', Kept, Kept', Checked, [Next]_vars,
           Orderly => StandsClear, Orderly' => StandsClear'
    PROVE  Checked'
<1>1. SUFFICES ASSUME ~spoilt' PROVE SeatSeen' /\ Enough'
  BY DEF Checked
<1>2. ~spoilt
  BY <1>1, SpoiltStaysSpoilt
<1>3. InOrder /\ SeatSeen /\ Enough
  BY <1>1, <1>2 DEF Kept, Checked, InOrder
<1> QED BY <1>3, SeatSeenStep, EnoughStep DEF InOrder

(***************************************************************************)
(* The bot, the job, the clean-up and any number of forms never have more  *)
(* seats sold than there are, but for the seats the website did not ask    *)
(* for, which are made good as their tickets end: through every order of   *)
(* their commits, until a session writes over what another one changed, a  *)
(* payment comes for a ticket that has ended, or a process dies with the   *)
(* seats of a ticket moved and its status not.                             *)
(***************************************************************************)
THEOREM SessionsSellTheirSeats == Spec => []SeatsToSell
<1>1. Init => Checked
  <2> SUFFICES ASSUME Init PROVE Checked
    OBVIOUS
  <2>1. Unasked = {} /\ row.free \in Nat
    BY SessionsAssumption DEF Init, Unasked
  <2>2. Cardinality(Unasked) = 0
    BY <2>1, FS_EmptySet
  <2> QED BY <2>1, <2>2 DEF Init, Checked, SeatSeen, Enough
<1>2. Typed /\ Typed' /\ Kept /\ Kept' /\ Checked /\ [Next]_vars
        /\ (Typed /\ Orderly => StandsClear) /\ (Typed' /\ Orderly' => StandsClear')
        => Checked'
  BY CheckedStep
<1>3. Typed /\ Orderly => StandsClear
  BY StandsAreClear
<1>4. Checked => SeatsToSell
  BY DEF Checked, Enough, SeatsToSell
<1> QED BY <1>1, <1>2, <1>3, <1>4, SessionsOrderly, PTL DEF Spec
=============================================================================
