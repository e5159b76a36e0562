------------------------------ MODULE Sessions ------------------------------
(***************************************************************************)
(* What happens BETWEEN the commits of a handler.  Booking takes every     *)
(* handler as one step; here it is cut where it awaits, and the processes  *)
(* that share the rows of one event run in between each other:             *)
(*   "bot"      the updates of the Telegram bot, one at a time;            *)
(*   "job"      its hourly job, a task of the same process;                *)
(*   "cleanup"  the website's clean-up loop;                               *)
(*   Requests   booking forms the website is working on.                   *)
(* Each works through a database session of its own.  A session keeps the  *)
(* objects it has read (expire_on_commit=False): a later SELECT does not   *)
(* change them, and an UPDATE writes the columns that were assigned, with  *)
(* the numbers computed from what the session remembers.                   *)
(*                                                                         *)
(* The event has one kind of seat and every ticket takes one.  Of the      *)
(* bot's handlers those are here that take, return or confirm a buyer's    *)
(* seats; a seat operation that times out and a handler that ends with an  *)
(* exception are in Booking.                                               *)
(***************************************************************************)
EXTENDS Integers, FiniteSets

CONSTANTS
    BotTickets,   \* tickets that are booked in the bot
    WebTickets,   \* tickets that are booked on the website
    Requests,     \* booking forms handled side by side
    Capacity,     \* seats of the event
    MaxFaults,    \* bound: crashes and failed publications
    NoTicket      \* no ticket

Tickets == BotTickets \cup WebTickets
Lists   == {"job", "cleanup"}
Process == {"bot"} \cup Lists \cup Requests

ASSUME SessionsAssumption ==
    /\ IsFiniteSet(Tickets)
    /\ BotTickets \cap WebTickets = {}
    /\ Requests \cap {"bot", "job", "cleanup"} = {}
    /\ Capacity \in Nat /\ MaxFaults \in Nat
    /\ NoTicket \notin Tickets

VARIABLES
    \* the database
    status,   \* Ticket.status
    age,      \* Ticket.created_at: 0 fresh, 1 over ten minutes, 2 over thirty
    row,      \* the counters of the event
    \* outside
    payable,  \* tickets whose payment can be made
    asked,    \* tickets under which the admins have Confirm and Reject
    \* the processes
    at,       \* where each process is
    doing,    \* the operation it is in
    ticket,   \* the ticket it works on
    seen,     \* the counters as its session remembers them
    todo,     \* the tickets still on the lists of the job and the clean-up
    \* bounds and history
    unasked,  \* tickets the website did not ask a free seat for
    faults,
    spoilt    \* something happened that the handlers do not guard against

dataVars == <<status, age, row>>
outsideVars == <<payable, asked>>
procVars == <<at, doing, ticket, seen, todo>>
vars == <<dataVars, outsideVars, procVars, unasked, faults, spoilt>>

Status  == {"ABSENT", "CREATED", "PAID", "APPROVED", "REJECTED", "CANCELED"}
Columns == {"free", "nonconfirm"}
NoRow == [c \in {} |-> 0]

\* What each operation adds to the counters and the status it leaves.
Operations == {"book", "cancel", "confirm", "reject"}
Delta == [op \in Operations |->
            CASE op = "book"    -> [free |-> -1, nonconfirm |-> 1]
              [] op = "confirm" -> [free |-> 0,  nonconfirm |-> -1]
              [] OTHER          -> [free |-> 1,  nonconfirm |-> -1]]
Outcome == [book |-> "CREATED", cancel |-> "CANCELED",
            confirm |-> "APPROVED", reject |-> "REJECTED"]

Place(s) == CASE s \in {"CREATED", "PAID"} -> "held"
              [] s = "APPROVED"            -> "sold"
              [] OTHER                     -> "none"

TypeOK ==
    /\ status \in [Tickets -> Status]
    /\ age \in [Tickets -> 0..2]
    /\ row \in [Columns -> Int]
    /\ payable \subseteq Tickets /\ asked \subseteq Tickets
    /\ at \in [Process -> {"idle", "read", "create", "counters", "status", "pay"}]
    /\ doing \in [Process -> Operations]
    /\ ticket \in [Process -> Tickets \cup {NoTicket}]
    /\ seen \in [Process -> [Columns -> Int] \cup {NoRow}]
    /\ todo \in [Lists -> SUBSET Tickets]
    /\ unasked \subseteq WebTickets
    /\ faults \in 0..MaxFaults
    /\ spoilt \in BOOLEAN
    /\ \A p \in Process : at[p] # "idle" => ticket[p] \in Tickets
    /\ \A p \in Process : at[p] \in {"create", "counters"} => seen[p] # NoRow

Init ==
    /\ status = [t \in Tickets |-> "ABSENT"]
    /\ age = [t \in Tickets |-> 0]
    /\ row = [free |-> Capacity, nonconfirm |-> 0]
    /\ payable = {} /\ asked = {}
    /\ at = [p \in Process |-> "idle"]
    /\ doing = [p \in Process |-> "book"]
    /\ ticket = [p \in Process |-> NoTicket]
    /\ seen = [p \in Process |-> NoRow]
    /\ todo = [p \in Lists |-> {}]
    /\ unasked = {} /\ faults = 0
    /\ spoilt = FALSE
-----------------------------------------------------------------------------
(* Where a ticket's seats stand once the half-done work of the processes   *)
(* is counted in: between its two commits a process has already moved the  *)
(* seats and not yet the status; the bot writes a new ticket before it     *)
(* takes the seats.                                                        *)

Settling(p, t) == at[p] = "status" /\ ticket[p] = t
Unseated(t) == at["bot"] = "counters" /\ doing["bot"] = "book" /\ ticket["bot"] = t

Stand(t) ==
    IF \E p \in Process : Settling(p, t)
    THEN Place(Outcome[doing[CHOOSE p \in Process : Settling(p, t)]])
    ELSE IF Unseated(t) THEN "none" ELSE Place(status[t])

\* The session's idea of the counters or of the ticket is out of date when
\* it writes them.
Overtaken(p) ==
    \/ \E c \in Columns : Delta[doing[p]][c] # 0 /\ seen[p][c] # row[c]
    \/ Stand(ticket[p]) # IF doing[p] = "book" THEN "none" ELSE "held"

Spoils(condition) == spoilt' = (spoilt \/ condition)

\* Nobody works on t yet.
Untouched(t) == status[t] = "ABSENT" /\ \A p \in Process : at[p] = "idle" \/ ticket[p] # t

-----------------------------------------------------------------------------
(* The steps handlers are made of.                                         *)

Begin(p, op, t, where) ==
    /\ at[p] = "idle"
    /\ at' = [at EXCEPT ![p] = where]
    /\ doing' = [doing EXCEPT ![p] = op]
    /\ ticket' = [ticket EXCEPT ![p] = t]

GoTo(p, where) == at' = [at EXCEPT ![p] = where] /\ UNCHANGED <<doing, ticket>>

\* The handler is done.  The job and the clean-up keep their session, and
\* with it the row r, until their list is worked off.
Finish(p, r) ==
    /\ at' = [at EXCEPT ![p] = "idle"]
    /\ doing' = [doing EXCEPT ![p] = "book"]
    /\ ticket' = [ticket EXCEPT ![p] = NoTicket]
    /\ seen' = [seen EXCEPT ![p] = IF p \in Lists /\ todo[p] # {} THEN r ELSE NoRow]

Bug_keeps_first_row(p) ==
    seen' = [seen EXCEPT ![p] = IF p = "bot" THEN row ELSE @]

\* The sessions of P are closed at once, whatever they were doing.
EndProcesses(P) ==
    /\ at' = [p \in Process |-> IF p \in P THEN "idle" ELSE at[p]]
    /\ doing' = [p \in Process |-> IF p \in P THEN "book" ELSE doing[p]]
    /\ ticket' = [p \in Process |-> IF p \in P THEN NoTicket ELSE ticket[p]]
    /\ seen' = [p \in Process |-> IF p \in P THEN NoRow ELSE seen[p]]
    /\ todo' = [p \in Lists |-> IF p \in P THEN {} ELSE todo[p]]

\* A session that remembers the counters keeps them.  Those of the job and
\* of the clean-up live for the whole list, and may forget an object that
\* nothing refers to any more.
get_schedule_event(p) ==
    \E r \in {row, seen[p]} \ {NoRow} : seen' = [seen EXCEPT ![p] = r]

\* The row after p's UPDATE: only changed columns are written.  The object
\* of the session is the same afterwards.
update_schedule_event(p) ==
    LET change == Delta[doing[p]]
    IN  [c \in Columns |-> IF change[c] = 0 THEN row[c] ELSE seen[p][c] + change[c]]

ReadRow(p) ==
    /\ at[p] = "read"
    /\ get_schedule_event(p)
    /\ GoTo(p, "counters")
    /\ UNCHANGED <<dataVars, outsideVars, todo, unasked, faults, spoilt>>

\* The seat operation commits; what is left to do comes next.
CommitCounters(p) ==
    /\ p \in {"bot", "job"} /\ at[p] = "counters"
    /\ row' = update_schedule_event(p)
    /\ seen' = [seen EXCEPT ![p] = row']
    /\ Spoils(Overtaken(p))
    /\ GoTo(p, IF doing[p] = "book" THEN "pay" ELSE "status")
    /\ UNCHANGED <<status, age, outsideVars, todo, unasked, faults>>

\* update_ticket commits; a handler of the admins' buttons removes them.
CommitStatus(p) ==
    /\ at[p] = "status"
    /\ status' = [status EXCEPT ![ticket[p]] = Outcome[doing[p]]]
    /\ asked' = IF doing[p] \in {"confirm", "reject"} THEN asked \ {ticket[p]} ELSE asked
    /\ Finish(p, seen[p])
    /\ UNCHANGED <<age, row, payable, todo, unasked, faults, spoilt>>

\* The payment is created, or YooKassa refuses and the ticket is left.
CreatePayment(p) ==
    /\ at[p] = "pay"
    /\ payable' \in {payable, payable \cup {ticket[p]}}
    /\ Finish(p, NoRow)
    /\ UNCHANGED <<dataVars, asked, todo, unasked, faults, spoilt>>

-----------------------------------------------------------------------------
(* The bot.                                                                *)

Bug_pays_for_any_seat(t) ==
    /\ Untouched(t) /\ row.free >= 0
    /\ Begin("bot", "book", t, "create")
    /\ seen' = [seen EXCEPT !["bot"] = row]
    /\ UNCHANGED <<dataVars, outsideVars, todo, unasked, faults, spoilt>>

\* The row read for the check is held until the handler ends: the counters
\* are computed from it after the ticket was created.
confirm_go_pay(t) ==
    /\ Untouched(t) /\ row.free >= 1
    /\ Begin("bot", "book", t, "create")
    /\ seen' = [seen EXCEPT !["bot"] = row]
    /\ UNCHANGED <<dataVars, outsideVars, todo, unasked, faults, spoilt>>

create_tickets ==
    /\ at["bot"] = "create"
    /\ status' = [status EXCEPT ![ticket["bot"]] = "CREATED"]
    /\ GoTo("bot", "counters")
    /\ UNCHANGED <<age, row, outsideVars, seen, todo, unasked, faults, spoilt>>

\* Every update has a session of its own.
Handle(op, t) ==
    /\ Begin("bot", op, t, "read")
    /\ UNCHANGED <<dataVars, outsideVars, seen, todo, unasked, faults, spoilt>>

\* The buyer's dialog ends while the ticket waits for its payment.
cancel_ticket_and_return_seat(t) ==
    /\ status[t] = "CREATED" /\ t \in payable
    /\ Handle("cancel", t)

confirm_reserve(t) ==
    /\ t \in asked /\ status[t] # "APPROVED"
    /\ Handle("confirm", t)

reject_reserve(t) ==
    /\ t \in asked
    /\ Handle("reject", t)

\* A payment was made.  The status is written whatever it was.
processing_ticket_paid(t) ==
    /\ at["bot"] = "idle" /\ t \in payable
    /\ payable' = payable \ {t}
    /\ status' = [status EXCEPT ![t] = "PAID"]
    /\ asked' = asked \cup {t}
    /\ Spoils(status[t] \notin {"CREATED", "PAID"})
    /\ UNCHANGED <<age, row, procVars, unasked, faults>>

-----------------------------------------------------------------------------
(* The hourly job: one session, one list.                                  *)

cancel_old_created_tickets ==
    /\ at["job"] = "idle" /\ todo["job"] = {}
    /\ todo' = [todo EXCEPT !["job"] = {t \in Tickets : status[t] = "CREATED" /\ age[t] = 2}]
    /\ UNCHANGED <<dataVars, outsideVars, at, doing, ticket, seen, unasked, faults, spoilt>>

\* The ticket is looked up again, but the session answers from memory: the
\* status it checks is the one the list was made from.
cancel_ticket_and_return_seat_auto(t) ==
    /\ t \in todo["job"]
    /\ Begin("job", "cancel", t, "read")
    /\ todo' = [todo EXCEPT !["job"] = @ \ {t}]
    /\ UNCHANGED <<dataVars, outsideVars, seen, unasked, faults, spoilt>>

-----------------------------------------------------------------------------
(* The website.                                                            *)

Expired == {t \in Tickets : status[t] = "CREATED" /\ age[t] >= 1}

Bug_waits_too_long ==
    LET overdue == {t \in Expired : age[t] > 1}
    IN  /\ at["cleanup"] = "idle" /\ todo["cleanup"] = {} /\ overdue # {}
        /\ todo' = [todo EXCEPT !["cleanup"] = overdue]
        /\ UNCHANGED <<dataVars, outsideVars, at, doing, ticket, seen, unasked, faults, spoilt>>

get_expired_tickets ==
    /\ at["cleanup"] = "idle" /\ todo["cleanup"] = {} /\ Expired # {}
    /\ todo' = [todo EXCEPT !["cleanup"] = Expired]
    /\ UNCHANGED <<dataVars, outsideVars, at, doing, ticket, seen, unasked, faults, spoilt>>

CleanupRead(t) ==
    /\ t \in todo["cleanup"]
    /\ Begin("cleanup", "cancel", t, "counters")
    /\ todo' = [todo EXCEPT !["cleanup"] = @ \ {t}]
    /\ get_schedule_event("cleanup")
    /\ UNCHANGED <<dataVars, outsideVars, unasked, faults, spoilt>>

\* Counters and status in one commit.
CleanupCommit ==
    /\ at["cleanup"] = "counters"
    /\ row' = update_schedule_event("cleanup")
    /\ status' = [status EXCEPT ![ticket["cleanup"]] = "CANCELED"]
    /\ Spoils(Overtaken("cleanup"))
    /\ Finish("cleanup", row')
    /\ UNCHANGED <<age, outsideVars, todo, unasked, faults>>

Bug_no_rollback ==
    /\ at["cleanup"] = "counters" /\ faults < MaxFaults
    /\ faults' = faults + 1
    /\ row' = update_schedule_event("cleanup")
    /\ EndProcesses({"cleanup"})
    /\ UNCHANGED <<status, age, outsideVars, unasked, spoilt>>

\* The publication fails: rollback.  The objects of the session are expired
\* by it, and the next one that is touched ends the pass.
CleanupFails ==
    /\ at["cleanup"] = "counters" /\ faults < MaxFaults
    /\ faults' = faults + 1
    /\ EndProcesses({"cleanup"})
    /\ UNCHANGED <<dataVars, outsideVars, unasked, spoilt>>

\* The form names n children for the seat its ticket takes.  It is refused
\* when the row just read has fewer seats than it names children; a seat no
\* child is named for, an adult's, is taken without a question.
post_booking_form(r, t, n) ==
    /\ Untouched(t) /\ row.free >= n
    /\ Begin(r, "book", t, "counters")
    /\ seen' = [seen EXCEPT ![r] = row]
    /\ unasked' = IF n = 0 THEN unasked \cup {t} ELSE unasked \ {t}
    /\ UNCHANGED <<dataVars, outsideVars, todo, faults, spoilt>>

\* Ticket and counters in one commit.
FormCommit(r) ==
    /\ at[r] = "counters"
    /\ row' = update_schedule_event(r)
    /\ seen' = [seen EXCEPT ![r] = row']
    /\ status' = [status EXCEPT ![ticket[r]] = "CREATED"]
    /\ Spoils(Overtaken(r))
    /\ GoTo(r, "pay")
    /\ UNCHANGED <<age, outsideVars, todo, unasked, faults>>

-----------------------------------------------------------------------------
(* Time, and the end of a process.  A handler takes less than ten minutes. *)

Tick(t) ==
    /\ status[t] = "CREATED" /\ age[t] < 2
    /\ \A p \in Process : doing[p] = "book" /\ ticket[p] = t => at[p] = "idle"
    /\ age' = [age EXCEPT ![t] = @ + 1]
    /\ UNCHANGED <<status, row, outsideVars, procVars, unasked, faults, spoilt>>

\* The seats have moved and the status has not, or the ticket is there and
\* its seats are not taken.
HalfDone(p) ==
    \/ at[p] = "status"
    \/ p = "bot" /\ at[p] = "counters" /\ doing[p] = "book"

Crash(P) ==
    /\ faults < MaxFaults
    /\ faults' = faults + 1
    /\ \E p \in P : at[p] # "idle" \/ (p \in Lists /\ todo[p] # {})
    /\ Spoils(\E p \in P : HalfDone(p))
    /\ EndProcesses(P)
    /\ UNCHANGED <<dataVars, outsideVars, unasked>>

BotCrash == Crash({"bot", "job"})
WebCrash == Crash({"cleanup"} \cup Requests)
-----------------------------------------------------------------------------
CleanupStep ==
    \/ get_expired_tickets
    \/ \E t \in Tickets : CleanupRead(t)
    \/ CleanupCommit

Next ==
    \/ \E p \in Process :
        \/ ReadRow(p)
        \/ CommitCounters(p)
        \/ CommitStatus(p)
        \/ CreatePayment(p)
    \/ \E t \in BotTickets : confirm_go_pay(t) \/ cancel_ticket_and_return_seat(t)
    \/ create_tickets
    \/ \E t \in Tickets :
        \/ confirm_reserve(t)
        \/ reject_reserve(t)
        \/ processing_ticket_paid(t)
        \/ cancel_ticket_and_return_seat_auto(t)
        \/ Tick(t)
    \/ cancel_old_created_tickets
    \/ CleanupStep
    \/ CleanupFails
    \/ \E r \in Requests, t \in WebTickets, n \in 0..1 : post_booking_form(r, t, n)
    \/ \E r \in Requests : FormCommit(r)
    \/ BotCrash
    \/ WebCrash

Spec == Init /\ [][Next]_vars

\* The clean-up is a loop that survives every exception.
FairSpec == Spec /\ WF_vars(CleanupStep)
-----------------------------------------------------------------------------
\* Tickets that have a seat nobody asked the counters for.
Unasked == {t \in unasked : Stand(t) # "none"}

(***************************************************************************)
(* A seat that is asked for is not sold twice: confirm_go_pay              *)
(* (payment.py:314) and the children's half of post_booking_form           *)
(* (booking.py:182) look at the counters before they take, so that there   *)
(* are never more seats sold than the event has but for those of the       *)
(* tickets the website takes unasked, and these are made good when such a  *)
(* ticket ends.  All that is excepted is what `spoilt` stands for: a       *)
(* session that wrote numbers computed from a row another session had      *)
(* changed since, or moved the seats of a ticket that another had already  *)
(* ended or confirmed; a payment for a ticket that has ended; and a        *)
(* process that died between two commits which belong together.            *)
(***************************************************************************)
SeatsToSell == ~spoilt => row.free + Cardinality(Unasked) >= 0

(***************************************************************************)
(* A booking that is not paid in time ends, whatever the job, the admins,  *)
(* a crash or a broker that is away do to the clean-up                     *)
(* (booking_service.py:16-66) in the middle of it.                         *)
(***************************************************************************)
ExpiredEnds ==
    \A t \in Tickets : t \in Expired ~> t \notin Expired

(***************************************************************************)
(* The hourly job "cancels tickets in status CREATED" (worker_jobs.py:78); *)
(* any other "must not be cancelled" (utl_googlesheets.py:45, 65).  When   *)
(* the job has looked at a ticket and goes on to return its seat, the      *)
(* ticket is created.                                                      *)
(***************************************************************************)
JobCancelsCreated ==
    [][\A t \in Tickets :
         at["job"] = "idle" /\ at'["job"] = "read" /\ ticket'["job"] = t
           => status[t] = "CREATED"]_vars
=============================================================================
