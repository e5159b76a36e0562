----------------------------- MODULE Background -----------------------------
(***************************************************************************)
(* The promise of the seat counters and, each by itself, what keeps the    *)
(* ledger's surroundings going while nobody looks: the copy in the         *)
(* spreadsheet, the news of payments and the reminders.  The choice of a   *)
(* part is made in the initial state, and only that part runs.  SeatLedger *)
(* is extended; the others have the variables they declare, and a name two *)
(* of them use is one variable, that of the part which runs.               *)
(***************************************************************************)
EXTENDS SeatLedger

CONSTANTS
    Opened, MaxOps, SheetFaults, MaxMsgs,   \* SheetMirror
    Payments,                               \* Notices
    EventTickets, MaxReloads,               \* Reminders
    MaxFaults                               \* Notices and Reminders

ASSUME PartsAssumption ==
    /\ Opened \in Int /\ MaxMsgs \in Nat \ {0}
    /\ {MaxOps, SheetFaults, MaxReloads, MaxFaults} \subseteq Nat

VARIABLES
    part,                                                   \* the part that runs
    stream, inflight, unacked, up, faults,                  \* of several parts
    db, sheet, pc, numbers, form, cause, ops,               \* SheetMirror
    posted, queue, handling, booked, lost,                  \* Notices
    time, job, status, blocked, reminded, run, got, slipped, ended, reloads
                                                            \* Reminders

G == INSTANCE SheetMirror WITH MaxFaults <- SheetFaults
N == INSTANCE Notices
R == INSTANCE Reminders WITH Tickets <- EventTickets

broker == <<stream, inflight, unacked>>
sheetVars == <<db, sheet, pc, numbers, form, cause, ops>>
noticeVars == <<posted, queue, handling, booked, lost>>
reminderVars == <<time, job, status, blocked, reminded, run, got, slipped, ended,
                  reloads>>
partsVars == <<part, vars, broker, up, faults, sheetVars, noticeVars, reminderVars>>

\* What the parts that do not run have for theirs.
NoBroker == stream = 0 /\ inflight = 0 /\ unacked = 0
NoSheet == db = 0 /\ sheet = 0 /\ pc = 0 /\ numbers = 0 /\ form = 0 /\ cause = 0 /\ ops = 0
NoNotice == posted = 0 /\ queue = 0 /\ handling = 0 /\ booked = 0 /\ lost = 0
NoReminder == /\ time = 0 /\ job = 0 /\ status = 0 /\ blocked = 0 /\ reminded = 0
              /\ run = 0 /\ got = 0 /\ slipped = 0 /\ ended = 0 /\ reloads = 0

PartsInit ==
    /\ Init
    /\ \/ /\ part = "ledger" /\ up = 0 /\ faults = 0
          /\ NoBroker /\ NoSheet /\ NoNotice /\ NoReminder
       \/ part = "sheet" /\ G!Init /\ up = 0 /\ NoNotice /\ NoReminder
       \/ part = "notices" /\ N!Init /\ NoSheet /\ NoReminder
       \/ part = "reminders" /\ R!Init /\ NoBroker /\ NoSheet /\ NoNotice

Ledger == /\ part = "ledger"
          /\ UNCHANGED <<part, broker, up, faults, sheetVars, noticeVars, reminderVars>>
Sheet(A) == /\ part = "sheet" /\ A
            /\ UNCHANGED <<part, vars, up, noticeVars, reminderVars>>
Notice(A) == /\ part = "notices" /\ A
             /\ UNCHANGED <<part, vars, sheetVars, reminderVars>>
Reminder(A) == /\ part = "reminders" /\ A
               /\ UNCHANGED <<part, vars, broker, sheetVars, noticeVars>>
PartsNext ==
    \/ Ledger /\ Next
    \/ Sheet(G!Next)
    \/ Notice(N!Next)
    \/ Reminder(R!Next)
PartsSpec == PartsInit /\ [][PartsNext]_partsVars

\* What a process that runs gets to in the end; a bot that stopped is started
\* again (restart: unless-stopped in docker-compose.yaml), and YooKassa posts until it is
\* answered.  Failures, the clock, users and admins owe nothing.
Fairness ==
    /\ \A p \in Payments : WF_partsVars(Notice(N!post_notification(p)))
    /\ WF_partsVars(Notice(N!deliver)) /\ WF_partsVars(Notice(N!yookassa_handler))
    /\ WF_partsVars(Notice(N!acknowledge)) /\ WF_partsVars(Notice(N!process_update))
    /\ WF_partsVars(Notice(N!yookassa_hook_update)) /\ WF_partsVars(Notice(N!restart))
    /\ \A t \in EventTickets : /\ WF_partsVars(Reminder(R!next_ticket(t)))
                         /\ WF_partsVars(Reminder(R!send_remainder_msg(t)))
    /\ WF_partsVars(Reminder(R!restart))
FairSpec == PartsSpec /\ Fairness
-----------------------------------------------------------------------------
(* The properties of the parts: their comments are in their modules.       *)

\* Once all is still the spreadsheet shows the database (SheetMirror).
SheetTellsTruth == part = "sheet" => G!SheetTellsTruth
\* Loading the schedule forgets no seats (SheetMirror).
ReloadKeepsCounters == [][part = "sheet" => G!Loads]_sheetVars
\* A payment that succeeded marks its tickets paid (Notices).
PaymentIsBooked ==
    \A p \in Payments :
        (part = "notices" /\ N!Succeeded(p)) ~> (part = "notices" /\ N!Settled(p))
\* Only a message without a mark is sent twice (Reminders).
TwiceOnlyUnmarked == part = "reminders" => R!TwiceOnlyUnmarked
\* What a job found due is reminded (Reminders).
DueIsReminded ==
    \A t \in EventTickets :
        (part = "reminders" /\ R!FoundDue(t)) ~> (part = "reminders" /\ R!Settled(t))
=============================================================================
