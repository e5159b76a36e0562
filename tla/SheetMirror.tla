---------------------------- MODULE SheetMirror -----------------------------
(***************************************************************************)
(* The copy of an event's seat counters in the theatre's spreadsheet, and  *)
(* the way back.  A handler that changes seats reads the event's row,      *)
(* publishes the new ABSOLUTE numbers of the columns it changes as a task  *)
(* of the stream 'baby_domik', and only then commits them                  *)
(* (db/db_googlesheets.py); so does the website's clean-up of expired      *)
(* bookings (api/web/services/booking_service.py), while its form commits  *)
(* first and publishes after (api/web/routes/booking.py).  One process,    *)
(* api/gspread_worker.py, carries the tasks out in their order.  "Update   *)
(* the schedule" in the settings loads the sheet and writes what it finds  *)
(* over the database, counters included (handlers/sub_hl.py), and the form *)
(* in which an admin edits a showing writes back the counters it had when  *)
(* the form was opened, and publishes nothing (handlers/schedule_hl.py).   *)
(*                                                                         *)
(* The bot handles one update at a time; its hourly job, the website's     *)
(* form and its clean-up run beside it, and so does the worker.  What can  *)
(* come between the two copies is recorded in "cause"; an operation on all *)
(* the columns that starts when everything is still wipes the record, for  *)
(* the numbers it publishes replace whatever the sheet shows (one of the   *)
(* clean-up does not: it may be rolled back before it publishes any).      *)
(*                                                                         *)
(* What is read is the committed row.  A session that keeps an older one   *)
(* is the subject of Sessions: the numbers made from it are absolute, and  *)
(* the same ones go to both copies.                                        *)
(***************************************************************************)
EXTENDS Integers, Sequences

CONSTANTS
    Opened,     \* the free seats the event was opened with
    MaxOps,     \* bound: seat operations, reloads and forms
    MaxFaults,  \* bound: failures of any kind
    MaxMsgs     \* the length of the stream (100 in the code)

Actors  == {"bot", "jobs", "web", "cleanup"}
Columns == {"free", "nonconfirm"}

\* The seat operations on one seat: the changes of the columns.  Another kind
\* of ticket may have a seat more or less, or as many ...
Changes == [
    increase_free_and_decrease_nonconfirm_seat |-> {[free |-> 1, nonconfirm |-> -1]},
    decrease_free_and_increase_nonconfirm_seat |-> {[free |-> -1, nonconfirm |-> 1]},
    increase_free_seat       |-> {[free |-> 1]},
    decrease_free_seat       |-> {[free |-> -1]},
    decrease_nonconfirm_seat |-> {[nonconfirm |-> -1]},
    update_free_seat         |-> {[free |-> k] : k \in -1..1}]

\* ... and who performs them: the hourly job and the clean-up give seats back,
\* the website's form takes them, the bot does either.
Does(a) == CASE a = "bot" -> DOMAIN Changes
             [] a \in {"jobs", "cleanup"} -> {"increase_free_and_decrease_nonconfirm_seat"}
             [] a = "web" -> {"decrease_free_and_increase_nonconfirm_seat"}

VARIABLES
    db,         \* the event's row in the database
    sheet,      \* its row in the spreadsheet
    pc,         \* how far each actor has come
    numbers,    \* the new numbers each actor holds; the bot's loaded row
    form,       \* the counters an open edit form holds; <<>>: there is none
    stream,     \* tasks the worker has not been given, oldest first
    inflight,   \* the task it was given and whether it has carried it out
    unacked,    \* tasks it crashed on, waiting for ack_wait to pass
    cause,      \* what may have set the two rows apart
    ops, faults

vars == <<db, sheet, pc, numbers, form, stream, inflight, unacked, cause, ops, faults>>
actors == <<db, pc, numbers, form, ops>>
queue  == <<stream, inflight, unacked>>

\* A row with these numbers in their columns.
Over(row, n) == [c \in Columns |-> IF c \in DOMAIN n THEN n[c] ELSE row[c]]

NoTask == [task |-> <<>>, done |-> FALSE]
Busy   == {a \in Actors : pc[a] # "idle"}
Still  == Busy = {} /\ stream = <<>> /\ inflight = NoTask /\ unacked = <<>>

MirrorOK ==
    /\ db \in [Columns -> Int] /\ sheet \in [Columns -> Int]
    /\ pc \in [Actors -> {"idle", "read", "refused", "published", "committed", "loaded"}]
    /\ form \in [Columns -> Int] \cup {<<>>}
    /\ Len(stream) <= MaxMsgs /\ faults \in 0..MaxFaults /\ ops \in 0..MaxOps

Init ==
    /\ db = [free |-> Opened, nonconfirm |-> 0] /\ sheet = db
    /\ pc = [a \in Actors |-> "idle"] /\ numbers = [a \in Actors |-> <<>>]
    /\ form = <<>> /\ stream = <<>> /\ inflight = NoTask /\ unacked = <<>>
    /\ cause = {} /\ ops = 0 /\ faults = 0

Step(a, from, to) == pc[a] = from /\ pc' = [pc EXCEPT ![a] = to]
Fault == faults < MaxFaults /\ faults' = faults + 1
Suspect(what, when) == cause' = IF when THEN cause \cup {what} ELSE cause
-----------------------------------------------------------------------------
(* A seat operation.                                                       *)

\* The event is read and the new numbers are computed.
read(a, operation, by) ==
    /\ operation \in Does(a) /\ ops < MaxOps /\ Step(a, "idle", "read")
    /\ numbers' = [numbers EXCEPT ![a] = [c \in DOMAIN by |-> db[c] + by[c]]]
    /\ cause' = IF Still /\ DOMAIN by = Columns /\ a # "cleanup" THEN {}
                ELSE IF Busy # {} THEN cause \cup {"overlapped"} ELSE cause
    /\ ops' = ops + 1
    /\ UNCHANGED <<db, sheet, form, queue, faults>>

\* option 1, 2 or 3 of a task names the columns its numbers belong to.
Option(n) == IF DOMAIN n = Columns THEN 1 ELSE IF DOMAIN n = {"nonconfirm"} THEN 2 ELSE 3
Target(option) == CASE option = 1 -> Columns
                    [] option = 2 -> {"nonconfirm"}
                    [] option = 3 -> {"free"}

\* The stream keeps MaxMsgs messages: a further one pushes out the oldest.
Store(n) ==
    LET full == Len(stream) = MaxMsgs IN
    /\ stream' = Append(IF full THEN Tail(stream) ELSE stream, [option |-> Option(n), numbers |-> n])
    /\ Suspect("pushed out", full)

_publish_write_data_reserve(a) ==
    /\ a # "web" /\ Step(a, "read", "published")
    /\ Store(numbers[a])
    /\ UNCHANGED <<db, sheet, numbers, form, inflight, unacked, ops, faults>>

\* The broker refused: the numbers are written to the sheet at once ...
publish_fails(a) ==
    /\ a \in {"bot", "jobs"} /\ Step(a, "read", "refused") /\ Fault
    /\ UNCHANGED <<db, sheet, numbers, form, queue, cause, ops>>

\* ... but the clean-up rolls back, and tries the ticket again a minute later.
cleanup_rolls_back ==
    /\ Step("cleanup", "read", "idle") /\ Fault
    /\ UNCHANGED <<db, sheet, numbers, form, queue, cause, ops>>

Pending == stream # <<>> \/ inflight # NoTask \/ unacked # <<>>

\* A task is written cell by cell to the columns of its option.
Bug_next_column(row, task) ==
    IF task.option = 3 THEN [row EXCEPT !["nonconfirm"] = task.numbers["free"]]
    ELSE Over(row, task.numbers)

\* SheetTellsTruth: the numbers of option 3 go into the other pair of columns.
Written(row, task) ==
    [c \in Columns |-> IF c \in Target(task.option) THEN task.numbers[c] ELSE row[c]]

write_data_reserve(a) ==
    /\ Step(a, "refused", "published")
    /\ sheet' = Written(sheet, [option |-> Option(numbers[a]), numbers |-> numbers[a]])
    /\ Suspect("overtook", Pending)
    /\ UNCHANGED <<db, numbers, form, queue, ops, faults>>

\* ... and every error of that is swallowed.
write_data_reserve_fails(a) ==
    /\ Step(a, "refused", "published") /\ Fault
    /\ Suspect("not written", TRUE)
    /\ UNCHANGED <<db, sheet, numbers, form, queue, ops>>

update_schedule_event(a) ==
    /\ a # "web" /\ Step(a, "published", "idle")
    /\ db' = Over(db, numbers[a])
    /\ UNCHANGED <<sheet, numbers, form, queue, cause, ops, faults>>

\* The commit fails, or the process dies, after the numbers were published.
update_schedule_event_fails(a) ==
    /\ a # "web" /\ Step(a, "published", "idle") /\ Fault
    /\ Suspect("not committed", TRUE)
    /\ UNCHANGED <<db, sheet, numbers, form, queue, ops>>

\* The form commits the counters with the ticket, then publishes them; a
\* failure to publish is logged and nothing else is tried.
post_booking_form ==
    \/ /\ Step("web", "read", "committed")
       /\ db' = Over(db, numbers["web"])
       /\ UNCHANGED <<sheet, numbers, form, queue, cause, ops, faults>>
    \/ /\ Step("web", "committed", "idle")
       /\ Store(numbers["web"])
       /\ UNCHANGED <<db, sheet, numbers, form, inflight, unacked, ops, faults>>
    \/ /\ Step("web", "committed", "idle") /\ Fault
       /\ Suspect("not published", TRUE)
       /\ UNCHANGED <<db, sheet, numbers, form, queue, ops>>

\* An admin opens a showing in the form, and saves it.
schedule_update_start ==
    /\ pc["bot"] = "idle" /\ ops < MaxOps /\ ops' = ops + 1
    /\ form' = db
    /\ UNCHANGED <<db, sheet, pc, numbers, queue, cause, faults>>

handle_confirm_save ==
    /\ pc["bot"] = "idle" /\ form # <<>>
    /\ db' = form /\ form' = <<>>
    /\ Suspect("saved", db' # db)
    /\ UNCHANGED <<sheet, pc, numbers, queue, ops, faults>>
-----------------------------------------------------------------------------
(* The worker.                                                             *)

\* The next message; one that was not acknowledged comes back when ack_wait
\* has passed, before or after newer ones.
deliver ==
    /\ inflight = NoTask
    /\ \/ /\ stream # <<>>
          /\ inflight' = [task |-> Head(stream), done |-> FALSE] /\ stream' = Tail(stream)
          /\ Suspect("came again late", unacked # <<>>)
          /\ UNCHANGED unacked
       \/ /\ unacked # <<>>
          /\ inflight' = [task |-> Head(unacked), done |-> FALSE] /\ unacked' = Tail(unacked)
          /\ UNCHANGED <<stream, cause>>
    /\ UNCHANGED <<actors, sheet, faults>>

Given == inflight # NoTask /\ ~inflight.done
Done  == inflight' = [inflight EXCEPT !.done = TRUE]

handle_gspread_task ==
    /\ Given /\ Done
    /\ sheet' = Written(sheet, inflight.task)
    /\ UNCHANGED <<actors, stream, unacked, cause, faults>>

\* Google refuses, or the event's row is not found: logged, and acknowledged.
handle_gspread_task_fails ==
    /\ Given /\ Done /\ Fault
    /\ Suspect("not written", TRUE)
    /\ UNCHANGED <<actors, sheet, stream, unacked>>

ack ==
    /\ inflight # NoTask /\ inflight.done
    /\ inflight' = NoTask
    /\ UNCHANGED <<actors, sheet, stream, unacked, cause, faults>>

worker_crashes ==
    /\ inflight # NoTask /\ Fault
    /\ unacked' = Append(unacked, inflight.task) /\ inflight' = NoTask
    /\ UNCHANGED <<actors, sheet, stream, cause>>

\* The stream is that of every subject and keeps 100 messages for seven days:
\* those of the other subjects push tasks out too, and so does time.
discard ==
    /\ Fault /\ Suspect("pushed out", TRUE)
    /\ \/ unacked # <<>> /\ unacked' = Tail(unacked) /\ UNCHANGED stream
       \/ unacked = <<>> /\ stream # <<>> /\ stream' = Tail(stream) /\ UNCHANGED unacked
    /\ UNCHANGED <<actors, sheet, inflight>>
-----------------------------------------------------------------------------
(* The schedule is loaded from the sheet.                                  *)

Bug_column_left_out(row) == [row EXCEPT !["nonconfirm"] = 0]

\* ReloadKeepsCounters: the unconfirmed seats are not among the columns taken.
to_dto(row) == row

load_schedule_events ==
    /\ ops < MaxOps /\ Step("bot", "idle", "loaded")
    /\ numbers' = [numbers EXCEPT !["bot"] = to_dto(sheet)]
    /\ Suspect("reloaded", ~Still)
    /\ ops' = ops + 1
    /\ UNCHANGED <<db, sheet, form, queue, faults>>

update_schedule_events_from_googlesheets ==
    /\ Step("bot", "loaded", "idle")
    /\ db' = numbers["bot"]
    /\ UNCHANGED <<sheet, numbers, form, queue, cause, ops, faults>>

\* An event of a play the database does not know: all of it is rolled back.
update_schedule_event_data_fails ==
    /\ Step("bot", "loaded", "idle") /\ Fault
    /\ UNCHANGED <<db, sheet, numbers, form, queue, cause, ops>>
-----------------------------------------------------------------------------
Next ==
    \/ \E a \in Actors : \E operation \in DOMAIN Changes :
          \E by \in Changes[operation] : read(a, operation, by)
    \/ \E a \in Actors : _publish_write_data_reserve(a)
    \/ \E a \in Actors : publish_fails(a)
    \/ \E a \in Actors : write_data_reserve(a)
    \/ \E a \in Actors : write_data_reserve_fails(a)
    \/ \E a \in Actors : update_schedule_event(a)
    \/ \E a \in Actors : update_schedule_event_fails(a)
    \/ cleanup_rolls_back \/ post_booking_form
    \/ schedule_update_start \/ handle_confirm_save
    \/ deliver \/ handle_gspread_task \/ handle_gspread_task_fails
    \/ ack \/ worker_crashes \/ discard
    \/ load_schedule_events
    \/ update_schedule_events_from_googlesheets
    \/ update_schedule_event_data_fails

\* Once everything is still, the sheet shows the counters of the database,
\* unless two operations overlapped, one of them was published and not
\* committed or committed and not published, a write was refused or overtook
\* an older one, a task came again after newer ones or was pushed out of the
\* stream, the sheet was loaded while tasks were pending, or a form was saved
\* that had been opened before other counters were committed
\* (db/db_googlesheets.py 95-103 and 342-644, api/gspread_worker.py,
\* handlers/schedule_hl.py 222-256 and 1015-1027).  A later operation on all
\* the columns, by itself, puts any of these right (the clean-up's is not
\* counted on).
SheetTellsTruth == Still /\ cause = {} => sheet = db

\* Loading the schedule from the sheet leaves the counters as they are, unless
\* one of those things happened: seats booked or given back meanwhile are not
\* forgotten without one (handlers/sub_hl.py 216-247).
Loads == update_schedule_events_from_googlesheets /\ cause = {} => db' = db
ReloadKeepsCounters == [][Loads]_vars

Spec == Init /\ [][Next]_vars
=============================================================================
