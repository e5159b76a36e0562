----------------------------- MODULE Reminders ------------------------------
(***************************************************************************)
(* The reminder a day before an event.  When the schedule is loaded from   *)
(* the spreadsheet, schedule/scheduler_jobs.py sets one job for each event *)
(* that is on sale, 25 hours before it, or in ten seconds if that moment   *)
(* is past and four hours are left; a job set anew replaces the old one,   *)
(* and an event taken off sale loses its job.  The job                     *)
(* (schedule/worker_jobs.py, send_reminder) reads the event with its       *)
(* tickets once, and for every ticket that was paid then and not reminded  *)
(* sends a message and commits the mark; if either fails it waits and      *)
(* tries both a second time, and a failure of that ends the job.           *)
(*                                                                         *)
(* The jobs are kept in the database, so that they survive a restart; one  *)
(* that falls due while the bot is down is not made up for (external:      *)
(* APScheduler).                                                           *)
(***************************************************************************)
EXTENDS Integers, FiniteSets

CONSTANTS
    Tickets,    \* the tickets of one event
    MaxReloads, \* bound: loads of the schedule
    MaxFaults   \* bound: failures of any kind

VARIABLES
    time,       \* more than 25 hours to the event, more than 4, or less
    job,        \* the event's job is set
    status,     \* each ticket: created, paid (PAID, APPROVED), closed
    blocked,    \* tickets of users who have blocked the bot
    reminded,   \* reminded_1d_at is set
    run,        \* the job's loop: the tickets it found due, those left, the
                \* one being sent and at which attempt
    got,        \* how often each ticket's user was reminded
    slipped,    \* ... of these, how often without a mark
    ended,      \* the last run of the job was brought down
    up, reloads, faults

vars == <<time, job, status, blocked, reminded, run, got, slipped, ended, up, reloads, faults>>
env  == <<status, blocked>>
told == <<reminded, got, slipped>>

Idle == [on |-> FALSE, due |-> {}, left |-> {}, at |-> {}, try |-> 1]

RemindersOK ==
    /\ time \in {"far", "day", "late"} /\ job \in BOOLEAN /\ up \in BOOLEAN
    /\ status \in [Tickets -> {"created", "paid", "closed"}]
    /\ blocked \subseteq Tickets /\ reminded \subseteq Tickets
    /\ run.at \subseteq run.due /\ run.left \subseteq Tickets /\ Cardinality(run.at) <= 1
    /\ run.try \in 1..2 /\ (~run.on => run = Idle)

Init ==
    /\ time = "far" /\ job = FALSE
    /\ status \in [Tickets -> {"created", "paid"}] /\ blocked \in SUBSET Tickets
    /\ reminded = {} /\ run = Idle
    /\ got = [t \in Tickets |-> 0] /\ slipped = [t \in Tickets |-> 0]
    /\ ended = FALSE /\ up = TRUE /\ reloads = 0 /\ faults = 0

Fault == faults < MaxFaults /\ faults' = faults + 1
-----------------------------------------------------------------------------
(* The schedule is loaded; the clock.                                      *)

schedule_notification_job(flag_turn_on_off) ==
    /\ up /\ reloads < MaxReloads /\ reloads' = reloads + 1
    /\ job' = IF ~flag_turn_on_off THEN FALSE ELSE IF time = "late" THEN job ELSE TRUE
    /\ UNCHANGED <<time, env, told, run, ended, up, faults>>

\* 25 hours before the event a job that was set falls due; with the bot down
\* it is dropped when the bot is up again.
tick ==
    /\ time # "late"
    /\ time' = IF time = "far" THEN "day" ELSE "late"
    /\ job' = (job /\ up)
    /\ UNCHANGED <<env, told, run, ended, up, reloads, faults>>

\* A ticket is paid, or closed (cancelled, migrated, refunded).
pay(t) ==
    /\ status[t] = "created" /\ status' = [status EXCEPT ![t] = "paid"]
    /\ UNCHANGED <<time, job, blocked, told, run, ended, up, reloads, faults>>
close(t) ==
    /\ status[t] # "closed" /\ status' = [status EXCEPT ![t] = "closed"]
    /\ UNCHANGED <<time, job, blocked, told, run, ended, up, reloads, faults>>
-----------------------------------------------------------------------------
(* The job.                                                                *)

Bug_every_paid == {t \in Tickets : status[t] = "paid"} \ blocked

\* TwiceOnlyUnmarked: the mark of an earlier run is not looked at.
Due == {t \in Tickets : status[t] = "paid" /\ t \notin reminded /\ t \notin blocked}

send_reminder ==
    /\ up /\ job /\ time # "far" /\ ~run.on
    /\ job' = FALSE
    /\ run' = [Idle EXCEPT !.on = TRUE, !.due = Due, !.left = Tickets]
    /\ ended' = FALSE
    /\ UNCHANGED <<time, env, told, up, reloads, faults>>

\* A job that falls due while it still runs is passed over.
send_reminder_again ==
    /\ up /\ job /\ time # "far" /\ run.on
    /\ job' = FALSE
    /\ UNCHANGED <<time, env, told, run, ended, up, reloads, faults>>

Bug_return(t) == [Idle EXCEPT !.on = FALSE]

\* DueIsReminded: the first ticket of a user who blocked the bot ends the loop.
PassOver(t) == [run EXCEPT !.left = @ \ {t}]

next_ticket(t) ==
    /\ up /\ run.on /\ run.at = {} /\ t \in run.left
    /\ run' = IF t \in run.due THEN [run EXCEPT !.left = @ \ {t}, !.at = {t}, !.try = 1]
              ELSE PassOver(t)
    /\ UNCHANGED <<time, job, env, told, ended, up, reloads, faults>>

Sent(t) == got' = [got EXCEPT ![t] = @ + 1]

send_remainder_msg(t) ==
    /\ up /\ t \in run.at
    /\ Sent(t) /\ reminded' = reminded \cup {t}
    /\ run' = [run EXCEPT !.at = {}]
    /\ UNCHANGED <<time, job, env, slipped, ended, up, reloads, faults>>

\* The message does not arrive; or it does, and the answer, or the commit of
\* the mark, fails.  The first failure is caught, the second ends the job.
send_remainder_msg_fails(t) ==
    /\ up /\ t \in run.at /\ Fault
    /\ \/ UNCHANGED <<got, slipped>>
       \/ Sent(t) /\ slipped' = [slipped EXCEPT ![t] = @ + 1]
    /\ run' = IF run.try = 1 THEN [run EXCEPT !.try = 2] ELSE Idle
    /\ ended' = (ended \/ run.try = 2)
    /\ UNCHANGED <<time, job, env, reminded, up, reloads>>

finish ==
    /\ up /\ run.on /\ run.at = {} /\ run.left = {}
    /\ run' = Idle
    /\ UNCHANGED <<time, job, env, told, ended, up, reloads, faults>>

\* A job that was running is not in the store any more.
crash ==
    /\ up /\ Fault /\ up' = FALSE
    /\ run' = Idle /\ ended' = (ended \/ run.on)
    /\ UNCHANGED <<time, job, env, told, reloads>>

restart ==
    /\ ~up /\ up' = TRUE
    /\ UNCHANGED <<time, job, env, told, run, ended, reloads, faults>>
-----------------------------------------------------------------------------
Next ==
    \/ \E on \in BOOLEAN : schedule_notification_job(on)
    \/ tick
    \/ \E t \in Tickets : pay(t)
    \/ \E t \in Tickets : close(t)
    \/ send_reminder \/ send_reminder_again
    \/ \E t \in Tickets : next_ticket(t)
    \/ \E t \in Tickets : send_remainder_msg(t)
    \/ \E t \in Tickets : send_remainder_msg_fails(t)
    \/ finish \/ crash \/ restart

\* A user is reminded of a ticket more than once only by messages that went
\* out without the mark being set, however often the schedule is loaded again
\* (schedule/worker_jobs.py 35-69).
TwiceOnlyUnmarked == \A t \in Tickets : got[t] <= 1 + slipped[t]

FoundDue(t) == run.on /\ t \in run.due
Settled(t) == t \in reminded \/ ended

\* What the job found due is reminded in the end, unless the job was brought
\* down by a second failure or by a stop of the bot; in particular a user who
\* blocked the bot, or one failure, does not cost the others their reminder.
DueIsReminded == \A t \in Tickets : FoundDue(t) ~> Settled(t)

Spec == Init /\ [][Next]_vars
=============================================================================
