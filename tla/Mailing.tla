------------------------------ MODULE Mailing ------------------------------
(***************************************************************************)
(* Mailings.  An admin prepares a campaign in the bot's /sales dialog and  *)
(* starts it: the bot publishes a task, and the mailing worker, a process  *)
(* of its own, sends the message to the campaign's recipients in batches.  *)
(* The broker keeps a task until the worker has acknowledged it and hands  *)
(* it out again after a crash.  The worker marks every recipient in its    *)
(* database session and commits the marks of a batch together.             *)
(*                                                                         *)
(* The developers' mode of the dialog (/sales dev) is left out.            *)
(***************************************************************************)
EXTENDS Integers, FiniteSets

CONSTANTS
    Campaigns,    \* rows the dialog can create
    Chats,        \* chats of the users
    BatchSize,    \* BATCH_SIZE
    MaxTasks,     \* bound: tasks in all
    MaxFaults,    \* bound: crashes, database errors and lost reports
    MaxSwitches,  \* bound: changes of the users' status
    NoCampaign,
    NoChat

ASSUME MailingAssumption ==
    /\ IsFiniteSet(Campaigns) /\ IsFiniteSet(Chats)
    /\ NoCampaign \notin Campaigns /\ NoChat \notin Chats
    /\ BatchSize \in Nat \ {0}
    /\ MaxTasks \in Nat /\ MaxFaults \in Nat /\ MaxSwitches \in Nat

VARIABLES
    \* the bot: the admin's dialog
    dialog,    \* state of the conversation
    current,   \* user_data['sales']['campaign_id'], while a step uses it
    \* the database
    status,    \* SalesCampaign.status
    written,   \* campaigns with a message (message_kind)
    mark,      \* SalesRecipient.status
    blocked,   \* UserStatus: blacklisted, blocked by an admin or by himself
    \* the broker
    queue,     \* tasks of a campaign that are not acknowledged
    \* the worker
    at,        \* where it is
    task,      \* the campaign of its task
    loaded,    \* campaign.status as its session remembers it
    batch,     \* recipients of the batch still to be looked at
    chat,      \* the recipient it is sending to
    flushed,   \* marks its session has not committed
    tally,     \* total_sent, total_failed, total_blocked
    \* outside and history
    copies,    \* messages that arrived
    reported,  \* totals of the reports the admins have got
    gaveUp,    \* campaigns with a task that ended in an error
    tasks, faults, switches

botVars    == <<dialog, current>>
dbVars     == <<status, written, mark>>
workVars   == <<task, loaded, batch, chat, flushed, tally>>
countVars  == <<tasks, faults, switches>>
vars == <<botVars, dbVars, blocked, queue, at, workVars, copies, reported,
          gaveUp, countVars>>

Statuses == {"none", "draft", "running", "done", "canceled", "failed"}
Fates    == {"sent", "failed", "blocked"}
NoMarks  == [h \in Chats |-> "none"]
NoTally  == [f \in Fates |-> 0]

\* A mistake that MarksTellTruth finds: an error counts as success.
Bug_no_error == [delivered |-> "sent", forbidden |-> "blocked",
                 lost |-> "sent", timeout |-> "sent"]

\* What a call of Telegram may come to: the message arrives; the user has
\* blocked the bot; too many messages; an error; a time-out after it arrived.
Outcomes == {"delivered", "forbidden", "flood", "lost", "timeout"}
Fate == [delivered |-> "sent", forbidden |-> "blocked",
         lost |-> "failed", timeout |-> "failed"]

Pending(c) == {h \in Chats : mark[c][h] = "pending"}
Marked(c, f) == {h \in Chats : mark[c][h] = f}

Init ==
    /\ dialog = "idle" /\ current = NoCampaign
    /\ status = [c \in Campaigns |-> "none"]
    /\ written = {}
    /\ mark = [c \in Campaigns |-> NoMarks]
    /\ blocked = {}
    /\ queue = [c \in Campaigns |-> 0]
    /\ at = "idle" /\ task = NoCampaign /\ loaded = "none"
    /\ batch = {} /\ chat = NoChat /\ flushed = NoMarks /\ tally = NoTally
    /\ copies = [c \in Campaigns |-> [h \in Chats |-> 0]]
    /\ reported = [c \in Campaigns |-> NoTally]
    /\ gaveUp = {}
    /\ tasks = 0 /\ faults = 0 /\ switches = 0

-----------------------------------------------------------------------------
(* The dialog.  The bot handles one update at a time; the steps of         *)
(* preview_action, "run", are cut at its commits and at the publication.   *)

\* TypeOK: the campaign of an earlier dialog is not forgotten.
Bug_leaks_campaign ==
    /\ dialog \notin {"publish", "notPublished"}
    /\ dialog' = "setup" /\ UNCHANGED current
    /\ UNCHANGED <<dbVars, blocked, queue, at, workVars, copies, reported,
                   gaveUp, countVars>>

\* /sales starts over, whatever an earlier dialog was doing.
start_sales ==
    /\ dialog \notin {"publish", "notPublished"}
    /\ dialog' = "setup" /\ current' = NoCampaign
    /\ UNCHANGED <<dbVars, blocked, queue, at, workVars, copies, reported,
                   gaveUp, countVars>>

\* The audience is chosen: a new campaign with a snapshot of its recipients,
\* each chat once, and the admin is asked for the message.
show_build_audience(c, audience) ==
    /\ dialog = "setup"
    /\ status[c] = "none"
    /\ dialog' = "message" /\ current' = c
    /\ status' = [status EXCEPT ![c] = "draft"]
    /\ mark' = [mark EXCEPT ![c] = [h \in Chats |->
                   IF h \in audience THEN "pending" ELSE "none"]]
    /\ UNCHANGED <<written, blocked, queue, at, workVars, copies, reported,
                   gaveUp, countVars>>

\* The message is stored and shown.
handle_admin_message ==
    /\ dialog = "message"
    /\ dialog' = "preview"
    /\ written' = written \cup {current}
    /\ UNCHANGED <<current, status, mark, blocked, queue, at, workVars,
                   copies, reported, gaveUp, countVars>>

\* "edit_text", "edit_schedules" or the way back to an earlier step.
Edit(step) ==
    /\ \/ dialog = "preview" /\ step \in {"message", "setup"}
       \/ dialog = "message" /\ step = "setup"
    /\ dialog' = step
    /\ current' = IF step = "setup" THEN NoCampaign ELSE current
    /\ UNCHANGED <<dbVars, blocked, queue, at, workVars, copies, reported,
                   gaveUp, countVars>>

\* "cancel" of the preview; the cancel buttons of the other steps only end
\* the dialog.
CancelPreview ==
    /\ dialog = "preview"
    /\ dialog' = "idle" /\ current' = NoCampaign
    /\ status' = [status EXCEPT ![current] = "canceled"]
    /\ UNCHANGED <<written, mark, blocked, queue, at, workVars,
                   copies, reported, gaveUp, countVars>>

cancel ==
    /\ dialog \in {"setup", "message"}
    /\ dialog' = "idle" /\ current' = NoCampaign
    /\ UNCHANGED <<dbVars, blocked, queue, at, workVars, copies, reported,
                   gaveUp, countVars>>

\* DraftIsQuiet: the status is set and not committed.
Bug_no_commit ==
    /\ dialog = "preview" /\ tasks < MaxTasks
    /\ current \in written /\ Pending(current) # {}
    /\ dialog' = "publish"
    /\ UNCHANGED <<current, dbVars, blocked, queue, at, workVars, copies,
                   reported, gaveUp, countVars>>

\* "run": without a message or without pending recipients the admin is told
\* so and nothing happens.
Run ==
    /\ dialog = "preview" /\ tasks < MaxTasks
    /\ current \in written
    /\ Pending(current) # {}
    /\ dialog' = "publish"
    /\ status' = [status EXCEPT ![current] = "running"]
    /\ UNCHANGED <<current, written, mark, blocked, queue, at, workVars,
                   copies, reported, gaveUp, countVars>>

\* The publication succeeds, or raises; when only the answer of the broker
\* was lost, the task is stored all the same.
publish_sales ==
    /\ dialog = "publish"
    /\ \E stored, raises \in BOOLEAN :
          /\ stored \/ raises
          /\ dialog' = IF raises THEN "notPublished" ELSE "idle"
          /\ current' = IF raises THEN current ELSE NoCampaign
          /\ queue' = [queue EXCEPT ![current] = @ + (IF stored THEN 1 ELSE 0)]
          /\ tasks' = tasks + (IF stored THEN 1 ELSE 0)
    /\ UNCHANGED <<dbVars, blocked, at, workVars, copies, reported, gaveUp,
                   faults, switches>>

RunFailed ==
    /\ dialog = "notPublished"
    /\ dialog' = "preview"
    /\ status' = [status EXCEPT ![current] = "failed"]
    /\ UNCHANGED <<current, written, mark, blocked, queue, at, workVars,
                   copies, reported, gaveUp, countVars>>

\* The bot dies between two steps of "run", or cannot write "failed": the
\* persisted dialog is still at its preview.
BotCrash ==
    /\ faults < MaxFaults
    /\ dialog \in {"publish", "notPublished"}
    /\ dialog' = "preview"
    /\ faults' = faults + 1
    /\ UNCHANGED <<current, dbVars, blocked, queue, at, workVars, copies,
                   reported, gaveUp, tasks, switches>>

\* A user blocks or unblocks the bot, or an admin sets his status.
update_user_status(h) ==
    /\ switches < MaxSwitches
    /\ blocked' = IF h \in blocked THEN blocked \ {h} ELSE blocked \cup {h}
    /\ switches' = switches + 1
    /\ UNCHANGED <<botVars, dbVars, queue, at, workVars, copies, reported,
                   gaveUp, tasks, faults>>

-----------------------------------------------------------------------------
(* The worker: handle_sales_task, cut at its reads, its calls of Telegram  *)
(* and its commits.                                                        *)

Take(c) ==
    /\ at = "idle" /\ queue[c] > 0
    /\ at' = "loop"
    /\ task' = c /\ loaded' = status[c] /\ tally' = NoTally
    /\ UNCHANGED <<botVars, dbVars, blocked, queue, batch, chat, flushed,
                   copies, reported, gaveUp, countVars>>

\* SettledStaysSettled: the SELECT forgets the status.
Bug_selects_all(c) ==
    {rows \in SUBSET {h \in Chats : mark[c][h] # "none"} :
        Cardinality(rows) = BatchSize}

\* What the SELECT may return: any recipients whose status is pending.
iter_recipients_for_send(c) ==
    LET n == Cardinality(Pending(c)) IN
    {rows \in SUBSET Pending(c) :
        Cardinality(rows) = IF n < BatchSize THEN n ELSE BatchSize}

FetchBatch ==
    /\ at = "loop" /\ Pending(task) # {}
    /\ batch' \in iter_recipients_for_send(task)
    /\ at' = "next"
    /\ UNCHANGED <<botVars, dbVars, blocked, queue, task, loaded, chat,
                   flushed, tally, copies, reported, gaveUp, countVars>>

\* The session marks a recipient, and one of the totals goes up.
mark_recipient_status(h, fate) ==
    /\ flushed' = [flushed EXCEPT ![h] = fate]
    /\ tally' = [tally EXCEPT ![fate] = @ + 1]
    /\ chat' = NoChat
    /\ at' = "next"

\* ReportsAddUp: total_blocked is not counted.
Bug_not_counted(h) ==
    /\ at = "next" /\ h \in batch
    /\ batch' = batch \ {h}
    /\ \/ /\ h \in blocked
          /\ flushed' = [flushed EXCEPT ![h] = "blocked"]
          /\ UNCHANGED <<at, chat, tally>>
       \/ /\ h \notin blocked
          /\ at' = "send" /\ chat' = h
          /\ UNCHANGED <<flushed, tally>>
    /\ UNCHANGED <<botVars, dbVars, blocked, queue, task, loaded, copies,
                   reported, gaveUp, countVars>>


\* A recipient whose status forbids it gets no message.
CheckStatus(h) ==
    /\ at = "next" /\ h \in batch
    /\ batch' = batch \ {h}
    /\ \/ /\ h \in blocked
          /\ mark_recipient_status(h, "blocked")
       \/ /\ h \notin blocked
          /\ at' = "send" /\ chat' = h
          /\ UNCHANGED <<flushed, tally>>
    /\ UNCHANGED <<botVars, dbVars, blocked, queue, task, loaded, copies,
                   reported, gaveUp, countVars>>

Arrives(outcome) ==
    copies' = IF outcome \in {"delivered", "timeout"}
              THEN [copies EXCEPT ![task][chat] = @ + 1] ELSE copies

\* Flood control makes the worker wait and try once more.
_send_to_chat ==
    /\ at = "send"
    /\ \E outcome \in Outcomes :
          /\ Arrives(outcome)
          /\ \/ /\ outcome = "flood"
                /\ at' = "retry"
                /\ UNCHANGED <<flushed, tally, chat>>
             \/ /\ outcome # "flood"
                /\ mark_recipient_status(chat, Fate[outcome])
    /\ UNCHANGED <<botVars, dbVars, blocked, queue, task, loaded, batch,
                   reported, gaveUp, countVars>>

\* Of the second try every error is a failure.
Retry ==
    /\ at = "retry"
    /\ \E outcome \in Outcomes :
          /\ Arrives(outcome)
          /\ mark_recipient_status(chat,
                IF outcome = "delivered" THEN "sent" ELSE "failed")
    /\ UNCHANGED <<botVars, dbVars, blocked, queue, task, loaded, batch,
                   reported, gaveUp, countVars>>

\* The marks once the session's are written.
Written == [mark EXCEPT ![task] = [h \in Chats |->
               IF flushed[h] = "none" THEN @[h] ELSE flushed[h]]]

CommitBatch ==
    /\ at = "next" /\ batch = {}
    /\ mark' = Written
    /\ flushed' = NoMarks
    /\ at' = "loop"
    /\ UNCHANGED <<botVars, status, written, blocked, queue, task, loaded,
                   batch, chat, tally, copies, reported, gaveUp, countVars>>

\* Assigning the value the session remembers writes nothing.
SetStatus(s) ==
    /\ status' = IF loaded = s THEN status ELSE [status EXCEPT ![task] = s]
    /\ loaded' = s

\* DoneIsComplete: a short batch is taken for the last one.
Bug_ends_early ==
    /\ at = "loop" /\ Cardinality(Pending(task)) < BatchSize
    /\ SetStatus("done")
    /\ at' = "report"
    /\ UNCHANGED <<botVars, written, mark, blocked, queue, task, batch, chat,
                   flushed, tally, copies, reported, gaveUp, countVars>>

Finish ==
    /\ at = "loop" /\ Pending(task) = {}
    /\ SetStatus("done")
    /\ at' = "report"
    /\ UNCHANGED <<botVars, written, mark, blocked, queue, task, batch, chat,
                   flushed, tally, copies, reported, gaveUp, countVars>>

\* sales_report; an error of the publication is only logged.
Report ==
    /\ at = "report"
    /\ at' = "ack"
    /\ \/ /\ reported' = [reported EXCEPT ![task] =
                            [f \in Fates |-> @[f] + tally[f]]]
          /\ UNCHANGED faults
       \/ /\ faults < MaxFaults
          /\ faults' = faults + 1
          /\ UNCHANGED reported
    /\ UNCHANGED <<botVars, dbVars, blocked, queue, workVars, copies, gaveUp,
                   tasks, switches>>

\* What is left of the handler's session when it ends.
Forget ==
    /\ at' = "idle" /\ task' = NoCampaign /\ loaded' = "none"
    /\ batch' = {} /\ chat' = NoChat /\ flushed' = NoMarks /\ tally' = NoTally

\* The handler returns and the task is acknowledged.
Ack ==
    /\ at = "ack"
    /\ queue' = [queue EXCEPT ![task] = @ - 1]
    /\ Forget
    /\ UNCHANGED <<botVars, dbVars, blocked, copies, reported, gaveUp,
                   countVars>>

\* An error outside the database, between two batches: the campaign is
\* marked as failed.
TaskFails ==
    /\ at = "loop" /\ faults < MaxFaults
    /\ SetStatus("failed")
    /\ at' = "ack"
    /\ gaveUp' = gaveUp \cup {task}
    /\ faults' = faults + 1
    /\ UNCHANGED <<botVars, written, mark, blocked, queue, task, batch, chat,
                   flushed, tally, copies, reported, tasks, switches>>

\* A statement or a commit fails (the commit may have been carried out).  The
\* handlers of the error use the same session, which is not rolled back: they
\* fail too, the campaign keeps its status, and the task is acknowledged.
DatabaseFails ==
    /\ at \in {"loop", "next"} /\ faults < MaxFaults
    /\ mark' \in {mark} \cup (IF at = "next" /\ batch = {} THEN {Written}
                                                           ELSE {})
    /\ flushed' = NoMarks /\ batch' = {}
    /\ at' = "ack"
    /\ gaveUp' = gaveUp \cup {task}
    /\ faults' = faults + 1
    /\ UNCHANGED <<botVars, status, written, blocked, queue, task, loaded,
                   chat, tally, copies, reported, tasks, switches>>

\* The worker dies; the broker hands the task out again.
Crash ==
    /\ at # "idle" /\ faults < MaxFaults
    /\ faults' = faults + 1
    /\ Forget
    /\ UNCHANGED <<botVars, dbVars, blocked, queue, copies, reported, gaveUp,
                   tasks, switches>>

-----------------------------------------------------------------------------
Dialog ==
    \/ start_sales \/ handle_admin_message \/ CancelPreview \/ cancel
    \/ Run \/ publish_sales \/ RunFailed \/ BotCrash
    \/ \E step \in {"message", "setup"} : Edit(step)
    \/ \E c \in Campaigns, audience \in SUBSET Chats :
          show_build_audience(c, audience)

handle_sales_task ==
    \/ \E c \in Campaigns : Take(c)
    \/ \E h \in Chats : CheckStatus(h)
    \/ FetchBatch \/ _send_to_chat \/ Retry \/ CommitBatch \/ Finish
    \/ Report \/ Ack

Next ==
    \/ Dialog
    \/ handle_sales_task
    \/ TaskFails \/ DatabaseFails \/ Crash
    \/ \E h \in Chats : update_user_status(h)

Spec == Init /\ [][Next]_vars

\* The worker runs whenever there is a task: it is restarted when it ends
\* (restart: unless-stopped), and the broker hands tasks out in order.
FairSpec == Spec /\ WF_vars(handle_sales_task)

-----------------------------------------------------------------------------
(* What mailings promise.                                                  *)

\* Every variable has values of its type.
TypeOK ==
    /\ dialog \in {"idle", "setup", "message", "preview", "publish",
                   "notPublished"}
    /\ IF dialog \in {"idle", "setup"} THEN current = NoCampaign
                                       ELSE current \in Campaigns
    /\ status \in [Campaigns -> Statuses]
    /\ written \subseteq Campaigns
    /\ mark \in [Campaigns -> [Chats -> Fates \cup {"none", "pending"}]]
    /\ blocked \subseteq Chats
    /\ queue \in [Campaigns -> Nat]
    /\ at \in {"idle", "loop", "next", "send", "retry", "report", "ack"}
    /\ IF at = "idle" THEN task = NoCampaign ELSE task \in Campaigns
    /\ loaded \in Statuses
    /\ batch \subseteq Chats
    /\ IF at \in {"send", "retry"} THEN chat \in Chats ELSE chat = NoChat
    /\ flushed \in [Chats -> Fates \cup {"none"}]
    /\ tally \in [Fates -> Nat]
    /\ copies \in [Campaigns -> [Chats -> Nat]]
    /\ reported \in [Campaigns -> [Fates -> Nat]]
    /\ gaveUp \subseteq Campaigns
    /\ tasks \in Nat /\ faults \in Nat /\ switches \in Nat

\* What a committed mark says is true: a recipient marked as sent got the
\* message; more than one copy, and a copy in spite of the mark "blocked",
\* comes only from marks that a crash or an error kept from being committed.
MarksTellTruth ==
    \A c \in Campaigns, h \in Chats :
        /\ copies[c][h] <= 1 + faults
        /\ mark[c][h] = "sent" => copies[c][h] > 0
        /\ mark[c][h] = "blocked" => copies[c][h] <= faults

\* A recipient whose fate is committed is left alone: no later task or
\* redelivery of the campaign sends to him or changes the mark.
SettledStaysSettled ==
    [][\A c \in Campaigns, h \in Chats :
          mark[c][h] \in Fates => /\ mark'[c][h] = mark[c][h]
                                  /\ copies'[c][h] = copies[c][h]]_vars

\* Nothing of a campaign goes out before the admin has started it.
DraftIsQuiet ==
    \A c \in Campaigns : status[c] \in {"none", "draft"} =>
        /\ queue[c] = 0
        /\ \A h \in Chats : copies[c][h] = 0 /\ mark[c][h] \notin Fates

\* A campaign that is done has no recipient left.
DoneIsComplete ==
    \A c \in Campaigns : status[c] = "done" => Pending(c) = {}

\* The reports never claim more than the marks, and after a campaign without
\* a fault they add up to them.
ReportsAddUp ==
    \A c \in Campaigns, f \in Fates :
        LET marked == Cardinality(Marked(c, f)) IN
        /\ reported[c][f] <= marked
        /\ faults = 0 /\ queue[c] = 0 => reported[c][f] = marked

=============================================================================
