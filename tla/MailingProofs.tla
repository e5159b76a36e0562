--------------------------- MODULE MailingProofs ---------------------------
(***************************************************************************)
(* What is proved of Mailing for any number of campaigns, chats, tasks and *)
(* faults and any size of a batch.                                         *)
(***************************************************************************)
EXTENDS Mailing, FiniteSetTheorems, TLAPS

\* A task the worker is at is not acknowledged yet.
Held == at # "idle" => queue[task] > 0

\* What is published has been started.
Started ==
    dialog \in {"publish", "notPublished"}
        => status[current] \notin {"none", "draft"}

\* Between two batches the session has nothing to commit.
Clean ==
    at \notin {"next", "send", "retry"} => batch = {} /\ flushed = NoMarks

\* The recipients of the batch, the one being sent to and the marked ones are
\* apart, and all of them are pending in the database.
Work(h) ==
    /\ h \in batch => mark[task][h] = "pending" /\ flushed[h] = "none"
    /\ flushed[h] # "none" => mark[task][h] = "pending"
    /\ chat = h => /\ h \notin batch /\ flushed[h] = "none"
                   /\ mark[task][h] = "pending"

\* A recipient got at most one copy more than there were faults, and that one
\* only if he is marked so, in the database or in the session.
Counted(c, h) ==
    \/ mark[c][h] \in {"sent", "failed"}
    \/ c = task /\ flushed[h] \in {"sent", "failed"}

Honest(c, h) ==
    /\ copies[c][h] <= 1 + faults
    /\ copies[c][h] <= faults \/ Counted(c, h)
    /\ mark[c][h] = "sent" => copies[c][h] > 0
    /\ c = task /\ flushed[h] = "sent" => copies[c][h] > 0

Session ==
    /\ Held
    /\ Clean
    /\ \A h \in Chats : Work(h)

Lifecycle ==
    /\ Started
    /\ DraftIsQuiet
    /\ DoneIsComplete

IInv ==
    /\ TypeOK
    /\ Session
    /\ Lifecycle
    /\ \A c \in Campaigns, h \in Chats : Honest(c, h)

-----------------------------------------------------------------------------
(* The initial state, and one lemma for each action.                       *)

LEMMA start_salesStep ==
    ASSUME IInv, start_sales
    PROVE  IInv'
<1>1. TypeOK'
  BY DEF IInv, TypeOK, start_sales, dbVars, workVars, countVars
<1>2. Session'
  BY DEF IInv, TypeOK, Session, Held, Clean, Work, start_sales, dbVars,
     workVars, countVars
<1>3. Lifecycle'
  BY DEF IInv, TypeOK, Lifecycle, Started, DraftIsQuiet, DoneIsComplete,
     Pending, start_sales, dbVars, workVars, countVars
<1>4. \A c \in Campaigns, h \in Chats : Honest(c, h)'
  BY DEF IInv, TypeOK, Honest, Counted, start_sales, dbVars, workVars,
     countVars, Session, Work, Clean
<1>5. QED BY <1>1, <1>2, <1>3, <1>4 DEF IInv

LEMMA show_build_audienceStep ==
    ASSUME IInv, NEW x \in Campaigns, NEW audience \in SUBSET Chats,
           show_build_audience(x, audience)
    PROVE  IInv'
<1>1. TypeOK'
  BY DEF IInv, TypeOK, Statuses, show_build_audience, workVars, countVars
<1>2. Session'
  BY MailingAssumption DEF IInv, TypeOK, Statuses, Session, Held, Clean,
     Work, show_build_audience, workVars, countVars, Lifecycle, DraftIsQuiet
<1>3. Lifecycle'
  BY MailingAssumption DEF IInv, TypeOK, Fates, Statuses, Lifecycle,
     Started, DraftIsQuiet, DoneIsComplete, Pending, show_build_audience,
     workVars, countVars, Session, Held, Work
<1>4. \A c \in Campaigns, h \in Chats : Honest(c, h)'
  BY DEF IInv, TypeOK, Fates, Honest, Counted, show_build_audience,
     workVars, countVars, Session, Work, Clean, Lifecycle, DraftIsQuiet
<1>5. QED BY <1>1, <1>2, <1>3, <1>4 DEF IInv

LEMMA handle_admin_messageStep ==
    ASSUME IInv, handle_admin_message
    PROVE  IInv'
<1>1. TypeOK'
  BY DEF IInv, TypeOK, handle_admin_message, workVars, countVars
<1>2. Session'
  BY DEF IInv, TypeOK, Session, Held, Clean, Work, handle_admin_message,
     workVars, countVars
<1>3. Lifecycle'
  BY DEF IInv, TypeOK, Lifecycle, Started, DraftIsQuiet, DoneIsComplete,
     Pending, handle_admin_message, workVars, countVars, Session, Held, Work
<1>4. \A c \in Campaigns, h \in Chats : Honest(c, h)'
  BY DEF IInv, TypeOK, Honest, Counted, handle_admin_message, workVars,
     countVars, Session, Work, Clean
<1>5. QED BY <1>1, <1>2, <1>3, <1>4 DEF IInv

LEMMA EditStep ==
    ASSUME IInv, NEW step \in {"message", "setup"}, Edit(step)
    PROVE  IInv'
<1>1. TypeOK'
  BY DEF IInv, TypeOK, Edit, dbVars, workVars, countVars
<1>2. Session'
  BY DEF IInv, TypeOK, Session, Held, Clean, Work, Edit, dbVars, workVars,
     countVars
<1>3. Lifecycle'
  BY DEF IInv, TypeOK, Lifecycle, Started, DraftIsQuiet, DoneIsComplete,
     Pending, Edit, dbVars, workVars, countVars
<1>4. \A c \in Campaigns, h \in Chats : Honest(c, h)'
  BY DEF IInv, TypeOK, Honest, Counted, Edit, dbVars, workVars, countVars,
     Session, Work, Clean
<1>5. QED BY <1>1, <1>2, <1>3, <1>4 DEF IInv

LEMMA CancelPreviewStep ==
    ASSUME IInv, CancelPreview
    PROVE  IInv'
<1>1. TypeOK'
  BY DEF IInv, TypeOK, Statuses, CancelPreview, workVars, countVars
<1>2. Session'
  BY DEF IInv, TypeOK, Statuses, Session, Held, Clean, Work, CancelPreview,
     workVars, countVars
<1>3. Lifecycle'
  BY DEF IInv, TypeOK, Statuses, Lifecycle, Started, DraftIsQuiet,
     DoneIsComplete, Pending, CancelPreview, workVars, countVars, Session,
     Held, Work
<1>4. \A c \in Campaigns, h \in Chats : Honest(c, h)'
  BY DEF IInv, TypeOK, Honest, Counted, CancelPreview, workVars, countVars,
     Session, Work, Clean
<1>5. QED BY <1>1, <1>2, <1>3, <1>4 DEF IInv

LEMMA cancelStep ==
    ASSUME IInv, cancel
    PROVE  IInv'
<1>1. TypeOK'
  BY DEF IInv, TypeOK, cancel, dbVars, workVars, countVars
<1>2. Session'
  BY DEF IInv, TypeOK, Session, Held, Clean, Work, cancel, dbVars, workVars,
     countVars
<1>3. Lifecycle'
  BY DEF IInv, TypeOK, Lifecycle, Started, DraftIsQuiet, DoneIsComplete,
     Pending, cancel, dbVars, workVars, countVars
<1>4. \A c \in Campaigns, h \in Chats : Honest(c, h)'
  BY DEF IInv, TypeOK, Honest, Counted, cancel, dbVars, workVars, countVars,
     Session, Work, Clean
<1>5. QED BY <1>1, <1>2, <1>3, <1>4 DEF IInv

LEMMA RunStep ==
    ASSUME IInv, Run
    PROVE  IInv'
<1>1. TypeOK'
  BY DEF IInv, TypeOK, Statuses, Run, workVars, countVars
<1>2. Session'
  BY DEF IInv, TypeOK, Statuses, Session, Held, Clean, Work, Run, workVars,
     countVars
<1>3. Lifecycle'
  BY DEF IInv, TypeOK, Statuses, Lifecycle, Started, DraftIsQuiet,
     DoneIsComplete, Pending, Run, workVars, countVars, Session, Held, Work
<1>4. \A c \in Campaigns, h \in Chats : Honest(c, h)'
  BY DEF IInv, TypeOK, Honest, Counted, Run, workVars, countVars, Session,
     Work, Clean
<1>5. QED BY <1>1, <1>2, <1>3, <1>4 DEF IInv

LEMMA publish_salesStep ==
    ASSUME IInv, publish_sales
    PROVE  IInv'
<1>1. TypeOK'
  BY DEF IInv, TypeOK, publish_sales, dbVars, workVars
<1>2. Session'
  BY DEF IInv, TypeOK, Session, Held, Clean, Work, publish_sales, dbVars,
     workVars
<1>3. Lifecycle'
  BY DEF IInv, TypeOK, Lifecycle, Started, DraftIsQuiet, DoneIsComplete,
     Pending, publish_sales, dbVars, workVars, Session, Held, Work
<1>4. \A c \in Campaigns, h \in Chats : Honest(c, h)'
  BY DEF IInv, TypeOK, Honest, Counted, publish_sales, dbVars, workVars,
     Session, Work, Clean
<1>5. QED BY <1>1, <1>2, <1>3, <1>4 DEF IInv

LEMMA RunFailedStep ==
    ASSUME IInv, RunFailed
    PROVE  IInv'
<1>1. TypeOK'
  BY DEF IInv, TypeOK, Statuses, RunFailed, workVars, countVars
<1>2. Session'
  BY DEF IInv, TypeOK, Statuses, Session, Held, Clean, Work, RunFailed,
     workVars, countVars
<1>3. Lifecycle'
  BY DEF IInv, TypeOK, Statuses, Lifecycle, Started, DraftIsQuiet,
     DoneIsComplete, Pending, RunFailed, workVars, countVars, Session, Held,
     Work
<1>4. \A c \in Campaigns, h \in Chats : Honest(c, h)'
  BY DEF IInv, TypeOK, Honest, Counted, RunFailed, workVars, countVars,
     Session, Work, Clean
<1>5. QED BY <1>1, <1>2, <1>3, <1>4 DEF IInv

LEMMA BotCrashStep ==
    ASSUME IInv, BotCrash
    PROVE  IInv'
<1>1. TypeOK'
  BY DEF IInv, TypeOK, BotCrash, dbVars, workVars
<1>2. Session'
  BY DEF IInv, TypeOK, Session, Held, Clean, Work, BotCrash, dbVars,
     workVars
<1>3. Lifecycle'
  BY DEF IInv, TypeOK, Lifecycle, Started, DraftIsQuiet, DoneIsComplete,
     Pending, BotCrash, dbVars, workVars, Session, Held, Work
<1>4. \A c \in Campaigns, h \in Chats : Honest(c, h)'
  BY DEF IInv, TypeOK, Honest, BotCrash, dbVars, workVars, Session, Work,
     Clean
<1>5. QED BY <1>1, <1>2, <1>3, <1>4 DEF IInv

LEMMA update_user_statusStep ==
    ASSUME IInv, NEW g \in Chats, update_user_status(g)
    PROVE  IInv'
<1>1. TypeOK'
  BY DEF IInv, TypeOK, update_user_status, botVars, dbVars, workVars
<1>2. Session'
  BY DEF IInv, TypeOK, Session, Held, Clean, Work, update_user_status,
     botVars, dbVars, workVars
<1>3. Lifecycle'
  BY DEF IInv, TypeOK, Lifecycle, Started, DraftIsQuiet, DoneIsComplete,
     Pending, update_user_status, botVars, dbVars, workVars, Session, Held,
     Work
<1>4. \A c \in Campaigns, h \in Chats : Honest(c, h)'
  BY DEF IInv, TypeOK, Honest, Counted, update_user_status, botVars, dbVars,
     workVars, Session, Work, Clean
<1>5. QED BY <1>1, <1>2, <1>3, <1>4 DEF IInv

LEMMA TakeStep ==
    ASSUME IInv, NEW x \in Campaigns, Take(x)
    PROVE  IInv'
<1>1. TypeOK'
  BY DEF IInv, TypeOK, Take, botVars, dbVars, countVars, NoTally
<1>2. Session'
  BY MailingAssumption DEF IInv, TypeOK, Session, Held, Clean, Work,
     NoMarks, Take, botVars, dbVars, countVars, NoTally
<1>3. Lifecycle'
  BY MailingAssumption DEF IInv, TypeOK, Lifecycle, Started, DraftIsQuiet,
     DoneIsComplete, Pending, Take, botVars, dbVars, countVars, NoTally,
     NoMarks, Session, Held, Work
<1>4. \A c \in Campaigns, h \in Chats : Honest(c, h)'
  BY MailingAssumption DEF IInv, TypeOK, Honest, Counted, Take, botVars,
     dbVars, countVars, NoMarks, Session, Work, Clean
<1>5. QED BY <1>1, <1>2, <1>3, <1>4 DEF IInv

LEMMA FetchBatchStep ==
    ASSUME IInv, FetchBatch
    PROVE  IInv'
<1>1. TypeOK'
  BY DEF IInv, TypeOK, FetchBatch, botVars, dbVars, countVars,
     iter_recipients_for_send, Pending
<1>2. Session'
  BY MailingAssumption DEF IInv, TypeOK, Session, Held, Clean, Work,
     NoMarks, FetchBatch, botVars, dbVars, countVars,
     iter_recipients_for_send, Pending
<1>3. Lifecycle'
  BY MailingAssumption DEF IInv, TypeOK, Lifecycle, Started, DraftIsQuiet,
     DoneIsComplete, Pending, FetchBatch, botVars, dbVars, NoMarks,
     iter_recipients_for_send, Session, Held, Work
<1>4. \A c \in Campaigns, h \in Chats : Honest(c, h)'
  BY DEF IInv, TypeOK, Honest, Counted, FetchBatch, botVars, dbVars,
     countVars, iter_recipients_for_send, Session, Work, Clean
<1>5. QED BY <1>1, <1>2, <1>3, <1>4 DEF IInv

LEMMA CheckStatusStep ==
    ASSUME IInv, NEW g \in Chats, CheckStatus(g)
    PROVE  IInv'
<1>1. TypeOK'
  <2>1. CASE g \in blocked
    <3>1. /\ flushed' = [flushed EXCEPT ![g] = "blocked"]
          /\ tally' = [tally EXCEPT !["blocked"] = @ + 1]
          /\ chat' = NoChat /\ at' = "next"
      BY <2>1 DEF CheckStatus, mark_recipient_status
    <3>2. tally' \in [Fates -> Nat]
      BY <3>1 DEF IInv, TypeOK, Fates
    <3> QED
      BY <3>1, <3>2 DEF IInv, TypeOK, Fates, CheckStatus, botVars, dbVars,
         countVars
  <2>2. CASE g \notin blocked
    BY <2>2 DEF IInv, TypeOK, Fates, CheckStatus, botVars, dbVars, countVars
  <2> QED BY <2>1, <2>2
<1>2. Session'
  BY DEF IInv, TypeOK, Session, Held, Clean, Work, CheckStatus, botVars,
     dbVars, countVars, mark_recipient_status
<1>3. Lifecycle'
  BY DEF IInv, TypeOK, Lifecycle, Started, DraftIsQuiet, DoneIsComplete,
     Pending, CheckStatus, botVars, dbVars, mark_recipient_status, Session,
     Held, Work
<1>4. \A c \in Campaigns, h \in Chats : Honest(c, h)'
  BY DEF IInv, TypeOK, Honest, Counted, CheckStatus, botVars, dbVars,
     countVars, mark_recipient_status, Session, Work, Clean
<1>5. QED BY <1>1, <1>2, <1>3, <1>4 DEF IInv

LEMMA send_to_chatStep ==
    ASSUME IInv, _send_to_chat
    PROVE  IInv'
<1>1. TypeOK'
  <2>1. task \in Campaigns /\ chat \in Chats
    BY DEF IInv, TypeOK, _send_to_chat
  <2>2. copies' \in [Campaigns -> [Chats -> Nat]]
    BY <2>1 DEF IInv, TypeOK, _send_to_chat, Arrives
  <2>3. CASE /\ at' = "retry"
             /\ UNCHANGED <<flushed, tally, chat>>
    BY <2>1, <2>2, <2>3 DEF IInv, TypeOK, _send_to_chat, botVars, dbVars,
       countVars
  <2>4. ASSUME NEW fate \in Fates, mark_recipient_status(chat, fate)
        PROVE  TypeOK'
    <3>1. tally' \in [Fates -> Nat]
      BY <2>4 DEF IInv, TypeOK, mark_recipient_status
    <3>2. flushed' \in [Chats -> Fates \cup {"none"}]
      BY <2>1, <2>4 DEF IInv, TypeOK, mark_recipient_status
    <3> QED
      BY <2>2, <2>4, <3>1, <3>2 DEF IInv, TypeOK, _send_to_chat,
         mark_recipient_status, botVars, dbVars, countVars
  <2> QED
    BY <2>3, <2>4 DEF _send_to_chat, Fate, Fates, Outcomes
<1>2. Session'
  BY MailingAssumption DEF IInv, TypeOK, Fates, Session, Held, Clean, Work,
     _send_to_chat, botVars, dbVars, countVars, mark_recipient_status, Fate,
     Outcomes
<1>3. Lifecycle'
  BY MailingAssumption DEF IInv, TypeOK, Fates, Lifecycle, Started,
     DraftIsQuiet, DoneIsComplete, Pending, _send_to_chat, botVars, dbVars,
     mark_recipient_status, Arrives, Fate, Outcomes, Session, Held, Work
<1>4. \A c \in Campaigns, h \in Chats : Honest(c, h)'
  BY DEF IInv, TypeOK, Honest, Counted, _send_to_chat, botVars, dbVars,
     countVars, mark_recipient_status, Arrives, Fate, Outcomes, Session,
     Work, Clean
<1>5. QED BY <1>1, <1>2, <1>3, <1>4 DEF IInv

LEMMA RetryStep ==
    ASSUME IInv, Retry
    PROVE  IInv'
<1>1. TypeOK'
  BY DEF IInv, TypeOK, Fates, Retry, botVars, dbVars, countVars,
     mark_recipient_status, Arrives
<1>2. Session'
  BY MailingAssumption DEF IInv, TypeOK, Fates, Session, Held, Clean, Work,
     Retry, botVars, dbVars, countVars, mark_recipient_status, Arrives
<1>3. Lifecycle'
  BY MailingAssumption DEF IInv, TypeOK, Fates, Lifecycle, Started,
     DraftIsQuiet, DoneIsComplete, Pending, Retry, botVars, dbVars,
     countVars, mark_recipient_status, Arrives, Session, Held, Work
<1>4. \A c \in Campaigns, h \in Chats : Honest(c, h)'
  BY DEF IInv, TypeOK, Honest, Counted, Retry, botVars, dbVars, countVars,
     mark_recipient_status, Arrives, Session, Work, Clean
<1>5. QED BY <1>1, <1>2, <1>3, <1>4 DEF IInv

LEMMA CommitBatchStep ==
    ASSUME IInv, CommitBatch
    PROVE  IInv'
<1>1. TypeOK'
  BY DEF IInv, TypeOK, CommitBatch, botVars, countVars, Written, NoMarks
<1>2. Session'
  BY DEF IInv, TypeOK, Session, Held, Clean, Work, NoMarks, CommitBatch,
     botVars, countVars, Written
<1>3. Lifecycle'
  BY DEF IInv, TypeOK, Lifecycle, Started, DraftIsQuiet, DoneIsComplete,
     Pending, CommitBatch, botVars, countVars, Written, NoMarks, Session,
     Held, Work
<1>4. \A c \in Campaigns, h \in Chats : Honest(c, h)'
  BY DEF IInv, TypeOK, Honest, Counted, CommitBatch, botVars, countVars,
     Written, NoMarks, Session, Work, Clean
<1>5. QED BY <1>1, <1>2, <1>3, <1>4 DEF IInv

LEMMA FinishStep ==
    ASSUME IInv, Finish
    PROVE  IInv'
<1>1. TypeOK'
  BY DEF IInv, TypeOK, Statuses, Finish, botVars, countVars, SetStatus
<1>2. Session'
  BY DEF IInv, TypeOK, Statuses, Session, Held, Clean, Work, Finish,
     botVars, countVars, SetStatus
<1>3. Lifecycle'
  BY DEF IInv, TypeOK, Statuses, Lifecycle, Started, DraftIsQuiet,
     DoneIsComplete, Pending, Finish, botVars, countVars, SetStatus,
     Session, Held, Work
<1>4. \A c \in Campaigns, h \in Chats : Honest(c, h)'
  BY DEF IInv, TypeOK, Honest, Counted, Finish, botVars, countVars,
     SetStatus, Session, Work, Clean
<1>5. QED BY <1>1, <1>2, <1>3, <1>4 DEF IInv

LEMMA ReportStep ==
    ASSUME IInv, Report
    PROVE  IInv'
<1>1. TypeOK'
  <2>1. reported' \in [Campaigns -> [Fates -> Nat]]
    <3>1. CASE UNCHANGED reported
      BY <3>1 DEF IInv, TypeOK
    <3>2. CASE reported' = [reported EXCEPT ![task] =
                              [f \in Fates |-> @[f] + tally[f]]]
      <4>1. task \in Campaigns
        BY DEF IInv, TypeOK, Report
      <4>2. [f \in Fates |-> reported[task][f] + tally[f]] \in [Fates -> Nat]
        BY <4>1 DEF IInv, TypeOK
      <4> QED BY <3>2, <4>1, <4>2 DEF IInv, TypeOK
    <3> QED BY <3>1, <3>2 DEF Report
  <2>2. faults' \in Nat
    BY DEF IInv, TypeOK, Report
  <2> QED
    BY <2>1, <2>2 DEF IInv, TypeOK, Report, botVars, dbVars, workVars
<1>2. Session'
  BY DEF IInv, TypeOK, Session, Held, Clean, Work, Report, botVars, dbVars,
     workVars
<1>3. Lifecycle'
  BY DEF IInv, TypeOK, Lifecycle, Started, DraftIsQuiet, DoneIsComplete,
     Pending, Report, botVars, dbVars, workVars, Session, Held, Work
<1>4. \A c \in Campaigns, h \in Chats : Honest(c, h)'
  BY DEF IInv, TypeOK, Honest, Counted, Report, botVars, dbVars, workVars,
     Session, Work, Clean
<1>5. QED BY <1>1, <1>2, <1>3, <1>4 DEF IInv

LEMMA AckStep ==
    ASSUME IInv, Ack
    PROVE  IInv'
<1>1. TypeOK'
  BY DEF IInv, TypeOK, Statuses, Ack, botVars, dbVars, countVars, Forget,
     NoMarks, NoTally, Session, Held
<1>2. Session'
  BY MailingAssumption DEF IInv, TypeOK, Statuses, Session, Held, Clean,
     Work, NoMarks, Ack, botVars, dbVars, countVars, Forget, NoTally
<1>3. Lifecycle'
  BY MailingAssumption DEF IInv, TypeOK, Statuses, Lifecycle, Started,
     DraftIsQuiet, DoneIsComplete, Pending, Ack, botVars, dbVars, countVars,
     Forget, NoMarks, NoTally, Session, Held, Work
<1>4. \A c \in Campaigns, h \in Chats : Honest(c, h)'
  BY DEF IInv, TypeOK, Honest, Counted, Ack, botVars, dbVars, countVars,
     Forget, NoMarks, Session, Work, Clean
<1>5. QED BY <1>1, <1>2, <1>3, <1>4 DEF IInv

LEMMA TaskFailsStep ==
    ASSUME IInv, TaskFails
    PROVE  IInv'
<1>1. TypeOK'
  BY DEF IInv, TypeOK, Statuses, TaskFails, botVars, SetStatus
<1>2. Session'
  BY DEF IInv, TypeOK, Statuses, Session, Held, Clean, Work, TaskFails,
     botVars, SetStatus
<1>3. Lifecycle'
  BY DEF IInv, TypeOK, Statuses, Lifecycle, Started, DraftIsQuiet,
     DoneIsComplete, Pending, TaskFails, botVars, SetStatus, Session, Held,
     Work
<1>4. \A c \in Campaigns, h \in Chats : Honest(c, h)'
  BY DEF IInv, TypeOK, Honest, TaskFails, botVars, SetStatus, Session, Work,
     Clean
<1>5. QED BY <1>1, <1>2, <1>3, <1>4 DEF IInv

LEMMA DatabaseFailsStep ==
    ASSUME IInv, DatabaseFails
    PROVE  IInv'
<1>1. mark' = mark \/ (at = "next" /\ mark' = Written)
  BY DEF DatabaseFails
<1>2. task \in Campaigns
  BY DEF IInv, TypeOK, DatabaseFails
<1>3. TypeOK'
  <2>1. mark' \in [Campaigns -> [Chats -> Fates \cup {"none", "pending"}]]
    <3>1. mark \in [Campaigns -> [Chats -> Fates \cup {"none", "pending"}]]
      BY DEF IInv, TypeOK
    <3>2. [h \in Chats |-> IF flushed[h] = "none" THEN mark[task][h]
                                               ELSE flushed[h]]
             \in [Chats -> Fates \cup {"none", "pending"}]
      BY <1>2 DEF IInv, TypeOK
    <3> QED BY <1>1, <1>2, <3>1, <3>2 DEF Written
  <2> QED
    BY <2>1 DEF IInv, TypeOK, DatabaseFails, NoMarks, botVars
<1>4. Session'
  BY MailingAssumption DEF IInv, TypeOK, Session, Held, Clean, Work,
     NoMarks, DatabaseFails, botVars
<1>5. \A c \in Campaigns, h \in Chats :
         mark'[c][h] = IF mark' # mark /\ c = task /\ flushed[h] # "none"
                       THEN flushed[h] ELSE mark[c][h]
  BY <1>1, <1>2 DEF IInv, TypeOK, Written
<1>6. Lifecycle'
  <2>1. UNCHANGED <<dialog, current, status, queue, copies>>
    BY DEF DatabaseFails, botVars
  <2>2. status[task] \notin {"none", "draft"}
    BY <1>2 DEF IInv, TypeOK, Session, Held, Lifecycle, DraftIsQuiet,
       DatabaseFails
  <2>3. Started' /\ DraftIsQuiet'
    BY <1>5, <2>1, <2>2 DEF IInv, Lifecycle, Started, DraftIsQuiet
  <2>4. \A c \in Campaigns : Pending(c)' \subseteq Pending(c)
    BY <1>5 DEF IInv, TypeOK, Pending, Fates
  <2>5. DoneIsComplete'
    BY <2>1, <2>4 DEF IInv, Lifecycle, DoneIsComplete
  <2> QED BY <2>3, <2>5 DEF Lifecycle
<1>7. \A c \in Campaigns, h \in Chats : Honest(c, h)'
  <2> SUFFICES ASSUME NEW c \in Campaigns, NEW h \in Chats
               PROVE  Honest(c, h)'
    OBVIOUS
  <2>1. /\ copies'[c][h] = copies[c][h] /\ copies[c][h] \in Nat
        /\ faults' = faults + 1 /\ faults \in Nat
        /\ flushed'[h] = "none"
    BY DEF IInv, TypeOK, DatabaseFails, NoMarks
  <2>2. Honest(c, h) /\ Work(h)
    BY DEF IInv, Session
  <2> QED
    BY <1>5, <2>1, <2>2 DEF Honest, Work
<1>8. QED BY <1>3, <1>4, <1>6, <1>7 DEF IInv

LEMMA CrashStep ==
    ASSUME IInv, Crash
    PROVE  IInv'
<1>1. TypeOK'
  BY DEF IInv, TypeOK, Statuses, Crash, botVars, dbVars, Forget, NoMarks,
     NoTally
<1>2. Session'
  BY MailingAssumption DEF IInv, TypeOK, Statuses, Session, Held, Clean,
     Work, NoMarks, Crash, botVars, dbVars, Forget, NoTally
<1>3. Lifecycle'
  BY MailingAssumption DEF IInv, TypeOK, Statuses, Lifecycle, Started,
     DraftIsQuiet, DoneIsComplete, Pending, Crash, botVars, dbVars, Forget,
     NoMarks, NoTally, Session, Held, Work
<1>4. \A c \in Campaigns, h \in Chats : Honest(c, h)'
  BY MailingAssumption DEF IInv, TypeOK, Honest, Crash, botVars, dbVars,
     Forget, NoMarks, Session, Work, Clean
<1>5. QED BY <1>1, <1>2, <1>3, <1>4 DEF IInv

-----------------------------------------------------------------------------
(* The theorems.                                                           *)

LEMMA InitStep == Init => IInv
  BY MailingAssumption DEF Init, IInv, TypeOK, Fates, Statuses, Session,
     Held, Clean, Work, NoMarks, NoTally, Lifecycle, Started, DraftIsQuiet,
     DoneIsComplete, Pending, Honest

LEMMA StutterStep ==
    ASSUME IInv, UNCHANGED vars
    PROVE  IInv'
<1> USE DEF IInv, vars, botVars, dbVars, workVars, countVars
<1>1. TypeOK'
  BY DEF TypeOK
<1>2. Session'
  BY DEF Session, Held, Clean, Work
<1>3. Lifecycle'
  BY DEF Lifecycle, Started, DraftIsQuiet, DoneIsComplete, Pending
<1>4. \A c \in Campaigns, h \in Chats : Honest(c, h)'
  BY DEF Honest, Counted
<1>5. QED BY <1>1, <1>2, <1>3, <1>4

LEMMA InvariantKept == IInv /\ [Next]_vars => IInv'
<1> SUFFICES ASSUME IInv, [Next]_vars PROVE IInv'
  OBVIOUS
<1>1. ASSUME Dialog PROVE IInv'
  BY <1>1, start_salesStep, show_build_audienceStep,
     handle_admin_messageStep, EditStep, CancelPreviewStep, cancelStep,
     RunStep, publish_salesStep, RunFailedStep, BotCrashStep DEF Dialog
<1>2. ASSUME handle_sales_task PROVE IInv'
  BY <1>2, TakeStep, FetchBatchStep, CheckStatusStep, send_to_chatStep,
     RetryStep, CommitBatchStep, FinishStep, ReportStep, AckStep DEF
     handle_sales_task
<1>3. QED
  BY <1>1, <1>2, TaskFailsStep, DatabaseFailsStep, CrashStep,
     update_user_statusStep, StutterStep DEF Next

LEMMA Invariant == Spec => []IInv
  BY InitStep, InvariantKept, PTL DEF Spec

\* The variables of the dialog, the tables, the broker and the worker have
\* values of their types in every reachable state.
THEOREM MailingTyped == Spec => []TypeOK
<1>1. IInv => TypeOK
  BY DEF IInv
<1>2. QED BY <1>1, Invariant, PTL

\* However often a task is handed out, interrupted or published twice, a
\* recipient gets at most one copy more than there were faults, and the marks
\* "sent" and "blocked" are true.
THEOREM MailingTellsTruth == Spec => []MarksTellTruth
<1>1. IInv => MarksTellTruth
  <2> SUFFICES ASSUME IInv, NEW c \in Campaigns, NEW h \in Chats
               PROVE  /\ copies[c][h] <= 1 + faults
                      /\ mark[c][h] = "sent" => copies[c][h] > 0
                      /\ mark[c][h] = "blocked" => copies[c][h] <= faults
    BY DEF MarksTellTruth
  <2>1. Honest(c, h) /\ Work(h)
    BY DEF IInv, Session
  <2> QED BY <2>1 DEF Honest, Counted, Work
<1>2. QED BY <1>1, Invariant, PTL

\* Nothing of a campaign is published, sent or marked before it was started.
THEOREM MailingWaitsForStart == Spec => []DraftIsQuiet
<1>1. IInv => DraftIsQuiet
  BY DEF IInv, Lifecycle
<1>2. QED BY <1>1, Invariant, PTL

\* The worker calls no campaign done that has a recipient left, and none is
\* added to it later.
THEOREM MailingDoneIsComplete == Spec => []DoneIsComplete
<1>1. IInv => DoneIsComplete
  BY DEF IInv, Lifecycle
<1>2. QED BY <1>1, Invariant, PTL

\* A recipient whose fate is committed gets nothing more and keeps his mark.
THEOREM MailingSettles == Spec => SettledStaysSettled
<1> DEFINE Settled == \A c \in Campaigns, h \in Chats :
                         mark[c][h] \in Fates => /\ mark'[c][h] = mark[c][h]
                                                 /\ copies'[c][h] = copies[c][h]
<1>1. ASSUME IInv, [Next]_vars PROVE Settled
  <2>1. CASE UNCHANGED <<mark, copies>>
    BY <2>1
  <2>2. ASSUME NEW x \in Campaigns, NEW audience \in SUBSET Chats,
               show_build_audience(x, audience)
        PROVE  Settled
    BY <1>1, <2>2 DEF IInv, TypeOK, Lifecycle, DraftIsQuiet,
       show_build_audience
  <2>3. CASE _send_to_chat \/ Retry
    <3>1. /\ task \in Campaigns /\ chat \in Chats
          /\ mark[task][chat] = "pending" /\ mark' = mark
      BY <1>1, <2>3 DEF IInv, TypeOK, Session, Work, _send_to_chat, Retry,
         dbVars
    <3>2. \E outcome \in Outcomes : Arrives(outcome)
      BY <2>3 DEF _send_to_chat, Retry
    <3>3. copies' = copies \/ copies' = [copies EXCEPT ![task][chat] = @ + 1]
      BY <3>2 DEF Arrives
    <3>4. ASSUME NEW c \in Campaigns, NEW h \in Chats, mark[c][h] \in Fates
          PROVE  copies'[c][h] = copies[c][h]
      <4>1. c # task \/ h # chat
        BY <3>1, <3>4 DEF Fates
      <4> QED BY <1>1, <3>1, <3>3, <4>1 DEF IInv, TypeOK
    <3> QED BY <3>1, <3>4
  <2>4. CASE mark' = Written /\ copies' = copies /\ task \in Campaigns
    BY <1>1, <2>4 DEF IInv, TypeOK, Session, Work, Written, Fates
  <2>5. CASE CommitBatch \/ DatabaseFails
    <3>1. task \in Campaigns /\ copies' = copies
      BY <1>1, <2>5 DEF IInv, TypeOK, CommitBatch, DatabaseFails
    <3>2. mark' = mark \/ mark' = Written
      BY <2>5 DEF CommitBatch, DatabaseFails
    <3> QED BY <2>1, <2>4, <3>1, <3>2
  <2>6. CASE Dialog
    <3>1. \/ UNCHANGED <<mark, copies>>
          \/ \E c \in Campaigns, audience \in SUBSET Chats :
                show_build_audience(c, audience)
      BY <2>6 DEF Dialog, start_sales, handle_admin_message, CancelPreview,
         cancel, Run, publish_sales, RunFailed, BotCrash, Edit, dbVars
    <3> QED BY <2>1, <2>2, <3>1
  <2>7. CASE handle_sales_task
    <3>1. \/ UNCHANGED <<mark, copies>> \/ _send_to_chat \/ Retry
          \/ CommitBatch
      BY <2>7 DEF handle_sales_task, Take, FetchBatch, CheckStatus, Finish,
         Report, Ack, dbVars
    <3> QED BY <2>1, <2>3, <2>5, <3>1
  <2>8. CASE \/ TaskFails \/ Crash \/ UNCHANGED vars
             \/ \E h \in Chats : update_user_status(h)
    BY <2>1, <2>8 DEF TaskFails, Crash, update_user_status, vars, dbVars
  <2>9. QED BY <1>1, <2>5, <2>6, <2>7, <2>8 DEF Next
<1>2. QED BY <1>1, Invariant, PTL DEF Spec, SettledStaysSettled

-----------------------------------------------------------------------------
(* The reports.                                                            *)

\* The recipients of a campaign with this mark, in the database or in the
\* session, and what the worker has counted and not reported yet.
Marks(c, f) == Marked(c, f) \cup {h \in Chats : c = task /\ flushed[h] = f}
Unreported(c, f) == IF c = task /\ at \notin {"idle", "ack"} THEN tally[f] ELSE 0

Sums(c, f) ==
    /\ reported[c][f] <= Cardinality(Marked(c, f))
    /\ reported[c][f] + Unreported(c, f) <= Cardinality(Marks(c, f))
    /\ faults = 0 => reported[c][f] + Unreported(c, f) = Cardinality(Marks(c, f))

AllSums == \A c \in Campaigns, f \in Fates : Sums(c, f)

LEMMA ChatsCounted ==
    ASSUME NEW S \in SUBSET Chats
    PROVE  /\ Cardinality(S) \in Nat
           /\ \A h \in Chats \ S : Cardinality(S \cup {h}) = Cardinality(S) + 1
           /\ \A T \in SUBSET Chats : S \subseteq T => Cardinality(S) <= Cardinality(T)
<1>1. IsFiniteSet(Chats)
  BY MailingAssumption
<1>2. \A T \in SUBSET Chats : IsFiniteSet(T)
  BY <1>1, FS_Subset
<1>3. Cardinality(S) \in Nat
  BY <1>2, FS_CardinalityType
<1>4. \A h \in Chats \ S : Cardinality(S \cup {h}) = Cardinality(S) + 1
  BY <1>2, FS_AddElement
<1>5. \A T \in SUBSET Chats : S \subseteq T => Cardinality(S) <= Cardinality(T)
  BY <1>2, FS_Subset
<1> QED BY <1>3, <1>4, <1>5

\* The sums are numbers.
LEMMA SumsTyped ==
    ASSUME TypeOK, NEW c \in Campaigns, NEW f \in Fates
    PROVE  /\ reported[c][f] \in Nat /\ Unreported(c, f) \in Nat
           /\ Marked(c, f) \in SUBSET Chats /\ Marks(c, f) \in SUBSET Chats
           /\ Marked(c, f) \subseteq Marks(c, f)
BY DEF TypeOK, Unreported, Marked, Marks

\* What a set of marks and the numbers are is all that the sums depend on.
LEMMA SumsKept ==
    ASSUME NEW c \in Campaigns, NEW f \in Fates, Sums(c, f),
           Marked(c, f)' = Marked(c, f), Marks(c, f)' = Marks(c, f),
           reported'[c][f] = reported[c][f], Unreported(c, f)' = Unreported(c, f),
           faults' = 0 => faults = 0
    PROVE  Sums(c, f)'
<1>1. /\ Cardinality(Marked(c, f))' = Cardinality(Marked(c, f))
      /\ Cardinality(Marks(c, f))' = Cardinality(Marks(c, f))
  OBVIOUS
<1> QED BY <1>1 DEF Sums

\* A campaign the worker is not at, or whose session has no marks.
LEMMA NoSession ==
    ASSUME NEW c \in Campaigns, NEW f \in Fates, c # task \/ flushed = NoMarks
    PROVE  Marks(c, f) = Marked(c, f)
BY DEF Marks, NoMarks, Fates

\* Steps of the dialog, and of the worker that mark nobody.
LEMMA QuietSums ==
    ASSUME IInv, AllSums, UNCHANGED <<mark, task, flushed, tally, reported>>,
           at \in {"idle", "ack"} <=> at' \in {"idle", "ack"},
           faults' = 0 => faults = 0
    PROVE  AllSums'
<1> SUFFICES ASSUME NEW c \in Campaigns, NEW f \in Fates PROVE Sums(c, f)'
  BY DEF AllSums
<1>1. Marked(c, f)' = Marked(c, f) /\ Marks(c, f)' = Marks(c, f)
  BY DEF Marked, Marks
<1>2. Unreported(c, f)' = Unreported(c, f)
  BY DEF Unreported
<1> QED BY <1>1, <1>2, SumsKept DEF AllSums

\* The snapshot of the recipients is made before there are marks.
LEMMA AudienceSums ==
    ASSUME IInv, AllSums, NEW x \in Campaigns, NEW audience \in SUBSET Chats,
           show_build_audience(x, audience)
    PROVE  AllSums'
<1> SUFFICES ASSUME NEW c \in Campaigns, NEW f \in Fates PROVE Sums(c, f)'
  BY DEF AllSums
<1>1. Marked(c, f)' = Marked(c, f)
  <2>1. CASE c = x
    <3>1. Marked(c, f) = {}
      BY <2>1 DEF IInv, Lifecycle, DraftIsQuiet, show_build_audience, Marked
    <3>2. Marked(c, f)' = {}
      BY <2>1 DEF IInv, TypeOK, show_build_audience, Marked, Fates
    <3> QED BY <3>1, <3>2
  <2>2. CASE c # x
    BY <2>2 DEF IInv, TypeOK, show_build_audience, Marked
  <2> QED BY <2>1, <2>2
<1>2. UNCHANGED <<task, flushed, tally, at, reported, faults>>
  BY DEF show_build_audience, workVars, countVars
<1>3. Marks(c, f)' = Marks(c, f) /\ Unreported(c, f)' = Unreported(c, f)
  BY <1>1, <1>2 DEF Marks, Unreported
<1> QED BY <1>1, <1>2, <1>3, SumsKept DEF AllSums

\* A recipient is marked, and counted.
LEMMA MarkSums ==
    ASSUME IInv, AllSums, NEW h \in Chats, NEW fate \in Fates,
           at \in {"next", "send", "retry"}, mark[task][h] = "pending",
           flushed[h] = "none", mark_recipient_status(h, fate),
           UNCHANGED <<mark, task, reported, faults>>
    PROVE  AllSums'
<1> SUFFICES ASSUME NEW c \in Campaigns, NEW f \in Fates PROVE Sums(c, f)'
  BY DEF AllSums
<1>0. /\ Sums(c, f) /\ TypeOK /\ task \in Campaigns
      /\ at' = "next" /\ tally' = [tally EXCEPT ![fate] = @ + 1]
      /\ flushed' = [flushed EXCEPT ![h] = fate]
  BY DEF AllSums, IInv, TypeOK, mark_recipient_status
<1>1. Marked(c, f)' = Marked(c, f)
  BY DEF Marked
<1>2. CASE c = task /\ f = fate
  <2>1. Marks(c, f)' = Marks(c, f) \cup {h}
    BY <1>0, <1>1, <1>2 DEF Marks, TypeOK
  <2>2. h \notin Marks(c, f)
    BY <1>2 DEF Marks, Marked, Fates
  <2>3. Cardinality(Marks(c, f))' = Cardinality(Marks(c, f)) + 1
    BY <1>0, <2>1, <2>2, SumsTyped, ChatsCounted
  <2>4. Unreported(c, f)' = Unreported(c, f) + 1
    BY <1>0, <1>2 DEF Unreported, TypeOK
  <2>5. Cardinality(Marked(c, f))' = Cardinality(Marked(c, f))
    BY <1>1
  <2>6. /\ reported[c][f] \in Nat /\ Unreported(c, f) \in Nat
        /\ Cardinality(Marks(c, f)) \in Nat
    BY <1>0, SumsTyped, ChatsCounted
  <2> QED BY <1>0, <2>3, <2>4, <2>5, <2>6 DEF Sums
<1>3. CASE c # task \/ f # fate
  <2>1. Marks(c, f)' = Marks(c, f)
    BY <1>0, <1>1, <1>3 DEF Marks, TypeOK, Fates
  <2>2. Unreported(c, f)' = Unreported(c, f)
    BY <1>0, <1>3 DEF Unreported, TypeOK
  <2> QED BY <1>0, <1>1, <2>1, <2>2, SumsKept
<1> QED BY <1>2, <1>3

\* The marks of the session become those of the database.
LEMMA WrittenMarks ==
    ASSUME IInv, mark' = Written, at = "next",
           NEW c \in Campaigns, NEW f \in Fates
    PROVE  Marked(c, f)' = Marks(c, f)
<1>1. task \in Campaigns /\ mark \in [Campaigns -> [Chats -> Fates \cup {"none", "pending"}]]
  BY DEF IInv, TypeOK
<1>2. \A h \in Chats : mark'[c][h] = IF c = task /\ flushed[h] # "none"
                                     THEN flushed[h] ELSE mark[c][h]
  BY <1>1 DEF Written
<1>3. \A h \in Chats : c = task /\ flushed[h] # "none" => mark[c][h] = "pending"
  BY DEF IInv, Session, Work
<1>4. f # "none" /\ f # "pending"
  BY DEF Fates
<1>5. \A h \in Chats : mark'[c][h] = f <=> mark[c][h] = f \/ (c = task /\ flushed[h] = f)
  BY <1>2, <1>3, <1>4
<1> QED BY <1>5 DEF Marked, Marks

LEMMA CommitSums ==
    ASSUME IInv, AllSums, CommitBatch
    PROVE  AllSums'
<1> SUFFICES ASSUME NEW c \in Campaigns, NEW f \in Fates PROVE Sums(c, f)'
  BY DEF AllSums
<1>1. Marked(c, f)' = Marks(c, f)
  BY WrittenMarks DEF CommitBatch
<1>2. Marks(c, f)' = Marked(c, f)'
  BY DEF CommitBatch, Marks, NoMarks, Fates
<1>3. /\ reported' = reported /\ faults' = faults
      /\ Unreported(c, f)' = Unreported(c, f)
  BY DEF CommitBatch, countVars, Unreported
<1>4. /\ reported[c][f] \in Nat /\ Unreported(c, f) \in Nat
      /\ Cardinality(Marks(c, f)) \in Nat
  BY SumsTyped, ChatsCounted DEF IInv
<1>5. Cardinality(Marked(c, f))' = Cardinality(Marks(c, f))
  BY <1>1
<1>6. Cardinality(Marks(c, f))' = Cardinality(Marks(c, f))
  BY <1>1, <1>2
<1> QED BY <1>3, <1>4, <1>5, <1>6 DEF AllSums, Sums

\* The tally is reported, or the report is lost.
LEMMA ReportSums ==
    ASSUME IInv, AllSums, Report
    PROVE  AllSums'
<1> SUFFICES ASSUME NEW c \in Campaigns, NEW f \in Fates PROVE Sums(c, f)'
  BY DEF AllSums
<1>0. Sums(c, f) /\ TypeOK /\ task \in Campaigns /\ flushed = NoMarks
  BY DEF AllSums, IInv, TypeOK, Session, Clean, Report
<1>1. Marked(c, f)' = Marked(c, f) /\ Marks(c, f) = Marked(c, f)
  BY <1>0, NoSession DEF Report, dbVars, Marked
<1>2. Marks(c, f)' = Marked(c, f)
  BY <1>0, <1>1 DEF Report, workVars, Marks, NoMarks, Fates
<1>3. Unreported(c, f)' = 0
  BY DEF Report, Unreported
<1>4. /\ reported[c][f] \in Nat /\ Unreported(c, f) \in Nat
      /\ Cardinality(Marked(c, f)) \in Nat /\ faults \in Nat
  BY <1>0, SumsTyped, ChatsCounted DEF TypeOK
<1>5. \/ reported'[c][f] = reported[c][f] + Unreported(c, f) /\ faults' = faults
      \/ reported'[c][f] = reported[c][f] /\ faults' = faults + 1
  BY <1>0 DEF Report, Unreported, TypeOK
<1>6. Cardinality(Marked(c, f))' = Cardinality(Marked(c, f))
  BY <1>1
<1>7. Cardinality(Marks(c, f))' = Cardinality(Marked(c, f))
  BY <1>2
<1>8. Cardinality(Marks(c, f)) = Cardinality(Marked(c, f))
  BY <1>1
<1> QED BY <1>0, <1>3, <1>4, <1>5, <1>6, <1>7, <1>8 DEF Sums

\* The handler ends, or begins: there is nothing in the session.
LEMMA EdgeSums ==
    ASSUME IInv, AllSums, Ack \/ \E x \in Campaigns : Take(x)
    PROVE  AllSums'
<1> SUFFICES ASSUME NEW c \in Campaigns, NEW f \in Fates PROVE Sums(c, f)'
  BY DEF AllSums
<1>0. Sums(c, f) /\ flushed = NoMarks /\ at \in {"idle", "ack"}
  BY DEF AllSums, IInv, Session, Clean, Ack, Take
<1>1. /\ UNCHANGED <<mark, reported, faults>> /\ flushed' = NoMarks
      /\ at' = "idle" \/ tally' = NoTally
  BY <1>0 DEF Ack, Take, Forget, dbVars, countVars
<1>2. Marked(c, f)' = Marked(c, f)
  BY <1>1 DEF Marked
<1>3. Marks(c, f)' = Marks(c, f)
  BY <1>0, <1>1, <1>2 DEF Marks, NoMarks, Fates
<1>4. Unreported(c, f) = 0 /\ Unreported(c, f)' = 0
  BY <1>0, <1>1 DEF Unreported, NoTally
<1> QED BY <1>0, <1>1, <1>2, <1>3, <1>4, SumsKept

\* What was counted and is not committed is forgotten with its marks.
LEMMA FaultSums ==
    ASSUME IInv, AllSums, TaskFails \/ DatabaseFails \/ Crash
    PROVE  AllSums'
<1> SUFFICES ASSUME NEW c \in Campaigns, NEW f \in Fates PROVE Sums(c, f)'
  BY DEF AllSums
<1>0. Sums(c, f) /\ TypeOK
  BY DEF AllSums, IInv
<1>1. /\ reported' = reported /\ faults' = faults + 1 /\ flushed' = NoMarks
      /\ at' \in {"idle", "ack"}
  BY DEF TaskFails, DatabaseFails, Crash, Forget, IInv, Session, Clean
<1>2. mark' = mark \/ (mark' = Written /\ at = "next")
  BY DEF TaskFails, DatabaseFails, Crash, dbVars
<1>3. Marked(c, f)' = Marked(c, f) \/ Marked(c, f)' = Marks(c, f)
  BY <1>2, WrittenMarks DEF Marked
<1>4. Marks(c, f)' = Marked(c, f)'
  BY <1>1 DEF Marks, NoMarks, Fates
<1>5. Unreported(c, f)' = 0
  BY <1>1 DEF Unreported
<1>6. /\ reported[c][f] \in Nat /\ Unreported(c, f) \in Nat /\ faults \in Nat
  BY <1>0, SumsTyped DEF TypeOK
<1>7. reported[c][f] <= Cardinality(Marked(c, f))'
  <2>1. /\ Cardinality(Marks(c, f)) \in Nat
        /\ reported[c][f] <= Cardinality(Marked(c, f))
        /\ reported[c][f] <= Cardinality(Marks(c, f))
    BY <1>0, <1>6, SumsTyped, ChatsCounted DEF Sums
  <2>2. \/ Cardinality(Marked(c, f))' = Cardinality(Marked(c, f))
        \/ Cardinality(Marked(c, f))' = Cardinality(Marks(c, f))
    BY <1>3
  <2> QED BY <2>1, <2>2
<1>8. Cardinality(Marks(c, f))' = Cardinality(Marked(c, f))'
  BY <1>4
<1> QED BY <1>1, <1>5, <1>6, <1>7, <1>8 DEF Sums

LEMMA WorkerSums ==
    ASSUME IInv, AllSums, handle_sales_task
    PROVE  AllSums'
<1>1. ASSUME NEW h \in Chats, CheckStatus(h) PROVE AllSums'
  <2>1. CASE h \in blocked
    <3>1. /\ mark[task][h] = "pending" /\ flushed[h] = "none" /\ at = "next"
          /\ "blocked" \in Fates
      BY <1>1 DEF CheckStatus, IInv, Session, Work, Fates
    <3>2. /\ mark_recipient_status(h, "blocked")
          /\ UNCHANGED <<mark, task, reported, faults>>
      BY <1>1, <2>1 DEF CheckStatus, dbVars, countVars
    <3> QED BY <3>1, <3>2, MarkSums
  <2>2. CASE h \notin blocked
    BY <1>1, <2>2, QuietSums DEF CheckStatus, dbVars, countVars
  <2> QED BY <2>1, <2>2
<1>2. ASSUME _send_to_chat \/ Retry PROVE AllSums'
  <2>1. /\ chat \in Chats /\ mark[task][chat] = "pending" /\ flushed[chat] = "none"
        /\ at \in {"send", "retry"}
        /\ UNCHANGED <<mark, task, reported, faults>>
    BY <1>2 DEF IInv, TypeOK, Session, Work, _send_to_chat, Retry, dbVars, countVars
  <2>2. \/ /\ at' = "retry" /\ UNCHANGED <<flushed, tally, chat>>
        \/ \E fate \in Fates : mark_recipient_status(chat, fate)
    BY <1>2 DEF _send_to_chat, Retry, Fate, Fates, Outcomes
  <2> QED BY <2>1, <2>2, MarkSums, QuietSums
<1>3. ASSUME FetchBatch \/ Finish PROVE AllSums'
  BY <1>3, QuietSums DEF FetchBatch, Finish, SetStatus, dbVars, countVars
<1> QED BY <1>1, <1>2, <1>3, EdgeSums, CommitSums, ReportSums DEF handle_sales_task

LEMMA SumsStep == IInv /\ AllSums /\ [Next]_vars => AllSums'
<1> SUFFICES ASSUME IInv, AllSums, [Next]_vars PROVE AllSums'
  OBVIOUS
<1>0. faults \in Nat
  BY DEF IInv, TypeOK
<1>1. CASE Dialog
  <2>1. \/ \E c \in Campaigns, audience \in SUBSET Chats :
              show_build_audience(c, audience)
        \/ /\ UNCHANGED <<mark, task, flushed, tally, reported, at>>
           /\ faults' \in {faults, faults + 1}
    BY <1>1 DEF Dialog, start_sales, handle_admin_message, CancelPreview, cancel,
       Run, publish_sales, RunFailed, BotCrash, Edit, dbVars, workVars, countVars
  <2> QED BY <1>0, <2>1, AudienceSums, QuietSums
<1>2. CASE (\E h \in Chats : update_user_status(h)) \/ UNCHANGED vars
  BY <1>2, QuietSums DEF update_user_status, vars, dbVars, workVars, countVars
<1> QED BY <1>1, <1>2, WorkerSums, FaultSums DEF Next

(***************************************************************************)
(* The totals the admins read never claim more than the marks say, however *)
(* often a task is handed out, interrupted or published twice; without a   *)
(* fault they add up to them.                                              *)
(***************************************************************************)
THEOREM MailingReports == Spec => []ReportsAddUp
<1>1. Init => AllSums
  <2> SUFFICES ASSUME Init, NEW c \in Campaigns, NEW f \in Fates PROVE Sums(c, f)
    BY DEF AllSums
  <2>1. Marked(c, f) = {} /\ Marks(c, f) = {}
    BY DEF Init, Marked, Marks, NoMarks, Fates
  <2>2. reported[c][f] = 0 /\ Unreported(c, f) = 0
    BY DEF Init, Unreported, NoTally
  <2>3. Cardinality(Marked(c, f)) = 0 /\ Cardinality(Marks(c, f)) = 0
    BY <2>1, FS_EmptySet
  <2> QED BY <2>2, <2>3 DEF Sums
<1>2. IInv /\ AllSums => ReportsAddUp
  <2> SUFFICES ASSUME IInv, AllSums, NEW c \in Campaigns, NEW f \in Fates
               PROVE  /\ reported[c][f] <= Cardinality(Marked(c, f))
                      /\ faults = 0 /\ queue[c] = 0 =>
                           reported[c][f] = Cardinality(Marked(c, f))
    BY DEF ReportsAddUp
  <2>1. queue[c] = 0 => c # task
    BY MailingAssumption DEF IInv, TypeOK, Session, Held
  <2>2. c # task => Marks(c, f) = Marked(c, f) /\ Unreported(c, f) = 0
    BY NoSession DEF Unreported
  <2>3. reported[c][f] \in Nat
    BY SumsTyped DEF IInv
  <2>4. c # task => Cardinality(Marks(c, f)) = Cardinality(Marked(c, f))
    BY <2>2
  <2> QED BY <2>1, <2>2, <2>3, <2>4 DEF AllSums, Sums
<1>3. Spec => []AllSums
  BY <1>1, SumsStep, Invariant, PTL DEF Spec
<1> QED BY <1>2, <1>3, Invariant, PTL
-----------------------------------------------------------------------------
(* How a task ends.                                                        *)

\* Behind its last batch the worker has nobody left, or an error behind it.
ServedOrFailed ==
    at \in {"report", "ack"} => Pending(task) = {} \/ task \in gaveUp

\* What ends a task, and that it then is as it should be.
LEMMA EndStep ==
    ASSUME IInv, ServedOrFailed, [Next]_vars
    PROVE  /\ ServedOrFailed'
           /\ \A c \in Campaigns : queue'[c] < queue[c] => Pending(c) = {} \/ c \in gaveUp
<1> DEFINE Ends == /\ ServedOrFailed'
                   /\ \A c \in Campaigns :
                         queue'[c] < queue[c] => Pending(c) = {} \/ c \in gaveUp
<1>1. queue \in [Campaigns -> Nat] /\ gaveUp \subseteq Campaigns
  BY DEF IInv, TypeOK
<1>2. ASSUME UNCHANGED <<at, task, mark, gaveUp, queue>> PROVE Ends
  BY <1>1, <1>2 DEF ServedOrFailed, Pending
<1>3. ASSUME at' \notin {"report", "ack"}, queue' = queue PROVE Ends
  BY <1>1, <1>3 DEF ServedOrFailed
<1>4. ASSUME NEW x \in Campaigns, NEW audience \in SUBSET Chats,
             show_build_audience(x, audience)
      PROVE  Ends
  <2>1. /\ UNCHANGED <<at, task, gaveUp, queue>> /\ status[x] = "none"
        /\ \A c \in Campaigns : c # x => mark'[c] = mark[c]
    BY <1>4 DEF show_build_audience, workVars, IInv, TypeOK
  <2>2. at # "idle" => task \in Campaigns /\ task # x
    BY <2>1 DEF IInv, TypeOK, Session, Held, Lifecycle, DraftIsQuiet
  <2> QED BY <1>1, <2>1, <2>2 DEF ServedOrFailed, Pending
<1>5. CASE publish_sales
  <2>1. /\ UNCHANGED <<at, task, mark, gaveUp>>
        /\ current \in Campaigns
        /\ \E n \in {0, 1} : queue' = [queue EXCEPT ![current] = @ + n]
    BY <1>5 DEF publish_sales, dbVars, workVars, IInv, TypeOK
  <2>2. \A c \in Campaigns : queue'[c] >= queue[c]
    BY <1>1, <2>1
  <2>3. \A c \in Campaigns : ~(queue'[c] < queue[c])
    BY <1>1, <2>1
  <2> QED BY <2>1, <2>3 DEF ServedOrFailed, Pending
<1>6. CASE Finish
  <2>1. Pending(task) = {} /\ UNCHANGED <<task, mark, queue>>
    BY <1>6 DEF Finish
  <2> QED BY <1>1, <2>1 DEF ServedOrFailed, Pending
<1>7. CASE Report
  <2>1. at = "report" /\ UNCHANGED <<task, mark, gaveUp, queue>>
    BY <1>7 DEF Report, dbVars, workVars
  <2> QED BY <1>1, <2>1 DEF ServedOrFailed, Pending
<1>8. CASE Ack
  <2>1. /\ at = "ack" /\ queue' = [queue EXCEPT ![task] = @ - 1]
        /\ at' = "idle"
    BY <1>8 DEF Ack, Forget
  <2>2. Pending(task) = {} \/ task \in gaveUp
    BY <2>1 DEF ServedOrFailed
  <2>3. \A c \in Campaigns : c # task => queue'[c] = queue[c]
    BY <1>1, <2>1
  <2> QED BY <1>1, <2>1, <2>2, <2>3 DEF ServedOrFailed
<1>9. CASE TaskFails \/ DatabaseFails
  <2>1. gaveUp' = gaveUp \cup {task} /\ task' = task /\ queue' = queue
    BY <1>9 DEF TaskFails, DatabaseFails
  <2> QED BY <1>1, <2>1 DEF ServedOrFailed
<1>10. CASE Crash
  BY <1>3, <1>10 DEF Crash, Forget
<1>11. CASE start_sales \/ handle_admin_message \/ CancelPreview \/ cancel
            \/ Run \/ RunFailed \/ BotCrash \/ UNCHANGED vars
  BY <1>2, <1>11 DEF start_sales, handle_admin_message, CancelPreview, cancel, Run, RunFailed,
     BotCrash, vars, dbVars, workVars
<1>12. ASSUME NEW step \in {"message", "setup"}, Edit(step) PROVE Ends
  BY <1>2, <1>12 DEF Edit, dbVars, workVars
<1>13. ASSUME NEW h \in Chats, update_user_status(h) PROVE Ends
  BY <1>2, <1>13 DEF update_user_status, dbVars, workVars
<1>14. ASSUME NEW c \in Campaigns, Take(c) PROVE Ends
  BY <1>3, <1>14 DEF Take
<1>15. ASSUME NEW h \in Chats, CheckStatus(h) PROVE Ends
  BY <1>3, <1>15 DEF CheckStatus, mark_recipient_status
<1>16. CASE FetchBatch \/ _send_to_chat \/ Retry \/ CommitBatch
  BY <1>3, <1>16 DEF FetchBatch, _send_to_chat, Retry, CommitBatch, mark_recipient_status
<1> QED BY <1>4, <1>5, <1>6, <1>7, <1>8, <1>9, <1>10, <1>11, <1>12, <1>13, <1>14, <1>15, <1>16
        DEF Next, Dialog, handle_sales_task

\* A task leaves the stream only when nobody of its campaign waits any longer
\* or an error ended one of the campaign's tasks: no crash, second task, change
\* of a status or lost report makes the worker acknowledge one it has not
\* carried out (api/sales_worker.py 150-338).  That it comes so far is
\* fairness, and stays with TLC (EveryoneIsServed).
THEOREM MailingEndsServed ==
    Spec => [][\A c \in Campaigns :
                  queue'[c] < queue[c] => Pending(c) = {} \/ c \in gaveUp]_vars
<1>1. Init => ServedOrFailed
  BY DEF Init, ServedOrFailed
<1>2. IInv /\ ServedOrFailed /\ [Next]_vars => ServedOrFailed'
  BY EndStep
<1>3. IInv /\ ServedOrFailed /\ [Next]_vars =>
        [\A c \in Campaigns :
            queue'[c] < queue[c] => Pending(c) = {} \/ c \in gaveUp]_vars
  BY EndStep
<1> QED BY <1>1, <1>2, <1>3, Invariant, PTL DEF Spec
=============================================================================
