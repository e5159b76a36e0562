------------------------------ MODULE Notices -------------------------------
(***************************************************************************)
(* How the news that an order is paid travels.  YooKassa posts it to the   *)
(* website until it is answered 200; the website stores it in the stream   *)
(* 'baby_domik' and answers (api/web/routes/api.py).  The bot's subscriber *)
(* puts it on the application's update queue, which lives in memory, and   *)
(* by returning acknowledges it (api/broker_nats.py); the application      *)
(* takes the queue's updates one by one, sends the developer a message     *)
(* about each, and books the payment (handlers/hooks/yookassa_hl.py).      *)
(*                                                                         *)
(* What the bot is told about a task of the spreadsheet that failed, and   *)
(* about a mailing, comes by the same three functions of broker_nats.py.   *)
(* YooKassa and the stream are external.                                   *)
(***************************************************************************)
EXTENDS Integers, Sequences, FiniteSets

CONSTANTS
    Payments,   \* the payments that succeed
    MaxFaults   \* bound: failures of any kind

VARIABLES
    posted,     \* where YooKassa stands with each payment's news
    stream,     \* stored messages, oldest first
    inflight,   \* given to the subscriber and not acknowledged; [p, put]
    unacked,    \* ... given once, and waiting for ack_wait to pass
    queue,      \* app.update_queue
    handling,   \* the updates being handled: none, or one
    booked,     \* payments whose tickets are marked paid, and how often
    lost,       \* what put an end to the news of a payment
    up,         \* the bot runs
    faults

vars == <<posted, stream, inflight, unacked, queue, handling, booked, lost, up, faults>>
server == <<posted, stream, inflight, unacked>>
app    == <<queue, handling, booked, lost>>

InSeq(s) == {s[i] : i \in 1..Len(s)}

NoticesOK ==
    /\ posted \in [Payments -> {"not due", "trying", "answered"}]
    /\ InSeq(stream) \cup InSeq(unacked) \cup InSeq(queue) \cup InSeq(handling) \subseteq Payments
    /\ Len(inflight) <= 1 /\ Len(handling) <= 1
    /\ booked \in [Payments -> 0..(2 + MaxFaults)]
    /\ lost \in [Payments -> {"no", "crash", "raised", "discarded"}]
    /\ up \in BOOLEAN /\ faults \in 0..MaxFaults

Init ==
    /\ posted = [p \in Payments |-> "not due"]
    /\ stream = <<>> /\ inflight = <<>> /\ unacked = <<>>
    /\ queue = <<>> /\ handling = <<>>
    /\ booked = [p \in Payments |-> 0] /\ lost = [p \in Payments |-> "no"]
    /\ up = TRUE /\ faults = 0

Fault == faults < MaxFaults /\ faults' = faults + 1
-----------------------------------------------------------------------------
payment_succeeds(p) ==
    /\ posted[p] = "not due"
    /\ posted' = [posted EXCEPT ![p] = "trying"]
    /\ UNCHANGED <<stream, inflight, unacked, app, up, faults>>

\* The website stores the message and answers 200 ...
post_notification(p) ==
    /\ posted[p] = "trying"
    /\ posted' = [posted EXCEPT ![p] = "answered"]
    /\ stream' = Append(stream, p)
    /\ UNCHANGED <<inflight, unacked, app, up, faults>>

\* ... or stores it and the answer is lost, so that YooKassa posts it again.
answer_lost(p) ==
    /\ posted[p] = "trying" /\ Fault
    /\ stream' = Append(stream, p)
    /\ UNCHANGED <<posted, inflight, unacked, app, up>>

\* The subscriber is given one message at a time: the oldest new one, or one
\* that was not acknowledged in time.
deliver ==
    /\ up /\ inflight = <<>>
    /\ \/ /\ stream # <<>>
          /\ inflight' = <<[p |-> Head(stream), put |-> FALSE]>> /\ stream' = Tail(stream)
          /\ UNCHANGED unacked
       \/ /\ unacked # <<>>
          /\ inflight' = <<[p |-> Head(unacked), put |-> FALSE]>> /\ unacked' = Tail(unacked)
          /\ UNCHANGED stream
    /\ UNCHANGED <<posted, app, up, faults>>

yookassa_handler ==
    /\ up /\ inflight # <<>> /\ ~inflight[1].put
    /\ inflight' = <<[inflight[1] EXCEPT !.put = TRUE]>>
    /\ queue' = Append(queue, inflight[1].p)
    /\ UNCHANGED <<posted, stream, unacked, handling, booked, lost, up, faults>>

acknowledge ==
    /\ up /\ inflight # <<>> /\ inflight[1].put
    /\ inflight' = <<>>
    /\ UNCHANGED <<posted, stream, unacked, app, up, faults>>

\* ack_wait is 10 seconds; the bot's loop stands still for longer than that
\* when a call to YooKassa does, and the message is given out a second time.
ack_wait_passes ==
    /\ up /\ inflight # <<>> /\ inflight[1].put /\ Fault
    /\ unacked' = Append(unacked, inflight[1].p) /\ inflight' = <<>>
    /\ UNCHANGED <<posted, stream, app, up>>

\* The stream is that of every subject, the spreadsheet's tasks and the
\* mailings' too, and keeps 100 messages for seven days, read or not: further
\* ones push out the oldest, and time does.
discard ==
    /\ Fault
    /\ \/ /\ unacked # <<>>
          /\ lost' = [lost EXCEPT ![Head(unacked)] = "discarded"]
          /\ unacked' = Tail(unacked) /\ UNCHANGED stream
       \/ /\ unacked = <<>> /\ stream # <<>>
          /\ lost' = [lost EXCEPT ![Head(stream)] = "discarded"]
          /\ stream' = Tail(stream) /\ UNCHANGED unacked
    /\ UNCHANGED <<posted, inflight, queue, handling, booked, up>>
-----------------------------------------------------------------------------
process_update ==
    /\ up /\ handling = <<>> /\ queue # <<>>
    /\ handling' = <<Head(queue)>> /\ queue' = Tail(queue)
    /\ UNCHANGED <<server, booked, lost, up, faults>>

yookassa_hook_update ==
    /\ up /\ handling # <<>>
    /\ booked' = [booked EXCEPT ![handling[1]] = @ + 1]
    /\ handling' = <<>>
    /\ UNCHANGED <<server, queue, lost, up, faults>>

\* An exception on the way there ends the update: nothing keeps it for a
\* second try.  The message to the developer comes first, and of what it may
\* raise only a bad request and a timeout are caught.
yookassa_hook_update_raises ==
    /\ up /\ handling # <<>> /\ Fault
    /\ lost' = [lost EXCEPT ![handling[1]] = "raised"]
    /\ handling' = <<>>
    /\ UNCHANGED <<server, queue, booked, up>>

\* The bot stops at any moment: what it had in memory is gone; a message it
\* had not acknowledged comes again.
crash ==
    /\ up /\ Fault /\ up' = FALSE
    /\ lost' = [p \in Payments |->
                  IF p \in InSeq(queue) \cup InSeq(handling) THEN "crash" ELSE lost[p]]
    /\ queue' = <<>> /\ handling' = <<>>
    /\ unacked' = IF inflight = <<>> THEN unacked ELSE Append(unacked, inflight[1].p)
    /\ inflight' = <<>>
    /\ UNCHANGED <<posted, stream, booked>>

Bug_starts_with_new ==
    /\ ~up /\ up' = TRUE
    /\ stream' = <<>> /\ unacked' = <<>>
    /\ UNCHANGED <<posted, inflight, app, faults>>

\* PaymentIsBooked: the consumer is not durable, so that a bot that starts is
\* given only what is published from then on (DeliverPolicy.NEW).
restart ==
    /\ ~up /\ up' = TRUE
    /\ UNCHANGED <<server, app, faults>>
-----------------------------------------------------------------------------
Next ==
    \/ \E p \in Payments : payment_succeeds(p)
    \/ \E p \in Payments : post_notification(p)
    \/ \E p \in Payments : answer_lost(p)
    \/ deliver \/ yookassa_handler \/ acknowledge \/ ack_wait_passes \/ discard
    \/ process_update \/ yookassa_hook_update \/ yookassa_hook_update_raises
    \/ crash \/ restart

Succeeded(p) == posted[p] = "trying"
Settled(p) == booked[p] > 0 \/ lost[p] # "no"

\* The tickets of every payment that succeeds are marked paid in the end,
\* unless the bot stopped with its news in memory, its handler raised, or the
\* stream, which has its limits and is shared, threw the message away before
\* the bot had taken it: a bot that was down is given what it missed, and one
\* message not acknowledged comes again (api/broker_nats.py 23-43).
PaymentIsBooked == \A p \in Payments : Succeeded(p) ~> Settled(p)

Spec == Init /\ [][Next]_vars
=============================================================================
