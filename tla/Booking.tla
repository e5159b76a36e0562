------------------------------ MODULE Booking ------------------------------
(***************************************************************************)
(* The life of a ticket and the seat counters of the schedule: every       *)
(* handler of the bot, the website and the two clean-up jobs that changes  *)
(* a ticket's status or an event's counters.                               *)
(*                                                                         *)
(* One action is one handler from its first statement to its last: the bot *)
(* takes updates one at a time (bot.py does not turn concurrent_updates    *)
(* on).  A handler commits several times, though, and may stop between two *)
(* commits; where it does, the action has an outcome for each stop.  What  *)
(* the jobs and the website do to a handler WHILE it runs is in            *)
(* Sessions.tla.                                                           *)
(*                                                                         *)
(* An operator whose name starts with Bug is its neighbour with a mistake  *)
(* in it; nothing uses it.  PROJECT.json names the property that notices.  *)
(*                                                                         *)
(* A booking has one ticket here.  (Season tickets of the studio, which    *)
(* create one ticket for each event but hold seats for one, are left out.) *)
(***************************************************************************)
EXTENDS Integers, FiniteSets

CONSTANTS
    Users,         \* chats of the bot
    Admins,        \* those of them that may use the *_admin commands
    Tickets,       \* ticket rows, existing or still to be created
    Events,        \* schedule events
    Workshops,     \* the events of type 15 (utl_check.py:38)
    Bases,         \* base tickets: the kinds of ticket on sale
    Quality,       \* seats of each kind a base ticket takes
    Capacity,      \* free seats of each event at the start
    MaxQty,        \* most seats of one kind in a base ticket
    NoUser,        \* chat_id 0: a website buyer unknown to the bot
    NoTicket,      \* no ticket_ids in the user's data
    Attempts,      \* times the webhook tries to send a message to the admins
    MaxMishaps,    \* bound: lost writes and interrupted handlers
    MaxOrders,     \* bound: /update_ticket and migrations
    MaxDeliveries  \* bound: deliveries of one payment's notification

Kinds == {"child", "adult"}

ASSUME BookingAssumption ==
    /\ IsFiniteSet(Tickets) /\ IsFiniteSet(Events)
    /\ Admins \subseteq Users /\ Workshops \subseteq Events
    /\ NoUser \notin Users /\ NoTicket \notin Tickets
    /\ Events # {} /\ Bases # {}
    /\ MaxQty \in Nat
    /\ Quality \in [Bases -> [Kinds -> 0..MaxQty]]
    /\ Capacity \in [Events -> [Kinds -> Nat]]
    /\ Attempts \in Nat \ {0}
    /\ MaxMishaps \in Nat /\ MaxOrders \in Nat /\ MaxDeliveries \in Nat

VARIABLES
    \* rows of the table tickets
    status,      \* Ticket.status; "ABSENT" before the row exists
    event,       \* Ticket.schedule_event_id
    base,        \* Ticket.base_ticket_id
    notified,    \* Ticket.is_admin_notified
    age,         \* 0: fresh, 1: over 10 minutes old, 2: over 30 minutes
    owner,       \* the chat the ticket was sold to
    \* rows of the table schedule_events
    free,        \* qty_child_free_seat, qty_adult_free_seat
    nonconfirm,  \* qty_child_nonconfirm_seat, qty_adult_nonconfirm_seat
    \* the payment service
    payment,     \* the payment made for a ticket
    origin,      \* what it was booked with: the command, or "website"
    deliveries,  \* how often its notification was handled
    \* Telegram and the bot's user_data
    conv,        \* the dialog of each user
    nextSent,    \* tickets whose buyer has a message with the button "Next"
    keyboard,    \* messages about a ticket with Confirm and Reject, none pressed
    pressed,     \* presses of these buttons not handled yet
    \* kept for the properties and the bounds, not by the program
    drift,       \* events whose counters are no longer kept (see OffBook)
    unchecked,   \* seats of an event handed out without asking how many are free
    asked,       \* messages with Confirm and Reject that arrived about a ticket
    unheard,     \* those of them after which the ticket was not marked, or
                 \* whose sending timed out although they arrived
    mishaps,
    orders

rowVars     == <<event, base, owner, origin>>
seatVars    == <<free, nonconfirm>>
payVars     == <<payment, deliveries>>
askVars     == <<notified, keyboard, asked, unheard>>
noticeVars  == <<askVars, pressed>>
historyVars == <<drift, unchecked, mishaps, orders>>
vars == <<status, rowVars, age, seatVars, payVars, noticeVars, conv, nextSent,
          historyVars>>

Final   == {"REJECTED", "REFUNDED", "TRANSFERRED", "MIGRATED", "CANCELED"}
Pending == {"CREATED", "PAID"}
Status  == Final \cup Pending \cup {"APPROVED"}

NoSeats == [k \in Kinds |-> 0]

Commands == {"reserve", "studio", "reserve_admin"}
IsAdmin(command) == command = "reserve_admin"

\* The dialog's part of context.user_data; summary says that the summary
\* of the reservation, with the button PAY, is on the user's screen.
Idle == [state |-> "none", ticket |-> NoTicket, changed_seat |-> FALSE,
         command |-> "none", summary |-> FALSE]

Dialog == [state : {"none", "CONFIRM_RESERVATION", "PAID", "WAIT_RECEIPT", "END"},
           ticket : Tickets \cup {NoTicket},
           changed_seat : BOOLEAN,
           command : Commands \cup {"none"},
           summary : BOOLEAN]

TypeOK ==
    /\ status \in [Tickets -> Status \cup {"ABSENT"}]
    /\ event \in [Tickets -> Events]
    /\ base \in [Tickets -> Bases]
    /\ notified \in [Tickets -> BOOLEAN]
    /\ age \in [Tickets -> 0..2]
    /\ owner \in [Tickets -> Users \cup {NoUser}]
    /\ free \in [Events -> [Kinds -> Int]]
    /\ nonconfirm \in [Events -> [Kinds -> Int]]
    /\ payment \in [Tickets -> {"none", "pending", "succeeded"}]
    /\ origin \in [Tickets -> Commands \cup {"none", "website"}]
    /\ deliveries \in [Tickets -> Nat]
    /\ conv \in [Users -> Dialog]
    /\ nextSent \subseteq Tickets
    /\ keyboard \in [Tickets -> Nat]
    /\ pressed \subseteq Tickets \X {"confirm", "reject"}
    /\ asked \in [Tickets -> Nat]
    /\ unheard \in [Tickets -> Nat]
    /\ drift \subseteq Events
    /\ unchecked \in [Events -> [Kinds -> Nat]]
    /\ mishaps \in Nat
    /\ orders \in Nat

Init ==
    /\ status = [t \in Tickets |-> "ABSENT"]
    /\ event = [t \in Tickets |-> CHOOSE e \in Events : TRUE]
    /\ base = [t \in Tickets |-> CHOOSE b \in Bases : TRUE]
    /\ notified = [t \in Tickets |-> FALSE]
    /\ age = [t \in Tickets |-> 0]
    /\ owner = [t \in Tickets |-> NoUser]
    /\ free = Capacity
    /\ nonconfirm = [e \in Events |-> NoSeats]
    /\ payment = [t \in Tickets |-> "none"]
    /\ origin = [t \in Tickets |-> "none"]
    /\ deliveries = [t \in Tickets |-> 0]
    /\ conv = [u \in Users |-> Idle]
    /\ nextSent = {} /\ pressed = {}
    /\ keyboard = [t \in Tickets |-> 0]
    /\ asked = [t \in Tickets |-> 0] /\ unheard = [t \in Tickets |-> 0]
    /\ drift = {} /\ unchecked = [e \in Events |-> NoSeats]
    /\ mishaps = 0 /\ orders = 0
-----------------------------------------------------------------------------
(* The seat operations of db/db_googlesheets.py.  Each reads the event and *)
(* the base ticket and writes the new numbers.  "done" is the normal       *)
(* outcome; after a TimeoutError the operation returns 0, and either       *)
(* nothing was written ("lost") or the commit had gone through ("late").   *)
(* Where the caller ignores the result, "late" is the same as "done".      *)

Raise(counter, e, b) ==
    [counter EXCEPT ![e] = [k \in Kinds |-> counter[e][k] + Quality[b][k]]]
Lower(counter, e, b) ==
    [counter EXCEPT ![e] = [k \in Kinds |-> counter[e][k] - Quality[b][k]]]

Written(outcome) == outcome # "lost"

decrease_free_and_increase_nonconfirm_seat(e, b, outcome) ==
    IF Written(outcome)
    THEN free' = Lower(free, e, b) /\ nonconfirm' = Raise(nonconfirm, e, b)
    ELSE UNCHANGED seatVars

increase_free_and_decrease_nonconfirm_seat(e, b, outcome) ==
    IF Written(outcome)
    THEN free' = Raise(free, e, b) /\ nonconfirm' = Lower(nonconfirm, e, b)
    ELSE UNCHANGED seatVars

increase_free_seat(e, b, outcome) ==
    /\ free' = IF Written(outcome) THEN Raise(free, e, b) ELSE free
    /\ UNCHANGED nonconfirm

decrease_free_seat(e, b, outcome) ==
    /\ free' = IF Written(outcome) THEN Lower(free, e, b) ELSE free
    /\ UNCHANGED nonconfirm

Bug_confirmation_frees_seats(e, b, outcome) ==
    IF Written(outcome)
    THEN free' = Raise(free, e, b) /\ nonconfirm' = Lower(nonconfirm, e, b)
    ELSE UNCHANGED seatVars

decrease_nonconfirm_seat(e, b, outcome) ==
    /\ nonconfirm' = IF Written(outcome) THEN Lower(nonconfirm, e, b) ELSE nonconfirm
    /\ UNCHANGED free

update_free_seat(e, old, new, outcome) ==
    /\ free' = IF Written(outcome) THEN Lower(Raise(free, e, old), e, new) ELSE free
    /\ UNCHANGED nonconfirm

Bug_one_seat_too_many(e, b) ==
    \A k \in Kinds : free[e][k] + 1 >= Quality[b][k]

check_available_ticket_by_free_seat(e, b) ==
    LET q == Quality[b]  f == free[e]
    IN  /\ \A k \in Kinds : f[k] >= q[k]
        /\ q["adult"] > 0 /\ e \notin Workshops
             => q["adult"] - q["child"] <= f["adult"] - f["child"]

-----------------------------------------------------------------------------
(* History.  OffBook(E) names the events whose counters stop being kept in *)
(* this step; each use of it says why.                                     *)

OffBook(E) == drift' = drift \cup E
OffBookIf(e, condition) == OffBook(IF condition THEN {e} ELSE {})

Mishap(happens) ==
    /\ happens => mishaps < MaxMishaps
    /\ mishaps' = IF happens THEN mishaps + 1 ELSE mishaps

Order == orders < MaxOrders /\ orders' = orders + 1

\* Seats of event e are handed out and nobody asked whether they are free.
Unchecked(e, seats) ==
    unchecked' = [unchecked EXCEPT ![e] = [k \in Kinds |-> unchecked[e][k] + seats[k]]]

-----------------------------------------------------------------------------
(* Booking in the bot.                                                     *)

create_ticket(t, u, e, b, command) ==
    /\ status[t] = "ABSENT"
    /\ event' = [event EXCEPT ![t] = e]
    /\ base' = [base EXCEPT ![t] = b]
    /\ owner' = [owner EXCEPT ![t] = u]
    /\ origin' = [origin EXCEPT ![t] = command]

SetStatus(t, new) == status' = [status EXCEPT ![t] = new]
SetDialog(u, new) == conv' = [conv EXCEPT ![u] = new]

\* A command opens a dialog, over whatever dialog there was: the old one's
\* data is dropped and its ticket stays as it is.  The screens on which
\* event, ticket and buyer are chosen lead to the summary.
init_conv_hl_dialog(u, command) ==
    /\ IsAdmin(command) => u \in Admins
    /\ SetDialog(u, [state |-> "CONFIRM_RESERVATION", ticket |-> NoTicket,
                     changed_seat |-> FALSE, command |-> command, summary |-> TRUE])
    /\ UNCHANGED <<status, rowVars, age, seatVars, payVars, noticeVars, nextSent,
                   historyVars>>

\* Telegram timed out after the ticket was written and before seats were
\* taken (sub_hl.py:318): a ticket with no seats is left behind.
BookingTorn(u, t, e) ==
    /\ SetStatus(t, "CREATED")
    /\ SetDialog(u, [conv[u] EXCEPT !.ticket = t, !.changed_seat = FALSE,
                                    !.summary = FALSE])
    /\ OffBook({e}) /\ Mishap(TRUE)
    /\ UNCHANGED <<seatVars, payment, unchecked>>

\* The seats were not taken, or the answer says so: the ticket is cancelled
\* and keeps no seats.  If the write was late the seats stay taken.
BookingRefused(u, t, e, b, outcome) ==
    /\ SetStatus(t, "CANCELED")
    /\ decrease_free_and_increase_nonconfirm_seat(e, b, outcome)
    /\ SetDialog(u, Idle)
    /\ OffBookIf(e, outcome = "late") /\ Mishap(TRUE)
    /\ UNCHANGED <<payment, unchecked>>

\* The seats are taken.  The payment may fail to be created: the user's
\* data is then dropped (or, if Telegram timed out, left as it is).
BookingHeld(u, t, e, b) ==
    /\ SetStatus(t, "CREATED")
    /\ decrease_free_and_increase_nonconfirm_seat(e, b, "done")
    /\ OffBook({})
    /\ LET held == [conv[u] EXCEPT !.ticket = t, !.changed_seat = TRUE,
                                   !.summary = FALSE]
       IN  \/ /\ payment' = [payment EXCEPT ![t] = "pending"]
              /\ SetDialog(u, [held EXCEPT !.state = "PAID"])
              /\ Mishap(FALSE)
           \/ /\ \E left \in {Idle, held} : SetDialog(u, left)
              /\ Mishap(TRUE)
              /\ UNCHANGED payment
    /\ Unchecked(e, IF conv[u].command = "reserve" THEN NoSeats ELSE Quality[b])

create_and_send_payment(u, t, e, b) ==
    /\ create_ticket(t, u, e, b, conv[u].command)
    /\ \/ BookingTorn(u, t, e)
       \/ \E outcome \in {"lost", "late"} : BookingRefused(u, t, e, b, outcome)
       \/ BookingHeld(u, t, e, b)
    /\ UNCHANGED <<age, deliveries, noticeVars, nextSent, orders>>

\* Only /reserve asks whether the seats are free.
confirm_go_pay(u, t, e, b) ==
    /\ conv[u].summary
    /\ conv[u].command = "reserve" => check_available_ticket_by_free_seat(e, b)
    /\ create_and_send_payment(u, t, e, b)

\* An admin books without payment: CREATED, seats, then APPROVED, with two
\* places where Telegram may interrupt.
confirm_admin_without_payment(u, t, e, b) ==
    /\ conv[u].summary /\ IsAdmin(conv[u].command)
    /\ create_ticket(t, u, e, b, conv[u].command)
    /\ LET left == [conv[u] EXCEPT !.ticket = t, !.summary = FALSE]
       IN  \/ \E outcome \in {"lost", "late"} :
                 /\ SetStatus(t, "CANCELED")
                 /\ decrease_free_seat(e, b, outcome)
                 /\ SetDialog(u, Idle)
                 /\ OffBookIf(e, outcome = "late") /\ Mishap(TRUE)
                 /\ UNCHANGED notified
           \/ \E outcome \in {"lost", "done"} : \* interrupted before, after
                 /\ SetStatus(t, "CREATED")
                 /\ decrease_free_seat(e, b, outcome)
                 /\ SetDialog(u, left)
                 /\ OffBook({e}) /\ Mishap(TRUE)
                 /\ UNCHANGED notified
           \/ /\ SetStatus(t, "APPROVED")
              /\ decrease_free_seat(e, b, "done")
              /\ SetDialog(u, [left EXCEPT !.state = "END"])
              /\ OffBook({}) /\ Mishap(FALSE)
              /\ notified' = [notified EXCEPT ![t] = TRUE]
    /\ Unchecked(e, Quality[b])
    /\ UNCHANGED <<age, payVars, keyboard, pressed, asked, unheard, nextSent, orders>>

-----------------------------------------------------------------------------
(* Booking on the website: ticket and seats in one commit.  The form says  *)
(* how many children come; that number is compared with the free seats,    *)
(* and not the seats the chosen base ticket takes: nobody asks about the   *)
(* seats of adults, nor of the children the form does not name.            *)

UnaskedByForm(b, children) ==
    [k \in Kinds |-> IF k = "adult" THEN Quality[b][k]
                     ELSE IF children < Quality[b][k] THEN Quality[b][k] - children
                     ELSE 0]

post_booking_form(u, t, e, b, children) ==
    /\ free[e]["child"] >= children
    /\ create_ticket(t, u, e, b, "website")
    /\ SetStatus(t, "CREATED")
    /\ decrease_free_and_increase_nonconfirm_seat(e, b, "done")
    /\ \E made \in {"pending", "none"} : payment' = [payment EXCEPT ![t] = made]
    /\ Unchecked(e, UnaskedByForm(b, children))
    /\ UNCHANGED <<age, deliveries, noticeVars, conv, nextSent, drift, mishaps, orders>>

-----------------------------------------------------------------------------
(* Payment.  The payment service takes the money of a pending payment at   *)
(* any time, whatever became of the ticket meanwhile, and has its          *)
(* notification delivered one or more times.                               *)

Pay(t) ==
    /\ payment[t] = "pending"
    /\ payment' = [payment EXCEPT ![t] = "succeeded"]
    /\ UNCHANGED <<status, rowVars, age, seatVars, deliveries, noticeVars, conv,
                   nextSent, historyVars>>

Bug_keeps_origin(t) ==
    LET u == owner[t] IN
    conv' = IF u = NoUser THEN conv
            ELSE [conv EXCEPT ![u] = [conv[u] EXCEPT !.state = "PAID",
                                          !.ticket = t, !.command = origin[t]]]

\* The buyer's data after a notification: the state is forced to PAID.  For
\* a website ticket the dialog is made to be about that ticket; so it is for
\* any ticket (sub_hl.py:954) when the buyer of the dialog is not known: none
\* is open, or it has not come to that question.
DialogAfterWebhook(t) ==
    LET u == owner[t] IN
    IF u = NoUser THEN UNCHANGED conv
    ELSE IF origin[t] = "website"
    THEN SetDialog(u, [conv[u] EXCEPT !.state = "PAID", !.ticket = t,
                                      !.command = "reserve"])
    ELSE \E about \in {conv[u].ticket, t} :
           /\ about # conv[u].ticket => conv[u].ticket = NoTicket
           /\ conv[u] = Idle => about = t
           /\ SetDialog(u, [conv[u] EXCEPT !.state = "PAID", !.ticket = about])

(* The admin group is asked to confirm or reject a ticket.  sent is what   *)
(* became of it: how many of the attempts arrived, whether one of them was *)
(* answered, and whether the ticket was marked after it.  An attempt that  *)
(* times out may have arrived.                                             *)

Sendings == {sent \in [arrived : 0..Attempts, answered : BOOLEAN, marked : BOOLEAN] :
               sent.answered => sent.arrived > 0}
Sent == [arrived |-> 1, answered |-> TRUE, marked |-> TRUE]

Ask(t, sent) ==
    /\ asked' = [asked EXCEPT ![t] = asked[t] + sent.arrived]
    /\ keyboard' = [keyboard EXCEPT ![t] = keyboard[t] + sent.arrived]
    /\ notified' = IF sent.marked THEN [notified EXCEPT ![t] = TRUE] ELSE notified
    /\ unheard' = [unheard EXCEPT ![t] =
          unheard[t] + sent.arrived - IF sent.answered /\ sent.marked THEN 1 ELSE 0]

Bug_asks_every_time(t, sent) == Ask(t, sent)

\* The webhook's: three attempts, after which the ticket is marked even if
\* none was answered; unmarked when Telegram refuses or the bot stops.
send_approve_reject_message_to_admin(t, sent) ==
    IF notified[t] THEN UNCHANGED askVars /\ sent = Sent ELSE Ask(t, sent)

\* The status is written whatever it was.  Then come the buyer's data, the
\* message with "Next" (told) and the admins, unless the bot stops at once.
\* Off the book: a ticket that no longer holds unconfirmed seats is made one
\* that does.
processing_ticket_paid(t) ==
    /\ payment[t] = "succeeded" /\ ~IsAdmin(origin[t])
    /\ deliveries[t] < MaxDeliveries
    /\ deliveries' = [deliveries EXCEPT ![t] = @ + 1]
    /\ SetStatus(t, "PAID")
    /\ \/ /\ DialogAfterWebhook(t)
          /\ \E told \in BOOLEAN, sent \in Sendings :
                /\ nextSent' = IF told /\ owner[t] # NoUser THEN nextSent \cup {t}
                               ELSE nextSent
                /\ send_approve_reject_message_to_admin(t, sent)
                /\ Mishap(~told \/ sent # Sent)
       \/ UNCHANGED <<conv, nextSent, askVars>> /\ Mishap(TRUE)
    /\ OffBookIf(event[t], status[t] \notin Pending)
    /\ UNCHANGED <<rowVars, age, seatVars, payment, pressed, unchecked, orders>>

\* An admin's pay-link: the ticket is approved and its unconfirmed seats
\* are written off, again at each delivery.
processing_ticket_paid_admin(t) ==
    /\ payment[t] = "succeeded" /\ IsAdmin(origin[t])
    /\ deliveries[t] < MaxDeliveries
    /\ deliveries' = [deliveries EXCEPT ![t] = @ + 1]
    /\ SetStatus(t, "APPROVED")
    /\ DialogAfterWebhook(t)
    /\ \E outcome \in {"done", "lost"} :
          /\ decrease_nonconfirm_seat(event[t], base[t], outcome)
          /\ OffBookIf(event[t], status[t] \notin Pending \/ outcome = "lost")
          /\ Mishap(outcome = "lost")
    /\ UNCHANGED <<rowVars, age, payment, noticeVars, nextSent, unchecked, orders>>

-----------------------------------------------------------------------------
(* The buyer after the booking.                                            *)

\* A customer's dialog.  (One that a notification opened, with no command in
\* it, answers nothing: context.user_data['command'] is read and missing.)
Buying(u) == conv[u].command # "none" /\ ~IsAdmin(conv[u].command)

\* "I have paid": the bot asks for the receipt.
confirm_payment(u) ==
    /\ conv[u].state = "PAID" /\ conv[u].ticket # NoTicket /\ Buying(u)
    /\ SetDialog(u, [conv[u] EXCEPT !.state = "WAIT_RECEIPT"])
    /\ UNCHANGED <<status, rowVars, age, seatVars, payVars, noticeVars, nextSent,
                   historyVars>>

Bug_receipt_approves(u, sent) ==
    LET t == conv[u].ticket IN
    /\ sent = Sent
    /\ IF status[t] = "CREATED"
       THEN /\ SetStatus(t, "APPROVED")
            /\ notified' = [notified EXCEPT ![t] = TRUE]
            /\ UNCHANGED <<keyboard, asked, unheard, drift>>
       ELSE UNCHANGED <<status, askVars, drift>>

\* processing_successful_payment on the ticket of the dialog: a CREATED
\* ticket is taken as paid, then the admins are asked, once and without a
\* retry, then the ticket is marked; sent.marked says that it came that far.
\* About an admin's own ticket nothing is asked.  Off the book: an admin's
\* pay-link ticket, which is approved with its seats still counted as
\* unconfirmed.
processing_successful_payment(u, sent) ==
    LET t == conv[u].ticket  admin == IsAdmin(conv[u].command) IN
    IF status[t] = "CREATED"
    THEN /\ SetStatus(t, IF admin THEN "APPROVED" ELSE "PAID")
         /\ IF notified[t] THEN UNCHANGED askVars /\ sent = Sent
            ELSE IF admin
            THEN /\ notified' = [notified EXCEPT ![t] = sent.marked]
                 /\ UNCHANGED <<keyboard, asked, unheard>>
            ELSE Ask(t, sent)
         /\ OffBookIf(event[t], admin)
    ELSE UNCHANGED <<status, askVars, drift>> /\ sent = Sent

\* What can become of one message and the mark after it: an error of
\* Telegram or of the database ends the handler before the mark.
OneSending == {sent \in Sendings : sent.arrived <= 1 /\ (sent.marked => sent = Sent)}

\* The dialog after it: as the handler leaves it, or interrupted, which the
\* error handler lets stand or ends (the ticket is CREATED no longer).
DialogAfterPayment(u, sent, left) ==
    /\ \E dialog \in IF sent.marked THEN {left} ELSE {conv[u], Idle} : SetDialog(u, dialog)
    /\ Mishap(~sent.marked)

EndIfPaid(dialog) ==
    IF dialog.state = "PAID" THEN [dialog EXCEPT !.state = "END"] ELSE dialog

\* A photo or file is taken as the receipt.
handle_receipt_file(u) ==
    /\ conv[u].state \in {"PAID", "WAIT_RECEIPT"} /\ conv[u].ticket # NoTicket /\ Buying(u)
    /\ \E sent \in OneSending :
          /\ processing_successful_payment(u, sent)
          /\ DialogAfterPayment(u, sent, [conv[u] EXCEPT !.state = "END"])
    /\ UNCHANGED <<rowVars, age, seatVars, payVars, pressed, nextSent, unchecked, orders>>

\* "Next" under the message about ticket t.  The button does not say which
\* ticket it is for: the handler takes the dialog's.  Without a ticket it
\* fails and the dialog ends; without a command the error handler fails too.
processing_successful_notification(u, t) ==
    /\ t \in nextSent /\ owner[t] = u
    /\ nextSent' = nextSent \ {t}
    /\ IF conv[u].command = "none" \/ conv[u].ticket = NoTicket
       THEN /\ SetDialog(u, IF conv[u].command = "none" THEN conv[u] ELSE Idle)
            /\ UNCHANGED <<status, askVars, drift, mishaps>>
       ELSE \E sent \in OneSending :
              /\ processing_successful_payment(u, sent)
              /\ DialogAfterPayment(u, sent, EndIfPaid(conv[u]))
    /\ UNCHANGED <<rowVars, age, seatVars, payVars, pressed, unchecked, orders>>

\* cancel_ticket_and_return_seat.  Off the book: a write that was late, and
\* an admin's pay-link ticket, whose seats are given back to free but not
\* taken from the unconfirmed ones.
cancel_ticket_and_return_seat(t, admin, outcome) ==
    /\ IF admin THEN increase_free_seat(event[t], base[t], outcome)
       ELSE increase_free_and_decrease_nonconfirm_seat(event[t], base[t], outcome)
    /\ status' = IF outcome = "done" THEN [status EXCEPT ![t] = "CANCELED"] ELSE status
    /\ OffBookIf(event[t], outcome = "late" \/ (admin /\ outcome = "done"))
    /\ Mishap(outcome # "done")

Bug_cancels_paid(u) ==
    LET t == conv[u].ticket IN
    /\ conv[u].state = "PAID" /\ t # NoTicket
    /\ status[t] \in Pending /\ conv[u].changed_seat

\* Only in state PAID is the ticket of a dialog that ends cancelled.
\* (CHILDREN, the other one of states_for_cancel, is a screen before the
\* summary, and there is no ticket before the summary.)
HasTicketToCancel(u) ==
    LET t == conv[u].ticket IN
    /\ conv[u].state = "PAID" /\ t # NoTicket
    /\ status[t] = "CREATED" /\ conv[u].changed_seat

\* The dialog ends: the button "Cancel", /start, /reset or the error handler.
\* All of them read the command, and fail in a dialog without one.
EndDialog(u) ==
    /\ conv[u].command # "none"
    /\ SetDialog(u, Idle)
    /\ LET t == conv[u].ticket IN
       IF HasTicketToCancel(u)
       THEN \E outcome \in {"done", "lost", "late"} :
              cancel_ticket_and_return_seat(t, IsAdmin(conv[u].command), outcome)
       ELSE UNCHANGED <<status, seatVars, drift, mishaps>>
    /\ UNCHANGED <<rowVars, age, payVars, noticeVars, nextSent, unchecked, orders>>

-----------------------------------------------------------------------------
(* The admins.                                                             *)

\* Confirm, Reject, or both of one message: the buttons stay until a press
\* was handled.
Presses == {{"confirm"}, {"reject"}, {"confirm", "reject"}}

PressButton(t, verdicts) ==
    /\ keyboard[t] > 0
    /\ pressed \cap ({t} \X verdicts) = {}
    /\ keyboard' = [keyboard EXCEPT ![t] = keyboard[t] - 1]
    /\ pressed' = pressed \cup ({t} \X verdicts)
    /\ UNCHANGED <<status, rowVars, age, seatVars, payVars, notified, asked, unheard,
                   conv, nextSent, historyVars>>

\* How a handler that ignores the result of its seat operation ends:
\* "lost": the operation wrote nothing, the rest of the handler ran;
\* "torn": it was interrupted after the operation, before the status.
Ends == {"done", "lost", "torn"}
StatusAfter(t, new, end) ==
    status' = IF end = "torn" THEN status ELSE [status EXCEPT ![t] = new]

\* The message loses its buttons when the handler comes to its end.
AnswerPress(t, verdict, end) ==
    /\ <<t, verdict>> \in pressed
    /\ pressed' = pressed \ {<<t, verdict>>}
    /\ keyboard' = IF end = "torn" THEN [keyboard EXCEPT ![t] = keyboard[t] + 1]
                   ELSE keyboard
    /\ Mishap(end # "done")
    /\ UNCHANGED <<rowVars, age, payVars, notified, asked, unheard, conv, nextSent,
                   unchecked, orders>>

\* Off the book: the ticket held no unconfirmed seats any more.
confirm_reserve(t) ==
    \E end \in Ends :
        /\ AnswerPress(t, "confirm", end)
        /\ IF status[t] = "APPROVED"
           THEN UNCHANGED <<status, seatVars, drift>>
           ELSE /\ decrease_nonconfirm_seat(event[t], base[t], end)
                /\ StatusAfter(t, "APPROVED", end)
                /\ OffBookIf(event[t], status[t] \notin Pending \/ end # "done")

\* The status of the ticket is not looked at.
reject_reserve(t) ==
    \E end \in Ends :
        /\ AnswerPress(t, "reject", end)
        /\ increase_free_and_decrease_nonconfirm_seat(event[t], base[t], end)
        /\ StatusAfter(t, "REJECTED", end)
        /\ OffBookIf(event[t], status[t] \notin Pending \/ end # "done")

\* The changes of status for which /update_ticket changes the counters.
Sells == Pending \X {"APPROVED"}
Releases == {<<"CREATED", "CANCELED">>, <<"CREATED", "REJECTED">>,
             <<"PAID", "REJECTED">>, <<"PAID", "REFUNDED">>}
Returns == {"APPROVED"} \X Final

\* What the seats of a ticket in this status are.
Place(s) == IF s \in Pending THEN "held" ELSE IF s = "APPROVED" THEN "sold" ELSE "none"

\* /update_ticket t Status new.  Off the book: changes the command makes to
\* the status alone although the seats of the two differ.
update_ticket_status(t, new) ==
    LET change == <<status[t], new>>  counted == change \in Sells \cup Releases \cup Returns
    IN
    /\ status[t] # "ABSENT" /\ Order
    /\ \E end \in IF counted THEN Ends ELSE {"done"} :
        /\ CASE change \in Sells -> decrease_nonconfirm_seat(event[t], base[t], end)
             [] change \in Releases ->
                  increase_free_and_decrease_nonconfirm_seat(event[t], base[t], end)
             [] change \in Returns -> increase_free_seat(event[t], base[t], end)
             [] OTHER -> UNCHANGED seatVars
        /\ StatusAfter(t, new, end)
        /\ OffBookIf(event[t], IF counted THEN end # "done"
                               ELSE Place(status[t]) # Place(new))
        /\ Mishap(end # "done")
    /\ UNCHANGED <<rowVars, age, payVars, noticeVars, conv, nextSent, unchecked>>

\* /update_ticket t Base new: only free seats are adjusted, and whether
\* there are enough of them is not asked.  Off the book: a ticket whose
\* seats are not the sold ones, and seats adjusted for a base ticket that
\* was not written.
update_ticket_base(t, new) ==
    /\ status[t] # "ABSENT" /\ new # base[t] /\ Order
    /\ \E end \in Ends :
        /\ update_free_seat(event[t], base[t], new, end)
        /\ base' = IF end = "torn" THEN base ELSE [base EXCEPT ![t] = new]
        /\ OffBookIf(event[t], status[t] # "APPROVED" \/ end # "done")
        /\ Mishap(end # "done")
    /\ Unchecked(event[t], Quality[new])
    /\ UNCHANGED <<status, event, owner, origin, age, payVars, noticeVars,
                   conv, nextSent>>

(* A migration: ticket t becomes MIGRATED, its seats go back on sale, and  *)
(* the new ticket n for event e is created and sold.                       *)

\* First half.  Off the book: t held no sold seats, or the seats could not
\* be returned.  "failed" and "late": increase_free_seat returned 0, the old
\* status is put back.  "torn": interrupted before increase_free_seat.
MigrationReturns(t, end) ==
    /\ status[t] \notin {"ABSENT", "MIGRATED"}
    /\ status' = IF end \in {"failed", "late"} THEN status
                 ELSE [status EXCEPT ![t] = "MIGRATED"]
    /\ free' = IF end \in {"failed", "torn"} THEN free ELSE Raise(free, event[t], base[t])

\* It ends there: with an error, or interrupted before the new ticket.
migration_stops(t) ==
    /\ Order /\ Mishap(TRUE)
    /\ \E end \in {"failed", "late", "torn", "returned"} :
        /\ MigrationReturns(t, end)
        /\ OffBookIf(event[t], \/ end \in {"late", "torn"}
                               \/ (end = "returned" /\ status[t] # "APPROVED"))
    /\ UNCHANGED <<rowVars, age, nonconfirm, payVars, noticeVars, conv, nextSent,
                   unchecked>>

Bug_returns_seats_twice(t) == Raise(free, event[t], base[t])

FreeOnceReturned(t) ==
    IF status[t] = "MIGRATED" THEN free ELSE Raise(free, event[t], base[t])

\* Second half.  "failed" and "late": decrease_free_seat returned 0 and the
\* OLD ticket is cancelled (reserve_admin_hl.py:284).  "before", "after":
\* interrupted before or after it; n stays CREATED.
migration(u, t, n, e, b) ==
    /\ u \in Admins /\ Order
    /\ t # n /\ status[t] # "ABSENT"
    /\ create_ticket(n, u, e, b, "reserve_admin")
    /\ LET returned == FreeOnceReturned(t)
       IN \E end \in {"done", "failed", "late", "before", "after"} :
          /\ status' = [status EXCEPT
                ![t] = IF end \in {"failed", "late"} THEN "CANCELED" ELSE "MIGRATED",
                ![n] = IF end = "done" THEN "APPROVED" ELSE "CREATED"]
          /\ free' = IF end \in {"failed", "before"} THEN returned
                     ELSE Lower(returned, e, b)
          /\ notified' = IF end = "done" THEN [notified EXCEPT ![n] = TRUE] ELSE notified
          /\ OffBook((IF status[t] \in {"APPROVED", "MIGRATED"} THEN {} ELSE {event[t]})
                     \cup IF end = "done" THEN {} ELSE {e})
          /\ Mishap(end # "done")
    /\ Unchecked(e, Quality[b])
    /\ UNCHANGED <<age, nonconfirm, payVars, keyboard, pressed, asked, unheard, conv,
                   nextSent>>

-----------------------------------------------------------------------------
(* Time and the two jobs that cancel what was not paid in time.            *)

Tick(t) ==
    /\ status[t] = "CREATED" /\ age[t] < 2
    /\ age' = [age EXCEPT ![t] = @ + 1]
    /\ UNCHANGED <<status, rowVars, seatVars, payVars, noticeVars, conv, nextSent,
                   historyVars>>

Bug_spares_paylinks(t) ==
    /\ status[t] = "CREATED" /\ age[t] >= 1 /\ payment[t] = "none"
    /\ SetStatus(t, "CANCELED")
    /\ increase_free_and_decrease_nonconfirm_seat(event[t], base[t], "done")
    /\ UNCHANGED <<rowVars, age, payVars, noticeVars, conv, nextSent, historyVars>>

\* The website's clean-up, over 10 minutes: seats and status in one commit.
cleanup_expired_bookings(t) ==
    /\ status[t] = "CREATED" /\ age[t] >= 1
    /\ SetStatus(t, "CANCELED")
    /\ increase_free_and_decrease_nonconfirm_seat(event[t], base[t], "done")
    /\ UNCHANGED <<rowVars, age, payVars, noticeVars, conv, nextSent, historyVars>>

\* The bot's hourly job, over 30 minutes; /cancel_old_created_tickets too.
cancel_old_created_tickets(t) ==
    /\ status[t] = "CREATED" /\ age[t] = 2
    /\ \E outcome \in {"done", "lost", "late"} :
          cancel_ticket_and_return_seat(t, FALSE, outcome)
    /\ UNCHANGED <<rowVars, age, payVars, noticeVars, conv, nextSent, unchecked, orders>>
-----------------------------------------------------------------------------
BuyerStep ==
    \/ \E u \in Users :
        \/ \E c \in Commands : init_conv_hl_dialog(u, c)
        \/ \E t \in Tickets, e \in Events, b \in Bases : confirm_go_pay(u, t, e, b)
        \/ confirm_payment(u)
        \/ handle_receipt_file(u)
        \/ \E t \in Tickets : processing_successful_notification(u, t)
        \/ EndDialog(u)
    \/ \E u \in Users \cup {NoUser}, t \in Tickets, e \in Events, b \in Bases,
          children \in 1..MaxQty : post_booking_form(u, t, e, b, children)
    \/ \E t \in Tickets : Pay(t)

WebhookStep ==
    \E t \in Tickets : processing_ticket_paid(t) \/ processing_ticket_paid_admin(t)

AdminStep ==
    \/ \E u \in Users, t \in Tickets, e \in Events, b \in Bases :
        \/ confirm_admin_without_payment(u, t, e, b)
        \/ \E n \in Tickets : migration(u, t, n, e, b)
    \/ \E t \in Tickets :
        \/ \E verdicts \in Presses : PressButton(t, verdicts)
        \/ confirm_reserve(t)
        \/ reject_reserve(t)
        \/ \E new \in Status : update_ticket_status(t, new)
        \/ \E new \in Bases : update_ticket_base(t, new)
        \/ migration_stops(t)

JobStep ==
    \E t \in Tickets : cleanup_expired_bookings(t) \/ cancel_old_created_tickets(t)

Next == BuyerStep \/ WebhookStep \/ AdminStep \/ JobStep \/ \E t \in Tickets : Tick(t)

Spec == Init /\ [][Next]_vars

\* Time passes, and the website's clean-up runs every minute.  Nobody is
\* obliged to pay, press or answer.
FairSpec ==
    /\ Spec
    /\ \A t \in Tickets : WF_vars(Tick(t)) /\ WF_vars(cleanup_expired_bookings(t))
-----------------------------------------------------------------------------
(* Properties.                                                             *)

TakenAt(e) == {t \in Tickets : event[t] = e /\ Place(status[t]) # "none"}
HeldAt(e)  == {t \in Tickets : event[t] = e /\ Place(status[t]) = "held"}

\* The seats of kind k of the tickets T, one element for each seat.
Seats(T, k) == {s \in T \X (1..MaxQty) : s[2] <= Quality[base[s[1]]][k]}

(***************************************************************************)
(* A ticket that is paid or approved loses its seats only by the hand of   *)
(* an admin: no job, no dialog that ends and no notification takes them.   *)
(***************************************************************************)
PaidSeatsStay ==
    [][\A t \in Tickets :
         Place(status[t]) # "none" /\ status[t] # "CREATED" /\ Place(status'[t]) = "none"
           => AdminStep]_vars

(***************************************************************************)
(* The admin group is asked about a ticket once, whether the notification  *)
(* is delivered again, the buyer also sends a receipt or presses "Next"    *)
(* (sub_hl.py:506-552, 911-933): whatever interrupts the handlers, every   *)
(* message with Confirm and Reject beyond the one its ticket is marked for *)
(* is one the bot did not hear about, because the sending timed out or it  *)
(* stopped before the mark was committed.                                  *)
(***************************************************************************)
AskedOnce ==
    \A t \in Tickets : asked[t] <= unheard[t] + IF notified[t] THEN 1 ELSE 0

(***************************************************************************)
(* A ticket does not stay CREATED: it is paid, cancelled or answered, or   *)
(* the clean-up takes it when its time is over, whatever handler died over *)
(* it (booking_service.py:17-20).                                          *)
(***************************************************************************)
CreatedIsTemporary ==
    \A t \in Tickets : status[t] = "CREATED" ~> status[t] # "CREATED"

(* What the program says of itself and does not do.                        *)

(***************************************************************************)
(* "Rejected, Transferred, Refunded, Migrated, Cancelled: these are final  *)
(* statuses.  If they must be changed we use a new ticket"                 *)
(* (main_hl.py:270-275).                                                   *)
(***************************************************************************)
FinalIsFinal ==
    [][\A t \in Tickets : status[t] \in Final => status'[t] = status[t]]_vars

(***************************************************************************)
(* "Next" stands under the message that a payment was processed; pressing  *)
(* it makes the bot report "Payment successfully processed" to the admins  *)
(* (sub_hl.py:491-520).  A ticket reported so has been paid.               *)
(***************************************************************************)
NextMeansPaid ==
    [][\A u \in Users, t, n \in Tickets :
         processing_successful_notification(u, t) =>
             (status[n] = "CREATED" /\ status'[n] = "PAID" => payment[n] = "succeeded")]_vars

(***************************************************************************)
(* "Free seats were not taken.  The new ticket is cancelled.  The old      *)
(* ticket will be counted as already migrated"                             *)
(* (reserve_admin_hl.py:287-290).                                          *)
(***************************************************************************)
OldTicketStaysMigrated ==
    [][\A u \in Users, t, n \in Tickets, e \in Events, b \in Bases :
         migration(u, t, n, e, b) => status'[t] = "MIGRATED"]_vars
=============================================================================
