---------------------------- MODULE BookingProofs ----------------------------
(* Booking, for every number of users, tickets, events and base tickets,   *)
(* and whatever the bounds: its types, whose seats a step moves, how often *)
(* the admins are asked, who approves and what reopens a ticket.           *)
EXTENDS Booking, TLAPS

Counters == [Events -> [Kinds -> Int]]
Tallies  == [Events -> [Kinds -> Nat]]
Booked   == Status \cup {"ABSENT"}

\* The seats of a base ticket are numbers.
LEMMA QualityTyped ==
    ASSUME NEW b \in Bases, NEW k \in Kinds
    PROVE  Quality[b][k] \in Int
BY BookingAssumption

\* Counters stay numbers when seats are added to them or taken from them.
LEMMA RaiseTyped ==
    ASSUME NEW counter \in Counters, NEW e \in Events, NEW b \in Bases
    PROVE  Raise(counter, e, b) \in Counters /\ Lower(counter, e, b) \in Counters
<1>1. [k \in Kinds |-> counter[e][k] + Quality[b][k]] \in [Kinds -> Int]
  BY QualityTyped DEF Counters
<1>2. [k \in Kinds |-> counter[e][k] - Quality[b][k]] \in [Kinds -> Int]
  BY QualityTyped DEF Counters
<1> QED BY <1>1, <1>2 DEF Counters, Raise, Lower

SeatsTyped == free \in Counters /\ nonconfirm \in Counters

\* So do the counters under each of the seat operations.
LEMMA SeatOperationsTyped ==
    ASSUME SeatsTyped, NEW e \in Events, NEW b \in Bases, NEW b2 \in Bases, NEW outcome
    PROVE  /\ decrease_free_and_increase_nonconfirm_seat(e, b, outcome) => SeatsTyped'
           /\ increase_free_and_decrease_nonconfirm_seat(e, b, outcome) => SeatsTyped'
           /\ increase_free_seat(e, b, outcome) => SeatsTyped'
           /\ decrease_free_seat(e, b, outcome) => SeatsTyped'
           /\ decrease_nonconfirm_seat(e, b, outcome) => SeatsTyped'
           /\ update_free_seat(e, b, b2, outcome) => SeatsTyped'
           /\ UNCHANGED seatVars => SeatsTyped'
<1>1. /\ Raise(free, e, b) \in Counters /\ Lower(free, e, b) \in Counters
      /\ Raise(nonconfirm, e, b) \in Counters /\ Lower(nonconfirm, e, b) \in Counters
  BY RaiseTyped DEF SeatsTyped
<1>2. Lower(Raise(free, e, b), e, b2) \in Counters
  BY <1>1, RaiseTyped
<1> QED
  BY <1>1, <1>2 DEF SeatsTyped, seatVars, decrease_free_and_increase_nonconfirm_seat,
     increase_free_and_decrease_nonconfirm_seat, increase_free_seat, decrease_free_seat,
     decrease_nonconfirm_seat, update_free_seat

\* A dialog stays one when fields of it are set.
LEMMA DialogTyped ==
    ASSUME NEW d \in Dialog
    PROVE  /\ Idle \in Dialog
           /\ \A s \in {"none", "CONFIRM_RESERVATION", "PAID", "WAIT_RECEIPT", "END"} :
                 [d EXCEPT !.state = s] \in Dialog
           /\ \A t \in Tickets, c, s \in BOOLEAN :
                 [d EXCEPT !.ticket = t, !.changed_seat = c, !.summary = s] \in Dialog
           /\ \A t \in Tickets, s \in BOOLEAN :
                 [d EXCEPT !.ticket = t, !.summary = s] \in Dialog
           /\ \A t \in Tickets :
                 [d EXCEPT !.state = "PAID", !.ticket = t, !.command = "reserve"] \in Dialog
BY DEF Dialog, Idle, Commands
-----------------------------------------------------------------------------
\* The parts of TypeOK.
RowsTyped ==
    /\ status \in [Tickets -> Booked]
    /\ event \in [Tickets -> Events]
    /\ base \in [Tickets -> Bases]
    /\ owner \in [Tickets -> Users \cup {NoUser}]
    /\ origin \in [Tickets -> Commands \cup {"none", "website"}]
NoticesTyped ==
    /\ notified \in [Tickets -> BOOLEAN]
    /\ nextSent \subseteq Tickets
    /\ keyboard \in [Tickets -> Nat]
    /\ pressed \subseteq Tickets \X {"confirm", "reject"}
    /\ asked \in [Tickets -> Nat]
    /\ unheard \in [Tickets -> Nat]
PaymentsTyped ==
    /\ payment \in [Tickets -> {"none", "pending", "succeeded"}]
    /\ deliveries \in [Tickets -> Nat]
HistoryTyped ==
    /\ drift \subseteq Events
    /\ unchecked \in Tallies
    /\ mishaps \in Nat
    /\ orders \in Nat
DialogsTyped == conv \in [Users -> Dialog]
AgesTyped == age \in [Tickets -> 0..2]

LEMMA TypeOKParts ==
    TypeOK <=> /\ RowsTyped /\ NoticesTyped /\ PaymentsTyped /\ HistoryTyped
               /\ DialogsTyped /\ AgesTyped /\ SeatsTyped
BY DEF TypeOK, RowsTyped, NoticesTyped, PaymentsTyped, HistoryTyped, DialogsTyped,
       AgesTyped, SeatsTyped, Counters, Tallies, Booked

\* What the helpers of the actions do to the parts.
LEMMA SetStatusTyped ==
    ASSUME status \in [Tickets -> Booked], NEW t \in Tickets
    PROVE  /\ \A new \in Booked : SetStatus(t, new) => status' \in [Tickets -> Booked]
           /\ \A new \in Booked : \A end :
                 StatusAfter(t, new, end) => status' \in [Tickets -> Booked]
           /\ UNCHANGED status => status' \in [Tickets -> Booked]
BY DEF SetStatus, StatusAfter

LEMMA HistoryTypedStep ==
    ASSUME HistoryTyped
    PROVE  /\ \A E \in SUBSET Events : OffBook(E) => (drift \subseteq Events)'
           /\ \A e \in Events : \A c : OffBookIf(e, c) => (drift \subseteq Events)'
           /\ UNCHANGED drift => (drift \subseteq Events)'
           /\ \A c : Mishap(c) => mishaps' \in Nat
           /\ UNCHANGED mishaps => mishaps' \in Nat
           /\ Order => orders' \in Nat
           /\ UNCHANGED orders => orders' \in Nat
           /\ \A e \in Events, seats \in [Kinds -> Nat] :
                 Unchecked(e, seats) => unchecked' \in Tallies
           /\ UNCHANGED unchecked => unchecked' \in Tallies
<1> USE DEF HistoryTyped
<1>1. /\ \A E \in SUBSET Events : OffBook(E) => (drift \subseteq Events)'
      /\ \A e \in Events : \A c : OffBookIf(e, c) => (drift \subseteq Events)'
      /\ UNCHANGED drift => (drift \subseteq Events)'
  BY DEF OffBook, OffBookIf
<1>2. /\ \A c : Mishap(c) => mishaps' \in Nat
      /\ UNCHANGED mishaps => mishaps' \in Nat
  BY DEF Mishap
<1>3. /\ Order => orders' \in Nat
      /\ UNCHANGED orders => orders' \in Nat
  BY DEF Order
<1>4. ASSUME NEW e \in Events, NEW seats \in [Kinds -> Nat], Unchecked(e, seats)
      PROVE  unchecked' \in Tallies
  <2>1. [k \in Kinds |-> unchecked[e][k] + seats[k]] \in [Kinds -> Nat]
    BY DEF Tallies
  <2> QED BY <1>4, <2>1 DEF Unchecked, Tallies
<1>5. UNCHANGED unchecked => unchecked' \in Tallies
  OBVIOUS
<1> QED BY <1>1, <1>2, <1>3, <1>4, <1>5

\* The seats that were not asked about are numbers.
LEMMA UnaskedTyped ==
    ASSUME NEW b \in Bases
    PROVE  /\ NoSeats \in [Kinds -> Nat] /\ Quality[b] \in [Kinds -> Nat]
           /\ \A children \in 1..MaxQty : UnaskedByForm(b, children) \in [Kinds -> Nat]
<1>1. \A k \in Kinds : Quality[b][k] \in Nat
  BY BookingAssumption
<1>2. Quality[b] \in [Kinds -> Nat]
  <2>1. Quality[b] \in [Kinds -> 0..MaxQty] /\ 0..MaxQty \subseteq Nat
    BY BookingAssumption
  <2> QED BY <2>1
<1>3. ASSUME NEW children \in 1..MaxQty
      PROVE  UnaskedByForm(b, children) \in [Kinds -> Nat]
  <2>1. children \in Nat
    BY BookingAssumption
  <2>2. ASSUME NEW k \in Kinds
        PROVE  (IF k = "adult" THEN Quality[b][k]
                ELSE IF children < Quality[b][k] THEN Quality[b][k] - children
                ELSE 0) \in Nat
    BY <1>1, <2>1
  <2> QED BY <2>2 DEF UnaskedByForm
<1> QED BY <1>2, <1>3 DEF NoSeats

\* Asking the admins, or not, leaves numbers and marks.
LEMMA AskTyped ==
    ASSUME NoticesTyped, NEW t \in Tickets, NEW sent \in Sendings,
           Ask(t, sent), UNCHANGED pressed, nextSent' \subseteq Tickets
    PROVE  NoticesTyped'
<1>1. sent.arrived \in Nat /\ (sent.answered => sent.arrived > 0)
  BY BookingAssumption DEF Sendings
<1>2. asked[t] \in Nat /\ unheard[t] \in Nat /\ keyboard[t] \in Nat
  BY DEF NoticesTyped
<1>3. unheard[t] + sent.arrived - (IF sent.answered /\ sent.marked THEN 1 ELSE 0) \in Nat
  BY <1>1, <1>2
<1>4. /\ asked' \in [Tickets -> Nat] /\ keyboard' \in [Tickets -> Nat]
      /\ unheard' \in [Tickets -> Nat]
  BY <1>1, <1>2, <1>3 DEF Ask, NoticesTyped
<1> QED BY <1>4 DEF Ask, NoticesTyped

LEMMA CreateTyped ==
    ASSUME RowsTyped, NEW t \in Tickets, NEW u \in Users \cup {NoUser}, NEW e \in Events,
           NEW b \in Bases, NEW command \in Commands \cup {"none", "website"},
           create_ticket(t, u, e, b, command), status' \in [Tickets -> Booked]
    PROVE  RowsTyped'
<1>1. event' \in [Tickets -> Events] /\ base' \in [Tickets -> Bases]
  BY DEF create_ticket, RowsTyped
<1>2. owner' \in [Tickets -> Users \cup {NoUser}]
  BY DEF create_ticket, RowsTyped
<1>3. origin' \in [Tickets -> Commands \cup {"none", "website"}]
  BY DEF create_ticket, RowsTyped
<1> QED BY <1>1, <1>2, <1>3 DEF RowsTyped

LEMMA RowsSameTyped ==
    ASSUME RowsTyped, UNCHANGED rowVars, status' \in [Tickets -> Booked]
    PROVE  RowsTyped'
BY DEF RowsTyped, rowVars
-----------------------------------------------------------------------------
AllTyped == /\ RowsTyped /\ NoticesTyped /\ PaymentsTyped /\ HistoryTyped
            /\ DialogsTyped /\ AgesTyped /\ SeatsTyped

LEMMA BookedStatuses ==
    /\ {"ABSENT", "CREATED", "PAID", "APPROVED", "REJECTED", "CANCELED", "MIGRATED"}
         \subseteq Booked
    /\ Status \subseteq Booked
BY DEF Booked, Status, Final, Pending

\* The dialogs, when one user's changes.
LEMMA SetDialogTyped ==
    ASSUME DialogsTyped, NEW u \in Users, NEW d \in Dialog
    PROVE  SetDialog(u, d) => DialogsTyped'
BY DEF SetDialog, DialogsTyped

\* The ticket of a dialog that has one.
LEMMA DialogTicket ==
    ASSUME DialogsTyped, NEW u \in Users
    PROVE  /\ conv[u] \in Dialog
           /\ conv[u].ticket \in Tickets \cup {NoTicket}
           /\ conv[u].command \in Commands \cup {"none"}
BY DEF DialogsTyped, Dialog

\* The bot's bookings that a buyer pays for.
LEMMA ConfirmGoPayTyped ==
    ASSUME AllTyped, NEW u \in Users, NEW t \in Tickets, NEW e \in Events, NEW b \in Bases,
           confirm_go_pay(u, t, e, b)
    PROVE  AllTyped'
<1> USE BookedStatuses, DialogTicket DEF AllTyped
<1> DEFINE torn == [conv[u] EXCEPT !.ticket = t, !.changed_seat = FALSE, !.summary = FALSE]
           held == [conv[u] EXCEPT !.ticket = t, !.changed_seat = TRUE, !.summary = FALSE]
<1>1. /\ create_ticket(t, u, e, b, conv[u].command)
      /\ UNCHANGED <<age, deliveries, noticeVars, nextSent, orders>>
  BY DEF confirm_go_pay, create_and_send_payment
<1>2. PICK new \in Booked : SetStatus(t, new)
  BY DEF confirm_go_pay, create_and_send_payment, BookingTorn, BookingRefused,
     BookingHeld
<1>3. status' \in [Tickets -> Booked]
  BY <1>2, SetStatusTyped DEF RowsTyped
<1>4. RowsTyped'
  BY <1>1, <1>3, CreateTyped
<1>5. /\ torn \in Dialog /\ held \in Dialog /\ Idle \in Dialog
      /\ [held EXCEPT !.state = "PAID"] \in Dialog
  <2>1. torn \in Dialog /\ held \in Dialog /\ Idle \in Dialog
    BY DialogTyped
  <2> HIDE DEF held, torn
  <2> QED BY <2>1, DialogTyped
<1>6. CASE BookingTorn(u, t, e)
  <2>1. DialogsTyped'
    BY <1>5, <1>6, SetDialogTyped DEF BookingTorn
  <2>2. SeatsTyped'
    BY <1>6, SeatOperationsTyped DEF BookingTorn
  <2>3. PaymentsTyped'
    BY <1>1, <1>6 DEF BookingTorn, PaymentsTyped
  <2>4. HistoryTyped'
    BY <1>1, <1>6, HistoryTypedStep DEF BookingTorn, HistoryTyped
  <2> QED BY <1>1, <1>4, <2>1, <2>2, <2>3, <2>4 DEF NoticesTyped, AgesTyped, noticeVars,
            askVars
<1>7. ASSUME NEW outcome \in {"lost", "late"}, BookingRefused(u, t, e, b, outcome)
      PROVE  AllTyped'
  <2>1. DialogsTyped'
    BY <1>5, <1>7, SetDialogTyped DEF BookingRefused
  <2>2. SeatsTyped'
    BY <1>7, SeatOperationsTyped DEF BookingRefused
  <2>3. PaymentsTyped'
    BY <1>1, <1>7 DEF BookingRefused, PaymentsTyped
  <2>4. HistoryTyped'
    BY <1>1, <1>7, HistoryTypedStep DEF BookingRefused, HistoryTyped
  <2> QED BY <1>1, <1>4, <2>1, <2>2, <2>3, <2>4 DEF NoticesTyped, AgesTyped, noticeVars,
            askVars
<1>8. CASE BookingHeld(u, t, e, b)
  <2>1. DialogsTyped'
    BY <1>5, <1>8, SetDialogTyped DEF BookingHeld
  <2>2. SeatsTyped'
    BY <1>8, SeatOperationsTyped DEF BookingHeld
  <2>3. PaymentsTyped'
    BY <1>1, <1>8 DEF BookingHeld, PaymentsTyped
  <2>4. HistoryTyped'
    <3>1. PICK seats \in [Kinds -> Nat] : Unchecked(e, seats)
      BY <1>8, UnaskedTyped DEF BookingHeld
    <3>2. mishaps' \in Nat /\ (drift \subseteq Events)'
      BY <1>8, HistoryTypedStep DEF BookingHeld
    <3> QED BY <1>1, <3>1, <3>2, HistoryTypedStep DEF HistoryTyped
  <2> QED BY <1>1, <1>4, <2>1, <2>2, <2>3, <2>4 DEF NoticesTyped, AgesTyped, noticeVars,
            askVars
<1> QED BY <1>6, <1>7, <1>8 DEF confirm_go_pay, create_and_send_payment

\* Bookings for which nobody pays, on the website and by an admin.
LEMMA OtherBookingsTyped ==
    ASSUME AllTyped, NEW t \in Tickets, NEW e \in Events, NEW b \in Bases
    PROVE  /\ \A u \in Users : confirm_admin_without_payment(u, t, e, b) => AllTyped'
           /\ \A u \in Users \cup {NoUser}, children \in 1..MaxQty :
                 post_booking_form(u, t, e, b, children) => AllTyped'
<1> USE BookedStatuses, DialogTicket DEF AllTyped
<1>1. ASSUME NEW u \in Users, confirm_admin_without_payment(u, t, e, b) PROVE AllTyped'
  <2> DEFINE left == [conv[u] EXCEPT !.ticket = t, !.summary = FALSE]
  <2>1. /\ create_ticket(t, u, e, b, conv[u].command)
        /\ Unchecked(e, Quality[b])
        /\ UNCHANGED <<age, payVars, keyboard, pressed, asked, unheard, nextSent, orders>>
    BY <1>1 DEF confirm_admin_without_payment
  <2>2. left \in Dialog /\ Idle \in Dialog /\ [left EXCEPT !.state = "END"] \in Dialog
    <3>1. left \in Dialog /\ Idle \in Dialog
      BY DialogTyped
    <3> HIDE DEF left
    <3> QED BY <3>1, DialogTyped
  <2>3. PICK new \in Booked, d \in Dialog, outcome \in {"lost", "late", "done"},
             E \in SUBSET Events, c \in BOOLEAN,
             mark \in {notified, [notified EXCEPT ![t] = TRUE]} :
           /\ SetStatus(t, new) /\ SetDialog(u, d) /\ decrease_free_seat(e, b, outcome)
           /\ OffBook(E) /\ Mishap(c) /\ notified' = mark
    <3>1. CASE \E outcome \in {"lost", "late"} :
                 /\ SetStatus(t, "CANCELED") /\ decrease_free_seat(e, b, outcome)
                 /\ SetDialog(u, Idle) /\ OffBookIf(e, outcome = "late") /\ Mishap(TRUE)
                 /\ UNCHANGED notified
      <4>1. PICK outcome \in {"lost", "late"} :
                 /\ SetStatus(t, "CANCELED") /\ decrease_free_seat(e, b, outcome)
                 /\ SetDialog(u, Idle) /\ OffBookIf(e, outcome = "late") /\ Mishap(TRUE)
                 /\ UNCHANGED notified
        BY <3>1
      <4>2. /\ OffBook(IF outcome = "late" THEN {e} ELSE {})
            /\ (IF outcome = "late" THEN {e} ELSE {}) \in SUBSET Events
        BY <4>1 DEF OffBookIf
      <4> QED BY <4>1, <4>2, <2>2
    <3>2. CASE \E outcome \in {"lost", "done"} :
                 /\ SetStatus(t, "CREATED") /\ decrease_free_seat(e, b, outcome)
                 /\ SetDialog(u, left) /\ OffBook({e}) /\ Mishap(TRUE)
                 /\ UNCHANGED notified
      <4> HIDE DEF left
      <4> QED BY <3>2, <2>2
    <3>3. CASE /\ SetStatus(t, "APPROVED") /\ decrease_free_seat(e, b, "done")
               /\ SetDialog(u, [left EXCEPT !.state = "END"])
               /\ OffBook({}) /\ Mishap(FALSE)
               /\ notified' = [notified EXCEPT ![t] = TRUE]
      <4> HIDE DEF left
      <4> QED BY <3>3, <2>2
    <3> QED BY <1>1, <3>1, <3>2, <3>3 DEF confirm_admin_without_payment
  <2>4. RowsTyped'
    BY <2>1, <2>3, SetStatusTyped, CreateTyped DEF RowsTyped
  <2>5. DialogsTyped'
    BY <2>3, SetDialogTyped
  <2>6. SeatsTyped'
    BY <2>3, SeatOperationsTyped
  <2>7. HistoryTyped'
    BY <2>1, <2>3, HistoryTypedStep, UnaskedTyped DEF HistoryTyped
  <2>8. NoticesTyped'
    BY <2>1, <2>3 DEF NoticesTyped
  <2> QED BY <2>1, <2>4, <2>5, <2>6, <2>7, <2>8 DEF PaymentsTyped, AgesTyped, payVars
<1>2. ASSUME NEW u \in Users \cup {NoUser}, NEW children \in 1..MaxQty,
             post_booking_form(u, t, e, b, children)
      PROVE  AllTyped'
  <2>1. RowsTyped'
    BY <1>2, SetStatusTyped, CreateTyped DEF RowsTyped, post_booking_form
  <2>2. SeatsTyped'
    BY <1>2, SeatOperationsTyped DEF post_booking_form
  <2>3. PaymentsTyped'
    BY <1>2 DEF PaymentsTyped, post_booking_form
  <2>4. unchecked' \in Tallies
    BY <1>2, HistoryTypedStep, UnaskedTyped DEF post_booking_form
  <2> QED
    BY <1>2, <2>1, <2>2, <2>3, <2>4 DEF HistoryTyped, NoticesTyped, DialogsTyped,
       AgesTyped, post_booking_form, noticeVars, askVars
<1> QED BY <1>1, <1>2

\* Payments and their notifications.
LEMMA PaymentStepsTyped ==
    ASSUME AllTyped, NEW t \in Tickets
    PROVE  /\ Pay(t) => AllTyped'
           /\ processing_ticket_paid(t) => AllTyped'
           /\ processing_ticket_paid_admin(t) => AllTyped'
<1> USE BookedStatuses DEF AllTyped
<1>1. ASSUME Pay(t) PROVE AllTyped'
  BY <1>1 DEF Pay, rowVars, seatVars, noticeVars, askVars, historyVars, RowsTyped, NoticesTyped,
     PaymentsTyped, HistoryTyped, DialogsTyped, AgesTyped, SeatsTyped
<1>2. DialogAfterWebhook(t) => DialogsTyped'
  <2> SUFFICES ASSUME DialogAfterWebhook(t), owner[t] # NoUser PROVE DialogsTyped'
    BY DEF DialogAfterWebhook, DialogsTyped
  <2>1. owner[t] \in Users /\ conv[owner[t]] \in Dialog
    BY DEF RowsTyped, DialogsTyped
  <2>2. \A about \in {conv[owner[t]].ticket, t} :
           [conv[owner[t]] EXCEPT !.state = "PAID", !.ticket = about] \in Dialog
    BY <2>1 DEF Dialog
  <2>3. [conv[owner[t]] EXCEPT !.state = "PAID", !.ticket = t, !.command = "reserve"]
          \in Dialog
    BY <2>1, DialogTyped
  <2>4. \E d \in Dialog : SetDialog(owner[t], d)
    BY <2>2, <2>3 DEF DialogAfterWebhook
  <2> QED BY <2>1, <2>4 DEF DialogsTyped, SetDialog
<1>3. ASSUME processing_ticket_paid(t) PROVE AllTyped'
  <2>1. RowsTyped'
    BY <1>3, SetStatusTyped, RowsSameTyped DEF RowsTyped, processing_ticket_paid
  <2>2. DialogsTyped'
    BY <1>2, <1>3 DEF processing_ticket_paid, DialogsTyped
  <2>3. PaymentsTyped'
    BY <1>3 DEF PaymentsTyped, processing_ticket_paid
  <2>4. NoticesTyped'
    <3>1. CASE UNCHANGED <<nextSent, askVars>>
      BY <1>3, <3>1 DEF NoticesTyped, processing_ticket_paid, askVars
    <3>2. ASSUME NEW sent \in Sendings, nextSent' \subseteq Tickets,
                 send_approve_reject_message_to_admin(t, sent)
          PROVE  NoticesTyped'
      <4>1. UNCHANGED pressed
        BY <1>3 DEF processing_ticket_paid
      <4>2. CASE notified[t]
        BY <3>2, <4>1, <4>2 DEF send_approve_reject_message_to_admin, NoticesTyped, askVars
      <4>3. CASE ~notified[t]
        BY <3>2, <4>1, <4>3, AskTyped DEF send_approve_reject_message_to_admin
      <4> QED BY <4>2, <4>3
    <3> QED BY <1>3, <3>1, <3>2 DEF processing_ticket_paid, NoticesTyped
  <2>5. HistoryTyped'
    <3>1. event[t] \in Events
      BY DEF RowsTyped
    <3>2. (drift \subseteq Events)'
      BY <1>3, <3>1, HistoryTypedStep DEF processing_ticket_paid
    <3>3. mishaps' \in Nat
      BY <1>3, HistoryTypedStep DEF processing_ticket_paid
    <3> QED BY <1>3, <3>2, <3>3 DEF HistoryTyped, processing_ticket_paid
  <2> QED
    BY <1>3, <2>1, <2>2, <2>3, <2>4, <2>5 DEF processing_ticket_paid, AgesTyped,
       SeatsTyped, seatVars
<1>4. ASSUME processing_ticket_paid_admin(t) PROVE AllTyped'
  <2>1. RowsTyped'
    BY <1>4, SetStatusTyped, RowsSameTyped DEF RowsTyped, processing_ticket_paid_admin
  <2>2. DialogsTyped'
    BY <1>2, <1>4 DEF processing_ticket_paid_admin
  <2>3. PaymentsTyped'
    BY <1>4 DEF PaymentsTyped, processing_ticket_paid_admin
  <2>4. event[t] \in Events /\ base[t] \in Bases
    BY DEF RowsTyped
  <2>5. SeatsTyped'
    BY <1>4, <2>4, SeatOperationsTyped DEF processing_ticket_paid_admin
  <2>6. HistoryTyped'
    <3>1. (drift \subseteq Events)'
      BY <1>4, <2>4, HistoryTypedStep DEF processing_ticket_paid_admin
    <3>2. mishaps' \in Nat
      BY <1>4, HistoryTypedStep DEF processing_ticket_paid_admin
    <3> QED BY <1>4, <3>1, <3>2 DEF HistoryTyped, processing_ticket_paid_admin
  <2> QED
    BY <1>4, <2>1, <2>2, <2>3, <2>5, <2>6 DEF processing_ticket_paid_admin, AgesTyped,
       NoticesTyped, noticeVars, askVars
<1> QED BY <1>1, <1>3, <1>4

\* What the buyer does after the booking.
LEMMA BuyerStepsTyped ==
    ASSUME AllTyped, NEW u \in Users
    PROVE  /\ \A c \in Commands : init_conv_hl_dialog(u, c) => AllTyped'
           /\ confirm_payment(u) => AllTyped'
           /\ handle_receipt_file(u) => AllTyped'
           /\ \A t \in Tickets : processing_successful_notification(u, t) => AllTyped'
           /\ EndDialog(u) => AllTyped'
<1> USE BookedStatuses, DialogTicket DEF AllTyped
<1>i. Idle \in Dialog
  BY DialogTyped
<1>1. ASSUME NEW c \in Commands, init_conv_hl_dialog(u, c) PROVE AllTyped'
  <2>1. DialogsTyped'
    BY <1>1, SetDialogTyped DEF init_conv_hl_dialog, Dialog
  <2> QED
    BY <1>1, <2>1 DEF init_conv_hl_dialog, rowVars, seatVars, payVars, noticeVars, askVars,
       historyVars, RowsTyped, NoticesTyped, PaymentsTyped, HistoryTyped, AgesTyped,
       SeatsTyped
<1>2. ASSUME confirm_payment(u) PROVE AllTyped'
  <2>1. DialogsTyped'
    BY <1>2, SetDialogTyped, DialogTyped DEF confirm_payment
  <2> QED
    BY <1>2, <2>1 DEF confirm_payment, rowVars, seatVars, payVars, noticeVars, askVars,
       historyVars, RowsTyped, NoticesTyped, PaymentsTyped, HistoryTyped, AgesTyped,
       SeatsTyped
<1>3. ASSUME NEW sent \in OneSending, processing_successful_payment(u, sent),
             conv[u].ticket # NoTicket,
             UNCHANGED <<rowVars, pressed, unchecked, orders>>,
             (nextSent \subseteq Tickets)', mishaps' \in Nat
      PROVE  RowsTyped' /\ NoticesTyped' /\ HistoryTyped'
  <2>1. conv[u].ticket \in Tickets /\ sent \in Sendings /\ sent.marked \in BOOLEAN
    BY <1>3 DEF OneSending, Sendings
  <2>2. RowsTyped'
    <3>1. status' \in [Tickets -> Booked]
      BY <1>3, <2>1, SetStatusTyped DEF processing_successful_payment, RowsTyped
    <3> QED BY <1>3, <3>1, RowsSameTyped
  <2>3. NoticesTyped'
    <3>1. CASE Ask(conv[u].ticket, sent)
      BY <1>3, <2>1, <3>1, AskTyped
    <3>2. CASE UNCHANGED askVars
      BY <1>3, <3>2 DEF NoticesTyped, askVars
    <3>3. CASE /\ notified' = [notified EXCEPT ![conv[u].ticket] = sent.marked]
               /\ UNCHANGED <<keyboard, asked, unheard>>
      BY <1>3, <2>1, <3>3 DEF NoticesTyped
    <3> QED BY <1>3, <3>1, <3>2, <3>3 DEF processing_successful_payment
  <2>4. event[conv[u].ticket] \in Events
    BY <2>1 DEF RowsTyped
  <2>5. (drift \subseteq Events)'
    BY <1>3, <2>4, HistoryTypedStep DEF processing_successful_payment
  <2> QED BY <1>3, <2>2, <2>3, <2>5 DEF HistoryTyped
<1>d. ASSUME NEW sent \in OneSending, NEW left \in Dialog, DialogAfterPayment(u, sent, left)
      PROVE  DialogsTyped' /\ mishaps' \in Nat
  <2>1. conv[u] \in Dialog
    BY DialogTicket
  <2> QED BY <1>d, <1>i, <2>1, SetDialogTyped, HistoryTypedStep DEF DialogAfterPayment
<1>4. ASSUME handle_receipt_file(u) PROVE AllTyped'
  <2>1. PICK sent \in OneSending :
           /\ processing_successful_payment(u, sent)
           /\ DialogAfterPayment(u, sent, [conv[u] EXCEPT !.state = "END"])
    BY <1>4 DEF handle_receipt_file
  <2>2. DialogsTyped' /\ mishaps' \in Nat
    <3>1. [conv[u] EXCEPT !.state = "END"] \in Dialog
      BY DialogTyped
    <3> QED BY <1>d, <2>1, <3>1
  <2>3. RowsTyped' /\ NoticesTyped' /\ HistoryTyped'
    BY <1>3, <1>4, <2>1, <2>2 DEF handle_receipt_file, NoticesTyped
  <2> QED
    BY <1>4, <2>2, <2>3 DEF handle_receipt_file, seatVars, payVars, PaymentsTyped,
       AgesTyped, SeatsTyped
<1>5. ASSUME NEW t \in Tickets, processing_successful_notification(u, t) PROVE AllTyped'
  <2>1. (nextSent \subseteq Tickets)'
    BY <1>5 DEF processing_successful_notification, NoticesTyped
  <2>2. RowsTyped' /\ NoticesTyped' /\ HistoryTyped' /\ DialogsTyped'
    <3>1. CASE conv[u].command = "none" \/ conv[u].ticket = NoTicket
      <4>1. SetDialog(u, conv[u]) \/ SetDialog(u, Idle)
        BY <1>5, <3>1 DEF processing_successful_notification
      <4>2. DialogsTyped'
        BY <1>i, <4>1, SetDialogTyped
      <4> QED BY <1>5, <2>1, <3>1, <4>2 DEF processing_successful_notification,
                RowsTyped, NoticesTyped, HistoryTyped, rowVars, askVars
    <3>2. CASE ~(conv[u].command = "none" \/ conv[u].ticket = NoTicket)
      <4>1. PICK sent \in OneSending :
               /\ processing_successful_payment(u, sent)
               /\ DialogAfterPayment(u, sent, EndIfPaid(conv[u]))
        BY <1>5, <3>2 DEF processing_successful_notification
      <4>2. EndIfPaid(conv[u]) \in Dialog
        BY DialogTyped DEF EndIfPaid
      <4>3. DialogsTyped' /\ mishaps' \in Nat
        BY <1>d, <4>1, <4>2
      <4> QED BY <1>3, <1>5, <2>1, <3>2, <4>1, <4>3 DEF processing_successful_notification
    <3> QED BY <3>1, <3>2
  <2> QED
    BY <1>5, <2>2 DEF processing_successful_notification, seatVars, payVars,
       PaymentsTyped, AgesTyped, SeatsTyped
<1>6. ASSUME EndDialog(u) PROVE AllTyped'
  <2>1. DialogsTyped'
    BY <1>6, <1>i, SetDialogTyped DEF EndDialog
  <2>2. RowsTyped' /\ SeatsTyped' /\ (drift \subseteq Events)' /\ mishaps' \in Nat
    <3>1. CASE ~HasTicketToCancel(u)
      BY <1>6, <3>1 DEF EndDialog, RowsTyped, rowVars, SeatsTyped, seatVars,
         HistoryTyped
    <3>2. CASE HasTicketToCancel(u)
      <4> DEFINE t == conv[u].ticket
      <4>1. t \in Tickets
        BY <3>2 DEF HasTicketToCancel
      <4>2. PICK outcome \in {"done", "lost", "late"}, admin \in BOOLEAN :
               cancel_ticket_and_return_seat(t, admin, outcome)
        BY <1>6, <3>2 DEF EndDialog, IsAdmin
      <4>3. event[t] \in Events /\ base[t] \in Bases
        BY <4>1 DEF RowsTyped
      <4>4. SeatsTyped'
        <5> HIDE DEF t
        <5> QED BY <4>2, <4>3, SeatOperationsTyped DEF cancel_ticket_and_return_seat
      <4>5. status' \in [Tickets -> Booked]
        BY <4>1, <4>2 DEF cancel_ticket_and_return_seat, RowsTyped
      <4>6. (drift \subseteq Events)' /\ mishaps' \in Nat
        <5> HIDE DEF t
        <5> QED BY <4>2, <4>3, HistoryTypedStep DEF cancel_ticket_and_return_seat
      <4>7. RowsTyped'
        BY <1>6, <4>5, RowsSameTyped DEF EndDialog
      <4> QED BY <4>4, <4>6, <4>7
    <3> QED BY <3>1, <3>2
  <2> QED
    BY <1>6, <2>1, <2>2 DEF EndDialog, payVars, noticeVars, askVars, PaymentsTyped, NoticesTyped,
       AgesTyped, HistoryTyped
<1> QED BY <1>1, <1>2, <1>4, <1>5, <1>6

\* What the admins do to an existing ticket.
LEMMA AdminStepsTyped ==
    ASSUME AllTyped, NEW t \in Tickets
    PROVE  /\ \A verdicts \in Presses : PressButton(t, verdicts) => AllTyped'
           /\ confirm_reserve(t) => AllTyped'
           /\ reject_reserve(t) => AllTyped'
           /\ \A new \in Status : update_ticket_status(t, new) => AllTyped'
           /\ \A new \in Bases : update_ticket_base(t, new) => AllTyped'
           /\ migration_stops(t) => AllTyped'
<1> USE BookedStatuses DEF AllTyped
<1>0. status[t] \in Booked /\ event[t] \in Events /\ base[t] \in Bases
  BY DEF RowsTyped
<1>1. ASSUME NEW verdicts \in Presses, PressButton(t, verdicts) PROVE AllTyped'
  <2>1. keyboard' \in [Tickets -> Nat]
    BY <1>1 DEF PressButton, NoticesTyped
  <2>2. pressed' \subseteq Tickets \X {"confirm", "reject"}
    BY <1>1 DEF PressButton, NoticesTyped, Presses
  <2> QED
    BY <1>1, <2>1, <2>2 DEF PressButton, rowVars, seatVars, payVars, historyVars, RowsTyped,
     NoticesTyped, PaymentsTyped, HistoryTyped, DialogsTyped, AgesTyped, SeatsTyped
<1>2. ASSUME NEW verdict, NEW end, AnswerPress(t, verdict, end)
      PROVE  /\ UNCHANGED <<rowVars, orders, unchecked>>
             /\ mishaps' \in Nat
             /\ NoticesTyped' /\ PaymentsTyped' /\ DialogsTyped' /\ AgesTyped'
  <2>1. mishaps' \in Nat
    BY <1>2, HistoryTypedStep DEF AnswerPress
  <2>2. keyboard' \in [Tickets -> Nat]
    BY <1>2 DEF AnswerPress, NoticesTyped
  <2> QED
    BY <1>2, <2>1, <2>2 DEF AnswerPress, NoticesTyped, PaymentsTyped, DialogsTyped,
       AgesTyped, payVars
<1>3. ASSUME NEW new \in Booked, NEW end,
             StatusAfter(t, new, end) \/ UNCHANGED status, UNCHANGED rowVars
      PROVE  RowsTyped'
  BY <1>3, SetStatusTyped, RowsSameTyped DEF RowsTyped
<1>4. ASSUME confirm_reserve(t) PROVE AllTyped'
  <2>1. PICK end \in Ends :
           /\ AnswerPress(t, "confirm", end)
           /\ IF status[t] = "APPROVED"
              THEN UNCHANGED <<status, seatVars, drift>>
              ELSE /\ decrease_nonconfirm_seat(event[t], base[t], end)
                   /\ StatusAfter(t, "APPROVED", end)
                   /\ OffBookIf(event[t], status[t] \notin Pending \/ end # "done")
    BY <1>4 DEF confirm_reserve
  <2>2. RowsTyped'
    BY <1>2, <1>3, <2>1
  <2>3. SeatsTyped'
    BY <1>0, <2>1, SeatOperationsTyped
  <2>4. (drift \subseteq Events)'
    BY <1>0, <2>1, HistoryTypedStep
  <2> QED BY <1>2, <2>1, <2>2, <2>3, <2>4 DEF HistoryTyped
<1>5. ASSUME reject_reserve(t) PROVE AllTyped'
  <2>1. PICK end \in Ends :
           /\ AnswerPress(t, "reject", end)
           /\ increase_free_and_decrease_nonconfirm_seat(event[t], base[t], end)
           /\ StatusAfter(t, "REJECTED", end)
           /\ OffBookIf(event[t], status[t] \notin Pending \/ end # "done")
    BY <1>5 DEF reject_reserve
  <2>2. RowsTyped'
    BY <1>2, <1>3, <2>1
  <2>3. SeatsTyped'
    BY <1>0, <2>1, SeatOperationsTyped
  <2>4. (drift \subseteq Events)'
    BY <1>0, <2>1, HistoryTypedStep
  <2> QED BY <1>2, <2>1, <2>2, <2>3, <2>4 DEF HistoryTyped
<1>6. ASSUME NEW new \in Status, update_ticket_status(t, new) PROVE AllTyped'
  <2>1. RowsTyped'
    BY <1>3, <1>6 DEF update_ticket_status
  <2>2. SeatsTyped'
    BY <1>0, <1>6, SeatOperationsTyped DEF update_ticket_status
  <2>3. (drift \subseteq Events)' /\ mishaps' \in Nat
    BY <1>0, <1>6, HistoryTypedStep DEF update_ticket_status
  <2>4. orders' \in Nat
    BY <1>6, HistoryTypedStep DEF update_ticket_status
  <2> QED
    BY <1>6, <2>1, <2>2, <2>3, <2>4 DEF update_ticket_status, HistoryTyped,
       NoticesTyped,
       PaymentsTyped, DialogsTyped, AgesTyped, payVars, noticeVars, askVars
<1>7. ASSUME NEW new \in Bases, update_ticket_base(t, new) PROVE AllTyped'
  <2>1. RowsTyped'
    BY <1>7 DEF update_ticket_base, RowsTyped
  <2>2. SeatsTyped'
    BY <1>0, <1>7, SeatOperationsTyped DEF update_ticket_base
  <2>3. (drift \subseteq Events)' /\ mishaps' \in Nat
    BY <1>0, <1>7, HistoryTypedStep DEF update_ticket_base
  <2>4. orders' \in Nat /\ unchecked' \in Tallies
    BY <1>0, <1>7, HistoryTypedStep, UnaskedTyped DEF update_ticket_base
  <2> QED
    BY <1>7, <2>1, <2>2, <2>3, <2>4 DEF update_ticket_base, HistoryTyped, NoticesTyped,
       PaymentsTyped, DialogsTyped, AgesTyped, payVars, noticeVars, askVars
<1>8. ASSUME migration_stops(t) PROVE AllTyped'
  <2>1. PICK end \in {"failed", "late", "torn", "returned"} :
           /\ MigrationReturns(t, end)
           /\ OffBookIf(event[t], \/ end \in {"late", "torn"}
                                  \/ (end = "returned" /\ status[t] # "APPROVED"))
    BY <1>8 DEF migration_stops
  <2>2. RowsTyped'
    BY <1>8, <2>1, RowsSameTyped DEF migration_stops, MigrationReturns, RowsTyped
  <2>3. SeatsTyped'
    BY <1>0, <1>8, <2>1, RaiseTyped DEF migration_stops, MigrationReturns, SeatsTyped
  <2>4. (drift \subseteq Events)'
    BY <1>0, <2>1, HistoryTypedStep
  <2>5. orders' \in Nat /\ mishaps' \in Nat
    BY <1>8, HistoryTypedStep DEF migration_stops
  <2> QED
    BY <1>8, <2>2, <2>3, <2>4, <2>5 DEF migration_stops, HistoryTyped, NoticesTyped,
       PaymentsTyped, DialogsTyped, AgesTyped, payVars, noticeVars, askVars
<1> QED BY <1>1, <1>4, <1>5, <1>6, <1>7, <1>8

\* A completed or half-completed migration.
LEMMA MigrationTyped ==
    ASSUME AllTyped, NEW u \in Users, NEW t \in Tickets, NEW n \in Tickets,
           NEW e \in Events, NEW b \in Bases, migration(u, t, n, e, b)
    PROVE  AllTyped'
<1> USE BookedStatuses DEF AllTyped
<1> DEFINE returned == FreeOnceReturned(t)
<1>1. PICK end \in {"done", "failed", "late", "before", "after"} :
        /\ status' = [status EXCEPT
              ![t] = IF end \in {"failed", "late"} THEN "CANCELED" ELSE "MIGRATED",
              ![n] = IF end = "done" THEN "APPROVED" ELSE "CREATED"]
        /\ free' = IF end \in {"failed", "before"} THEN returned
                   ELSE Lower(returned, e, b)
        /\ notified' = IF end = "done" THEN [notified EXCEPT ![n] = TRUE] ELSE notified
        /\ OffBook((IF status[t] \in {"APPROVED", "MIGRATED"} THEN {} ELSE {event[t]})
                   \cup IF end = "done" THEN {} ELSE {e})
        /\ Mishap(end # "done")
  BY DEF migration
<1>2. event[t] \in Events /\ base[t] \in Bases
  BY DEF RowsTyped
<1>3. RowsTyped'
  <2>1. status' \in [Tickets -> Booked]
    BY <1>1 DEF RowsTyped
  <2>2. create_ticket(n, u, e, b, "reserve_admin") /\ "reserve_admin" \in Commands
    BY DEF migration, Commands
  <2> QED BY <2>1, <2>2, CreateTyped
<1>4. SeatsTyped'
  <2>1. returned \in Counters
    BY <1>2, RaiseTyped DEF FreeOnceReturned, SeatsTyped
  <2>2. Lower(returned, e, b) \in Counters
    <3> HIDE DEF returned
    <3> QED BY <2>1, RaiseTyped
  <2> HIDE DEF returned
  <2> QED BY <1>1, <2>1, <2>2 DEF SeatsTyped, migration
<1>5. HistoryTyped'
  <2>1. (drift \subseteq Events)' /\ mishaps' \in Nat
    BY <1>1, <1>2, HistoryTypedStep
  <2>2. orders' \in Nat /\ unchecked' \in Tallies
    BY HistoryTypedStep, UnaskedTyped DEF migration
  <2> QED BY <2>1, <2>2 DEF HistoryTyped
<1>6. NoticesTyped'
  BY <1>1 DEF NoticesTyped, migration
<1> QED
  BY <1>3, <1>4, <1>5, <1>6 DEF migration, payVars, PaymentsTyped, DialogsTyped,
     AgesTyped

\* Time and the clean-ups.
LEMMA JobStepsTyped ==
    ASSUME AllTyped, NEW t \in Tickets
    PROVE  /\ Tick(t) => AllTyped'
           /\ cleanup_expired_bookings(t) => AllTyped'
           /\ cancel_old_created_tickets(t) => AllTyped'
<1> USE BookedStatuses DEF AllTyped
<1>0. event[t] \in Events /\ base[t] \in Bases
  BY DEF RowsTyped
<1>1. ASSUME Tick(t) PROVE AllTyped'
  <2>1. AgesTyped'
    BY <1>1 DEF Tick, AgesTyped
  <2> QED
    BY <1>1, <2>1 DEF Tick, rowVars, seatVars, payVars, noticeVars, askVars, historyVars,
       RowsTyped,
       NoticesTyped, PaymentsTyped, HistoryTyped, DialogsTyped, SeatsTyped
<1>2. ASSUME cleanup_expired_bookings(t) PROVE AllTyped'
  <2>1. RowsTyped'
    BY <1>2, SetStatusTyped, RowsSameTyped DEF cleanup_expired_bookings, RowsTyped
  <2>2. SeatsTyped'
    BY <1>0, <1>2, SeatOperationsTyped DEF cleanup_expired_bookings
  <2> QED
    BY <1>2, <2>1, <2>2 DEF cleanup_expired_bookings, payVars, noticeVars, askVars, historyVars,
       NoticesTyped, PaymentsTyped, HistoryTyped, DialogsTyped, AgesTyped
<1>3. ASSUME cancel_old_created_tickets(t) PROVE AllTyped'
  <2>1. PICK outcome \in {"done", "lost", "late"} :
           cancel_ticket_and_return_seat(t, FALSE, outcome)
    BY <1>3 DEF cancel_old_created_tickets
  <2>2. RowsTyped'
    BY <1>3, <2>1, RowsSameTyped DEF cancel_old_created_tickets,
       cancel_ticket_and_return_seat, RowsTyped
  <2>3. SeatsTyped'
    BY <1>0, <2>1, SeatOperationsTyped DEF cancel_ticket_and_return_seat
  <2>4. (drift \subseteq Events)' /\ mishaps' \in Nat
    BY <1>0, <2>1, HistoryTypedStep DEF cancel_ticket_and_return_seat
  <2> QED
    BY <1>3, <2>2, <2>3, <2>4 DEF cancel_old_created_tickets, payVars, noticeVars, askVars,
       NoticesTyped, PaymentsTyped, HistoryTyped, DialogsTyped, AgesTyped
<1> QED BY <1>1, <1>2, <1>3
-----------------------------------------------------------------------------
LEMMA BookingTypedStep == TypeOK /\ [Next]_vars => TypeOK'
<1>1. AllTyped <=> TypeOK
  BY TypeOKParts DEF AllTyped
<1>2. AllTyped' <=> TypeOK'
  BY DEF TypeOK, AllTyped, RowsTyped, NoticesTyped, PaymentsTyped, HistoryTyped,
     DialogsTyped, AgesTyped, SeatsTyped, Counters, Tallies, Booked
<1>3. SUFFICES ASSUME AllTyped, [Next]_vars PROVE AllTyped'
  BY <1>1, <1>2
<1>4. CASE BuyerStep
  BY <1>3, <1>4, ConfirmGoPayTyped, OtherBookingsTyped, PaymentStepsTyped, BuyerStepsTyped
     DEF BuyerStep
<1>5. CASE WebhookStep
  BY <1>3, <1>5, PaymentStepsTyped DEF WebhookStep
<1>6. CASE AdminStep
  BY <1>3, <1>6, OtherBookingsTyped, AdminStepsTyped, MigrationTyped DEF AdminStep
<1>7. CASE JobStep
  BY <1>3, <1>7, JobStepsTyped DEF JobStep
<1>8. CASE \E t \in Tickets : Tick(t)
  BY <1>3, <1>8, JobStepsTyped
<1>9. CASE UNCHANGED vars
  BY <1>3, <1>9 DEF AllTyped, vars, rowVars, seatVars, payVars, noticeVars, askVars, historyVars,
     RowsTyped, NoticesTyped, PaymentsTyped, HistoryTyped, DialogsTyped, AgesTyped, SeatsTyped
<1> QED BY <1>3, <1>4, <1>5, <1>6, <1>7, <1>8, <1>9 DEF Next

\* Type correctness of every handler: the counters stay numbers, a dialog
\* stays in one of its states and is about a ticket or none.
THEOREM BookingTyped == Spec => []TypeOK
<1>1. Init => TypeOK
  <2> SUFFICES ASSUME Init PROVE TypeOK
    OBVIOUS
  <2>1. (CHOOSE e \in Events : TRUE) \in Events /\ (CHOOSE b \in Bases : TRUE) \in Bases
    BY BookingAssumption
  <2>2. Capacity \in [Events -> [Kinds -> Int]]
    BY BookingAssumption
  <2>3. Idle \in Dialog
    BY DEF Idle, Dialog
  <2>4. RowsTyped
    BY <2>1, BookedStatuses DEF Init, RowsTyped
  <2>n. NoSeats \in [Kinds -> Nat] /\ NoSeats \in [Kinds -> Int]
    BY DEF NoSeats
  <2>5. SeatsTyped
    BY <2>2, <2>n DEF Init, SeatsTyped, Counters
  <2>6. DialogsTyped
    BY <2>3 DEF Init, DialogsTyped
  <2>h. HistoryTyped
    BY <2>n DEF Init, HistoryTyped, Tallies
  <2>7. NoticesTyped /\ PaymentsTyped /\ AgesTyped
    BY DEF Init, NoticesTyped, PaymentsTyped, HistoryTyped, AgesTyped
  <2> QED BY <2>4, <2>5, <2>6, <2>7, <2>h, TypeOKParts
<1> QED BY <1>1, BookingTypedStep, PTL DEF Spec
-----------------------------------------------------------------------------
\* Nobody but an admin takes the seats of a ticket that is paid or approved.
SeatsKept ==
    \A t \in Tickets : Place(status[t]) # "none" /\ status[t] # "CREATED"
                         => Place(status'[t]) # "none"

LEMMA KeptByPlaces ==
    ASSUME RowsTyped, NEW t \in Tickets, NEW new,
           status' = [status EXCEPT ![t] = new],
           status[t] \in {"ABSENT", "CREATED"} \/ Place(new) # "none"
    PROVE  SeatsKept
BY DEF RowsTyped, SeatsKept, Place, Pending

LEMMA KeptByAll == UNCHANGED status => SeatsKept
BY DEF SeatsKept

LEMMA Taking ==
    /\ Place("PAID") # "none" /\ Place("APPROVED") # "none" /\ Place("CREATED") # "none"
BY DEF Place, Pending

LEMMA BuyerKeepsSeats ==
    ASSUME AllTyped, BuyerStep
    PROVE  SeatsKept
<1> USE DEF AllTyped
<1>1. ASSUME NEW u \in Users, NEW t \in Tickets, NEW e \in Events, NEW b \in Bases,
             confirm_go_pay(u, t, e, b)
      PROVE  SeatsKept
  <2>1. status[t] = "ABSENT" /\ \E new : SetStatus(t, new)
    BY <1>1 DEF confirm_go_pay, create_and_send_payment, create_ticket, BookingTorn,
       BookingRefused, BookingHeld
  <2> QED BY <2>1, KeptByPlaces DEF SetStatus
<1>2. ASSUME NEW u, NEW t \in Tickets, NEW e, NEW b, NEW c, post_booking_form(u, t, e, b, c)
      PROVE  SeatsKept
  BY <1>2, KeptByPlaces DEF post_booking_form, create_ticket, SetStatus
<1>3. ASSUME NEW u \in Users, NEW sent, processing_successful_payment(u, sent),
             conv[u].ticket # NoTicket
      PROVE  SeatsKept
  <2>1. conv[u].ticket \in Tickets
    BY <1>3, DialogTicket
  <2> QED BY <1>3, <2>1, KeptByPlaces, KeptByAll DEF processing_successful_payment, SetStatus
<1>4. ASSUME NEW u \in Users, EndDialog(u) PROVE SeatsKept
  <2>1. CASE HasTicketToCancel(u)
    <3>1. conv[u].ticket \in Tickets /\ status[conv[u].ticket] = "CREATED"
      BY <2>1, DialogTicket DEF HasTicketToCancel
    <3> QED BY <1>4, <2>1, <3>1, KeptByPlaces, KeptByAll DEF EndDialog,
              cancel_ticket_and_return_seat
  <2>2. CASE ~HasTicketToCancel(u)
    BY <1>4, <2>2, KeptByAll DEF EndDialog
  <2> QED BY <2>1, <2>2
<1>5. ASSUME NEW u \in Users, NEW t \in Tickets, processing_successful_notification(u, t)
      PROVE  SeatsKept
  BY <1>3, <1>5, KeptByAll DEF processing_successful_notification
<1>6. ASSUME NEW u \in Users,
             \/ handle_receipt_file(u) \/ confirm_payment(u)
             \/ \E c \in Commands : init_conv_hl_dialog(u, c)
      PROVE  SeatsKept
  BY <1>3, <1>6, KeptByAll DEF handle_receipt_file, confirm_payment, init_conv_hl_dialog
<1>7. ASSUME NEW t \in Tickets, Pay(t) PROVE SeatsKept
  BY <1>7, KeptByAll DEF Pay
<1> QED BY <1>1, <1>2, <1>4, <1>5, <1>6, <1>7 DEF BuyerStep

LEMMA OthersKeepSeats ==
    ASSUME AllTyped,
           \/ WebhookStep \/ JobStep \/ UNCHANGED vars \/ \E t \in Tickets : Tick(t)
    PROVE  SeatsKept
<1> USE DEF AllTyped
<1>1. CASE WebhookStep
  BY <1>1, KeptByPlaces, Taking DEF WebhookStep, processing_ticket_paid,
     processing_ticket_paid_admin, SetStatus
<1>2. CASE JobStep
  <2>1. ASSUME NEW t \in Tickets, cleanup_expired_bookings(t) PROVE SeatsKept
    BY <2>1, KeptByPlaces DEF cleanup_expired_bookings, SetStatus
  <2>2. ASSUME NEW t \in Tickets, cancel_old_created_tickets(t) PROVE SeatsKept
    BY <2>2, KeptByPlaces, KeptByAll DEF cancel_old_created_tickets,
       cancel_ticket_and_return_seat
  <2> QED BY <1>2, <2>1, <2>2 DEF JobStep
<1>3. CASE UNCHANGED vars \/ \E t \in Tickets : Tick(t)
  BY <1>3, KeptByAll DEF vars, Tick
<1> QED BY <1>1, <1>2, <1>3

(***************************************************************************)
(* No job, no dialog that ends and no notification takes the seats of a    *)
(* ticket that is paid or approved.                                        *)
(***************************************************************************)
THEOREM BookingKeepsPaidSeats == Spec => PaidSeatsStay
<1>1. TypeOK /\ [Next]_vars => SeatsKept \/ AdminStep
  <2> SUFFICES ASSUME TypeOK, [Next]_vars, ~AdminStep PROVE SeatsKept
    OBVIOUS
  <2>1. AllTyped
    BY TypeOKParts DEF AllTyped
  <2> QED BY <2>1, BuyerKeepsSeats, OthersKeepSeats DEF Next
<1>2. SeatsKept \/ AdminStep =>
        \A t \in Tickets :
          Place(status[t]) # "none" /\ status[t] # "CREATED" /\ Place(status'[t]) = "none"
            => AdminStep
  BY DEF SeatsKept
<1> QED BY <1>1, <1>2, BookingTyped, PTL DEF Spec, PaidSeatsStay
-----------------------------------------------------------------------------
\* Nobody is asked, and a mark is not taken back; or the admins are asked about
\* one ticket that bears no mark.
Quiet == /\ UNCHANGED <<asked, unheard>>
         /\ \A t \in Tickets : notified[t] => notified'[t]
Asks == \E t \in Tickets, sent \in Sendings : ~notified[t] /\ Ask(t, sent)

LEMMA UnchangedIsQuiet == UNCHANGED askVars => Quiet
BY DEF Quiet, askVars

\* The handlers that ask.
LEMMA PaymentsAsk ==
    ASSUME AllTyped
    PROVE  /\ \A t \in Tickets : processing_ticket_paid(t) => Quiet \/ Asks
           /\ \A u \in Users, sent \in OneSending :
                processing_successful_payment(u, sent) /\ conv[u].ticket # NoTicket
                  => Quiet \/ Asks
<1> USE DEF AllTyped
<1>1. ASSUME NEW t \in Tickets, processing_ticket_paid(t) PROVE Quiet \/ Asks
  <2>1. CASE UNCHANGED askVars
    BY <2>1, UnchangedIsQuiet
  <2>2. ASSUME NEW sent \in Sendings, send_approve_reject_message_to_admin(t, sent)
        PROVE  Quiet \/ Asks
    BY <2>2, UnchangedIsQuiet DEF send_approve_reject_message_to_admin, Asks
  <2>3. (\E sent \in Sendings : send_approve_reject_message_to_admin(t, sent))
          \/ UNCHANGED askVars
    BY <1>1 DEF processing_ticket_paid
  <2> QED BY <2>1, <2>2, <2>3
<1>2. ASSUME NEW u \in Users, NEW sent \in OneSending,
             processing_successful_payment(u, sent), conv[u].ticket # NoTicket
      PROVE  Quiet \/ Asks
  <2>1. conv[u].ticket \in Tickets /\ sent \in Sendings
    BY <1>2, DialogTicket DEF OneSending
  <2>2. CASE UNCHANGED askVars
    BY <2>2, UnchangedIsQuiet
  <2>3. CASE ~notified[conv[u].ticket] /\ Ask(conv[u].ticket, sent)
    BY <2>1, <2>3 DEF Asks
  <2>4. CASE /\ ~notified[conv[u].ticket]
             /\ notified' = [notified EXCEPT ![conv[u].ticket] = sent.marked]
             /\ UNCHANGED <<keyboard, asked, unheard>>
    BY <2>1, <2>4 DEF Quiet, NoticesTyped
  <2> QED BY <1>2, <2>2, <2>3, <2>4 DEF processing_successful_payment
<1> QED BY <1>1, <1>2

\* The handlers that do not, and those that mark a ticket they made themselves.
LEMMA OthersQuiet ==
    ASSUME AllTyped, NEW u, NEW t \in Tickets, NEW n \in Tickets, NEW e, NEW b, NEW x
    PROVE  /\ confirm_go_pay(u, t, e, b) => Quiet
           /\ post_booking_form(u, t, e, b, x) \/ Pay(t) => Quiet
           /\ EndDialog(u) \/ confirm_payment(u) \/ init_conv_hl_dialog(u, x) => Quiet
           /\ processing_ticket_paid_admin(t) => Quiet
           /\ confirm_admin_without_payment(u, t, e, b) => Quiet
           /\ migration(u, t, n, e, b) \/ migration_stops(t) => Quiet
           /\ PressButton(t, x) \/ confirm_reserve(t) \/ reject_reserve(t) => Quiet
           /\ update_ticket_status(t, x) \/ update_ticket_base(t, x) => Quiet
           /\ cleanup_expired_bookings(t) \/ cancel_old_created_tickets(t) => Quiet
           /\ Tick(t) \/ UNCHANGED vars => Quiet
<1> USE DEF noticeVars
<1>1. /\ confirm_go_pay(u, t, e, b) => Quiet
      /\ post_booking_form(u, t, e, b, x) \/ Pay(t) => Quiet
      /\ EndDialog(u) \/ confirm_payment(u) \/ init_conv_hl_dialog(u, x) => Quiet
      /\ processing_ticket_paid_admin(t) => Quiet
  BY UnchangedIsQuiet DEF confirm_go_pay, create_and_send_payment, post_booking_form, Pay,
     EndDialog, confirm_payment, init_conv_hl_dialog, processing_ticket_paid_admin
<1>2. /\ update_ticket_status(t, x) \/ update_ticket_base(t, x) \/ migration_stops(t) => Quiet
      /\ cleanup_expired_bookings(t) \/ cancel_old_created_tickets(t) => Quiet
      /\ Tick(t) \/ UNCHANGED vars => Quiet
  BY UnchangedIsQuiet DEF update_ticket_status, update_ticket_base, migration_stops,
     cleanup_expired_bookings, cancel_old_created_tickets, Tick, vars
<1>3. PressButton(t, x) \/ confirm_reserve(t) \/ reject_reserve(t) => Quiet
  BY DEF PressButton, confirm_reserve, reject_reserve, AnswerPress, Quiet
<1>4. ASSUME NEW m \in Tickets, UNCHANGED <<asked, unheard>>,
             \/ UNCHANGED notified \/ notified' = [notified EXCEPT ![m] = TRUE]
      PROVE  Quiet
  BY <1>4 DEF Quiet, AllTyped, NoticesTyped
<1>5. confirm_admin_without_payment(u, t, e, b) => Quiet
  BY <1>4 DEF confirm_admin_without_payment
<1>6. migration(u, t, n, e, b) => Quiet
  BY <1>4 DEF migration
<1> QED BY <1>1, <1>2, <1>3, <1>5, <1>6

LEMMA StepAsks == ASSUME AllTyped, [Next]_vars PROVE Quiet \/ Asks
<1>1. CASE BuyerStep
  <2>1. ASSUME NEW u \in Users, NEW t \in Tickets, processing_successful_notification(u, t)
        PROVE  Quiet \/ Asks
    BY <2>1, UnchangedIsQuiet, PaymentsAsk DEF processing_successful_notification
  <2>2. ASSUME NEW u \in Users, handle_receipt_file(u) PROVE Quiet \/ Asks
    BY <2>2, PaymentsAsk DEF handle_receipt_file
  <2>3. ASSUME NEW u, NEW t \in Tickets, NEW e, NEW b, NEW x,
               \/ confirm_go_pay(u, t, e, b) \/ post_booking_form(u, t, e, b, x)
               \/ Pay(t)
        PROVE  Quiet
    BY <2>3, OthersQuiet
  <2>4. ASSUME NEW u, NEW x, EndDialog(u) \/ confirm_payment(u) \/ init_conv_hl_dialog(u, x)
        PROVE  Quiet
    BY <2>4, UnchangedIsQuiet DEF EndDialog, confirm_payment, init_conv_hl_dialog, noticeVars
  <2> QED BY <1>1, <2>1, <2>2, <2>3, <2>4 DEF BuyerStep
<1>2. CASE WebhookStep
  BY <1>2, PaymentsAsk, OthersQuiet DEF WebhookStep
<1>3. CASE AdminStep
  BY <1>3, OthersQuiet DEF AdminStep
<1>4. CASE JobStep \/ \E t \in Tickets : Tick(t)
  BY <1>4, OthersQuiet DEF JobStep
<1>5. CASE UNCHANGED vars
  BY <1>5, UnchangedIsQuiet DEF vars, noticeVars
<1> QED BY <1>1, <1>2, <1>3, <1>4, <1>5 DEF Next

\* What was heard of and marked is one question.
LEMMA AskingKeepsCount ==
    ASSUME NoticesTyped, AskedOnce, Quiet \/ Asks
    PROVE  AskedOnce'
<1> SUFFICES ASSUME NEW n \in Tickets
             PROVE  asked'[n] <= unheard'[n] + IF notified'[n] THEN 1 ELSE 0
  BY DEF AskedOnce
<1>0. /\ asked[n] \in Nat /\ unheard[n] \in Nat /\ notified[n] \in BOOLEAN
      /\ asked[n] <= unheard[n] + IF notified[n] THEN 1 ELSE 0
  BY DEF NoticesTyped, AskedOnce
<1>1. CASE Quiet
  BY <1>0, <1>1 DEF Quiet
<1>2. CASE Asks
  <2>1. PICK t \in Tickets, sent \in Sendings : ~notified[t] /\ Ask(t, sent)
    BY <1>2 DEF Asks
  <2>2. sent.arrived \in Nat
    BY BookingAssumption DEF Sendings
  <2>3. CASE n # t
    <3>1. /\ asked'[n] = asked[n] /\ unheard'[n] = unheard[n] /\ notified'[n] = notified[n]
      BY <2>1, <2>3 DEF Ask, NoticesTyped
    <3> QED BY <1>0, <3>1
  <2>4. CASE n = t
    <3>1. /\ asked'[n] = asked[n] + sent.arrived
          /\ unheard'[n] = unheard[n] + sent.arrived
                             - IF sent.answered /\ sent.marked THEN 1 ELSE 0
          /\ notified'[n] = IF sent.marked THEN TRUE ELSE notified[n]
      BY <2>1, <2>4 DEF Ask, NoticesTyped
    <3>2. ~notified[n]
      BY <2>1, <2>4
    <3>3. asked[n] <= unheard[n]
      BY <1>0, <3>2
    <3>4. CASE sent.answered /\ sent.marked
      BY <1>0, <2>2, <3>1, <3>3, <3>4
    <3>5. CASE ~(sent.answered /\ sent.marked)
      <4>1. asked'[n] <= unheard'[n] /\ unheard'[n] \in Nat
        BY <1>0, <2>2, <3>1, <3>3, <3>5
      <4>2. asked'[n] \in Nat
        BY <1>0, <2>2, <3>1
      <4> QED BY <4>1, <4>2
    <3> QED BY <3>4, <3>5
  <2> QED BY <2>3, <2>4
<1> QED BY <1>1, <1>2

(***************************************************************************)
(* However often a notification is delivered, whatever the buyer sends or  *)
(* presses besides, and wherever a handler stops between the commit of     *)
(* PAID, the message to the admins and the commit of is_admin_notified:    *)
(* beside the one question the mark stands for, each question about a      *)
(* ticket in the admin group is one the bot got no answer to, or stopped   *)
(* before it was marked.                                                   *)
(***************************************************************************)
THEOREM BookingAsksOnce == Spec => []AskedOnce
<1>1. Init => AskedOnce
  BY DEF Init, AskedOnce
<1>2. TypeOK /\ AskedOnce /\ [Next]_vars => AskedOnce'
  <2> SUFFICES ASSUME TypeOK, AskedOnce, [Next]_vars PROVE AskedOnce'
    OBVIOUS
  <2>1. AllTyped
    BY TypeOKParts DEF AllTyped
  <2> QED BY <2>1, StepAsks, AskingKeepsCount DEF AllTyped
<1> QED BY <1>1, <1>2, BookingTyped, PTL DEF Spec
-----------------------------------------------------------------------------
(* Who approves.                                                           *)

\* A row once written keeps its buyer and the command it was booked with.
RowsStay ==
    \A t \in Tickets : status[t] # "ABSENT" =>
        status'[t] # "ABSENT" /\ owner'[t] = owner[t] /\ origin'[t] = origin[t]

\* The admins' command is an admin's, and so is the ticket its dialog is about,
\* whatever a notification makes of the dialog, and the ticket it booked.
Fits(u) ==
    /\ IsAdmin(conv[u].command) => u \in Admins
    /\ conv[u].ticket # NoTicket =>
          /\ status[conv[u].ticket] # "ABSENT"
          /\ IsAdmin(conv[u].command) => owner[conv[u].ticket] \in Admins
Owned == \A t \in Tickets : IsAdmin(origin[t]) => owner[t] \in Admins
OwnInv == (\A u \in Users : Fits(u)) /\ Owned

\* A dialog that goes on about the same, or ends.
Follows(u) == \/ conv'[u].ticket = conv[u].ticket /\ conv'[u].command = conv[u].command
              \/ conv'[u] = Idle

LEMMA FitsStays ==
    ASSUME AllTyped, RowsStay, NEW u \in Users, Fits(u), Follows(u)
    PROVE  Fits(u)'
<1>1. conv[u].ticket # NoTicket => conv[u].ticket \in Tickets
  BY DialogTicket DEF AllTyped
<1>2. CASE conv'[u].ticket = conv[u].ticket /\ conv'[u].command = conv[u].command
  BY <1>1, <1>2 DEF Fits, RowsStay
<1>3. CASE conv'[u] = Idle
  <2>1. conv'[u].ticket = NoTicket /\ conv'[u].command = "none"
    BY <1>3 DEF Idle
  <2> QED BY <2>1 DEF Fits, IsAdmin
<1> QED BY <1>2, <1>3 DEF Follows

\* A status is set, and nothing else of the rows.
LEMMA OneStatusStays ==
    ASSUME RowsTyped, Owned, UNCHANGED <<owner, origin>>,
           \/ UNCHANGED status
           \/ \E t \in Tickets, new \in Status : status' = [status EXCEPT ![t] = new]
    PROVE  RowsStay /\ Owned'
<1>1. "ABSENT" \notin Status
  BY DEF Status, Final, Pending
<1> QED BY <1>1 DEF RowsTyped, RowsStay, Owned

\* A row is written; its buyer is an admin if it is booked by their command.
LEMMA NewRowStays ==
    ASSUME AllTyped, OwnInv, NEW t \in Tickets, NEW w \in Users \cup {NoUser}, NEW e, NEW b,
           NEW command \in Commands \cup {"none", "website"}, NEW new \in Status,
           create_ticket(t, w, e, b, command), IsAdmin(command) => w \in Admins,
           status' = [status EXCEPT ![t] = new]
    PROVE  /\ RowsStay /\ Owned' /\ status'[t] # "ABSENT" /\ owner'[t] = w
           /\ \A n \in Tickets : n # t => status'[n] = status[n]
<1>1. "ABSENT" \notin Status
  BY DEF Status, Final, Pending
<1>2. /\ status[t] = "ABSENT"
      /\ owner' = [owner EXCEPT ![t] = w] /\ origin' = [origin EXCEPT ![t] = command]
  BY DEF create_ticket
<1>3. \A n \in Tickets : /\ n # t => status'[n] = status[n] /\ owner'[n] = owner[n]
                                     /\ origin'[n] = origin[n]
                         /\ n = t => status'[n] = new /\ owner'[n] = w /\ origin'[n] = command
  BY <1>2 DEF AllTyped, RowsTyped
<1>4. Owned'
  BY <1>3 DEF OwnInv, Owned
<1> QED BY <1>1, <1>2, <1>3, <1>4 DEF RowsStay

\* Nobody else's dialog changes.
LEMMA OneDialogFits ==
    ASSUME AllTyped, OwnInv, RowsStay, NEW u \in Users, NEW d, SetDialog(u, d),
           Follows(u) \/ Fits(u)'
    PROVE  \A v \in Users : Fits(v)'
<1> SUFFICES ASSUME NEW v \in Users PROVE Fits(v)'
  OBVIOUS
<1>1. CASE v = u
  BY <1>1, FitsStays DEF OwnInv
<1>2. CASE v # u
  <2>1. conv'[v] = conv[v]
    BY <1>2 DEF SetDialog, AllTyped, DialogsTyped
  <2> QED BY <2>1, FitsStays DEF OwnInv, Follows
<1> QED BY <1>1, <1>2

LEMMA NoDialogFits ==
    ASSUME AllTyped, OwnInv, RowsStay, UNCHANGED conv
    PROVE  \A v \in Users : Fits(v)'
BY FitsStays DEF OwnInv, Follows

\* What a step other than an admin's may do: approve what is an admin's own,
\* and leave a final status with a payment that succeeded.
Approves == \A t \in Tickets :
    status[t] # "APPROVED" /\ status'[t] = "APPROVED" => owner[t] \in Admins
Reopens == \A t \in Tickets :
    status[t] \in Final /\ status'[t] # status[t] => payment[t] = "succeeded"

LEMMA HarmlessStatus ==
    ASSUME RowsTyped,
           \/ UNCHANGED status
           \/ \E t \in Tickets, new \in Status \ {"APPROVED"} :
                 status' = [status EXCEPT ![t] = new] /\ status[t] \notin Final
    PROVE  Approves /\ Reopens
BY DEF RowsTyped, Approves, Reopens

\* Seats and rows of the buyer's steps, where no row is written.
LEMMA PaymentOwned ==
    ASSUME AllTyped, OwnInv, NEW u \in Users, NEW sent,
           processing_successful_payment(u, sent), conv[u].ticket # NoTicket,
           UNCHANGED <<owner, origin>>
    PROVE  RowsStay /\ Owned' /\ Approves /\ Reopens
<1>1. conv[u].ticket \in Tickets
  BY DialogTicket DEF AllTyped
<1>2. IsAdmin(conv[u].command) => owner[conv[u].ticket] \in Admins
  BY <1>1 DEF OwnInv, Fits, Owned
<1>3. "CREATED" \notin Final /\ {"PAID", "APPROVED"} \subseteq Status
  BY DEF Final, Status, Pending
<1>4. CASE UNCHANGED status
  BY <1>4, OneStatusStays, HarmlessStatus DEF AllTyped, OwnInv
<1>5. ASSUME NEW new \in {"PAID", "APPROVED"},
             new = "APPROVED" => owner[conv[u].ticket] \in Admins,
             status[conv[u].ticket] = "CREATED",
             status' = [status EXCEPT ![conv[u].ticket] = new]
      PROVE  RowsStay /\ Owned' /\ Approves /\ Reopens
  <2>1. RowsStay /\ Owned'
    BY <1>1, <1>3, <1>5, OneStatusStays DEF AllTyped, OwnInv
  <2>2. Approves /\ Reopens
    BY <1>1, <1>3, <1>5 DEF AllTyped, RowsTyped, Approves, Reopens
  <2> QED BY <2>1, <2>2
<1> QED BY <1>2, <1>4, <1>5 DEF processing_successful_payment, SetStatus

\* The steps of the buyers.
LEMMA BuyersOwn ==
    ASSUME AllTyped, OwnInv, BuyerStep
    PROVE  RowsStay /\ OwnInv' /\ Approves /\ Reopens
<1> DEFINE Goal == RowsStay /\ OwnInv' /\ Approves /\ Reopens
<1> USE DEF AllTyped
<1>0. RowsTyped /\ Owned /\ \A u \in Users : Fits(u) /\ conv[u] \in Dialog
  BY DialogTicket DEF OwnInv
<1>s. /\ {"CREATED", "CANCELED"} \subseteq Status \ {"APPROVED"}
      /\ "CREATED" \notin Final /\ "ABSENT" \notin Final
  BY DEF Status, Final, Pending
<1>1. ASSUME NEW u \in Users, NEW c \in Commands, init_conv_hl_dialog(u, c) PROVE Goal
  <2>1. UNCHANGED <<status, owner, origin>>
    BY <1>1 DEF init_conv_hl_dialog, rowVars
  <2>2. RowsStay /\ Owned' /\ Approves /\ Reopens
    BY <1>0, <2>1, OneStatusStays, HarmlessStatus
  <2>3. Fits(u)'
    BY <1>1 DEF init_conv_hl_dialog, SetDialog, DialogsTyped, Fits
  <2> QED BY <1>1, <2>2, <2>3, OneDialogFits DEF init_conv_hl_dialog, OwnInv
<1>2. ASSUME NEW u \in Users, NEW t \in Tickets, NEW e \in Events, NEW b \in Bases,
             confirm_go_pay(u, t, e, b)
      PROVE  Goal
  <2>1. create_ticket(t, u, e, b, conv[u].command) /\ status[t] = "ABSENT"
    BY <1>2 DEF confirm_go_pay, create_and_send_payment, create_ticket
  <2>2. PICK new \in {"CREATED", "CANCELED"} : status' = [status EXCEPT ![t] = new]
    BY <1>2 DEF confirm_go_pay, create_and_send_payment, BookingTorn, BookingRefused,
       BookingHeld, SetStatus
  <2>3. /\ RowsStay /\ Owned' /\ status'[t] # "ABSENT" /\ owner'[t] = u
    BY <1>0, <1>s, <2>1, <2>2, NewRowStays, DialogTicket DEF Fits
  <2>4. Approves /\ Reopens
    BY <1>0, <1>s, <2>1, <2>2, HarmlessStatus
  <2>5. PICK d : d = conv'[u]
    OBVIOUS
  <2>d. SetDialog(u, d) /\ (d = Idle \/ (d.ticket = t /\ d.command = conv[u].command))
    <3>1. conv[u] \in Dialog
      BY <1>0
    <3>2. CASE BookingTorn(u, t, e)
      <4>1. SetDialog(u, [conv[u] EXCEPT !.ticket = t, !.changed_seat = FALSE,
                                         !.summary = FALSE])
        BY <3>2 DEF BookingTorn
      <4> QED BY <2>5, <3>1, <4>1 DEF Dialog, SetDialog, DialogsTyped
    <3>3. ASSUME NEW outcome, BookingRefused(u, t, e, b, outcome)
          PROVE  SetDialog(u, d) /\ d = Idle
      BY <2>5, <3>3 DEF BookingRefused, SetDialog, DialogsTyped
    <3>4. CASE BookingHeld(u, t, e, b)
      <4>1. PICK held : held = [conv[u] EXCEPT !.ticket = t, !.changed_seat = TRUE,
                                               !.summary = FALSE]
        OBVIOUS
      <4>2. \/ SetDialog(u, Idle) \/ SetDialog(u, held)
            \/ SetDialog(u, [held EXCEPT !.state = "PAID"])
        BY <3>4, <4>1 DEF BookingHeld
      <4>3. held \in Dialog /\ held.ticket = t /\ held.command = conv[u].command
        BY <3>1, <4>1 DEF Dialog
      <4> QED BY <2>5, <4>2, <4>3 DEF Dialog, SetDialog, DialogsTyped
    <3> QED BY <1>2, <3>2, <3>3, <3>4 DEF confirm_go_pay, create_and_send_payment
  <2>6. Follows(u) \/ Fits(u)'
    <3>1. conv'[u] = d
      BY <2>5
    <3>2. CASE d = Idle
      BY <3>1, <3>2 DEF Follows
    <3>3. CASE d.ticket = t /\ d.command = conv[u].command
      <4>1. IsAdmin(conv[u].command) => u \in Admins
        BY <1>0 DEF Fits
      <4> QED BY <2>3, <3>1, <3>3, <4>1 DEF Fits
    <3> QED BY <2>d, <3>2, <3>3
  <2> QED BY <2>3, <2>4, <2>d, <2>6, OneDialogFits DEF OwnInv
<1>3. ASSUME NEW u \in Users, confirm_payment(u) PROVE Goal
  <2>1. UNCHANGED <<status, owner, origin>>
    BY <1>3 DEF confirm_payment, rowVars
  <2>2. RowsStay /\ Owned' /\ Approves /\ Reopens
    BY <1>0, <2>1, OneStatusStays, HarmlessStatus
  <2>3. Follows(u)
    BY <1>0, <1>3 DEF confirm_payment, SetDialog, DialogsTyped, Follows, Dialog
  <2> QED BY <1>3, <2>2, <2>3, OneDialogFits DEF confirm_payment, OwnInv
<1>p. ASSUME NEW u \in Users, NEW sent, NEW left, DialogAfterPayment(u, sent, left),
             left.ticket = conv[u].ticket /\ left.command = conv[u].command
      PROVE  Follows(u) /\ \E d : SetDialog(u, d)
  <2>1. PICK d \in {left, conv[u], Idle} : SetDialog(u, d)
    BY <1>p DEF DialogAfterPayment
  <2>2. conv'[u] = d
    BY <2>1 DEF SetDialog, DialogsTyped
  <2> QED BY <1>p, <2>1, <2>2 DEF Follows
<1>4. ASSUME NEW u \in Users, handle_receipt_file(u) PROVE Goal
  <2>1. UNCHANGED <<owner, origin>>
    BY <1>4 DEF handle_receipt_file, rowVars
  <2>2. PICK sent \in OneSending :
           /\ processing_successful_payment(u, sent)
           /\ DialogAfterPayment(u, sent, [conv[u] EXCEPT !.state = "END"])
    BY <1>4 DEF handle_receipt_file
  <2>3. RowsStay /\ Owned' /\ Approves /\ Reopens
    BY <1>4, <2>1, <2>2, PaymentOwned DEF handle_receipt_file
  <2>4. Follows(u) /\ \E d : SetDialog(u, d)
    <3>1. PICK left : left = [conv[u] EXCEPT !.state = "END"]
      OBVIOUS
    <3>2. left.ticket = conv[u].ticket /\ left.command = conv[u].command
      BY <1>0, <3>1 DEF Dialog
    <3> QED BY <1>p, <2>2, <3>1, <3>2
  <2> QED BY <2>3, <2>4, OneDialogFits DEF OwnInv
<1>5. ASSUME NEW u \in Users, NEW t \in Tickets, processing_successful_notification(u, t)
      PROVE  Goal
  <2>1. UNCHANGED <<owner, origin>>
    BY <1>5 DEF processing_successful_notification, rowVars
  <2>2. CASE conv[u].command = "none" \/ conv[u].ticket = NoTicket
    <3>1. /\ SetDialog(u, conv[u]) \/ SetDialog(u, Idle)
          /\ UNCHANGED status
      BY <1>5, <2>2 DEF processing_successful_notification
    <3>2. RowsStay /\ Owned' /\ Approves /\ Reopens
      BY <1>0, <2>1, <3>1, OneStatusStays, HarmlessStatus
    <3>3. Follows(u)
      BY <3>1 DEF SetDialog, DialogsTyped, Follows
    <3> QED BY <3>1, <3>2, <3>3, OneDialogFits DEF OwnInv
  <2>3. CASE ~(conv[u].command = "none" \/ conv[u].ticket = NoTicket)
    <3>1. PICK sent \in OneSending :
             /\ processing_successful_payment(u, sent)
             /\ DialogAfterPayment(u, sent, EndIfPaid(conv[u]))
      BY <1>5, <2>3 DEF processing_successful_notification
    <3>2. RowsStay /\ Owned' /\ Approves /\ Reopens
      BY <2>1, <2>3, <3>1, PaymentOwned
    <3>3. Follows(u) /\ \E d : SetDialog(u, d)
      <4>1. PICK left : left = EndIfPaid(conv[u])
        OBVIOUS
      <4>2. left.ticket = conv[u].ticket /\ left.command = conv[u].command
        BY <1>0, <4>1 DEF EndIfPaid, Dialog
      <4> QED BY <1>p, <3>1, <4>1, <4>2
    <3> QED BY <3>2, <3>3, OneDialogFits DEF OwnInv
  <2> QED BY <2>2, <2>3
<1>6. ASSUME NEW u \in Users, EndDialog(u) PROVE Goal
  <2>1. UNCHANGED <<owner, origin>> /\ SetDialog(u, Idle)
    BY <1>6 DEF EndDialog, rowVars
  <2>2. \/ UNCHANGED status
        \/ \E t \in Tickets, new \in Status \ {"APPROVED"} :
              status' = [status EXCEPT ![t] = new] /\ status[t] \notin Final
    <3>1. CASE HasTicketToCancel(u)
      <4>1. conv[u].ticket \in Tickets /\ status[conv[u].ticket] = "CREATED"
        BY <3>1, DialogTicket DEF HasTicketToCancel
      <4>2. UNCHANGED status \/ status' = [status EXCEPT ![conv[u].ticket] = "CANCELED"]
        BY <1>6, <3>1 DEF EndDialog, cancel_ticket_and_return_seat
      <4> QED BY <1>s, <4>1, <4>2
    <3>2. CASE ~HasTicketToCancel(u)
      BY <1>6, <3>2 DEF EndDialog
    <3> QED BY <3>1, <3>2
  <2>3. RowsStay /\ Owned' /\ Approves /\ Reopens
    BY <1>0, <2>1, <2>2, OneStatusStays, HarmlessStatus
  <2>4. Follows(u)
    BY <2>1 DEF SetDialog, DialogsTyped, Follows
  <2> QED BY <2>1, <2>3, <2>4, OneDialogFits DEF OwnInv
<1>7. ASSUME NEW u \in Users \cup {NoUser}, NEW t \in Tickets, NEW e \in Events,
             NEW b \in Bases, NEW children, post_booking_form(u, t, e, b, children)
      PROVE  Goal
  <2>1. /\ create_ticket(t, u, e, b, "website") /\ status[t] = "ABSENT"
        /\ status' = [status EXCEPT ![t] = "CREATED"] /\ UNCHANGED conv
    BY <1>7 DEF post_booking_form, create_ticket, SetStatus
  <2>2. RowsStay /\ Owned'
    BY <1>s, <2>1, NewRowStays DEF IsAdmin
  <2>3. Approves /\ Reopens
    BY <1>0, <1>s, <2>1, HarmlessStatus
  <2> QED BY <2>1, <2>2, <2>3, NoDialogFits DEF OwnInv
<1>8. ASSUME NEW t \in Tickets, Pay(t) PROVE Goal
  <2>1. UNCHANGED <<status, owner, origin, conv>>
    BY <1>8 DEF Pay, rowVars
  <2>2. RowsStay /\ Owned' /\ Approves /\ Reopens
    BY <1>0, <2>1, OneStatusStays, HarmlessStatus
  <2> QED BY <2>1, <2>2, NoDialogFits DEF OwnInv
<1> QED BY <1>1, <1>2, <1>3, <1>4, <1>5, <1>6, <1>7, <1>8 DEF BuyerStep

\* The notifications.
LEMMA WebhookOwn ==
    ASSUME AllTyped, OwnInv, NEW t \in Tickets,
           processing_ticket_paid(t) \/ processing_ticket_paid_admin(t)
    PROVE  RowsStay /\ OwnInv' /\ Approves /\ Reopens
<1> USE DEF AllTyped
<1>1. /\ payment[t] = "succeeded" /\ UNCHANGED <<owner, origin>>
      /\ DialogAfterWebhook(t) \/ UNCHANGED conv
      /\ \/ status' = [status EXCEPT ![t] = "PAID"]
         \/ status' = [status EXCEPT ![t] = "APPROVED"] /\ IsAdmin(origin[t])
  BY DEF processing_ticket_paid, processing_ticket_paid_admin, SetStatus, rowVars
<1>2. {"PAID", "APPROVED"} \subseteq Status
  BY DEF Status, Pending
<1>3. RowsStay /\ Owned'
  BY <1>1, <1>2, OneStatusStays DEF OwnInv
<1>4. Approves /\ Reopens
  BY <1>1 DEF OwnInv, Owned, RowsTyped, Approves, Reopens
<1>5. status'[t] # "ABSENT"
  BY <1>1 DEF RowsTyped
<1>6. CASE owner[t] = NoUser \/ UNCHANGED conv
  BY <1>1, <1>3, <1>4, <1>6, NoDialogFits DEF DialogAfterWebhook, OwnInv
<1>7. CASE owner[t] # NoUser /\ DialogAfterWebhook(t)
  <2>1. owner[t] \in Users
    BY <1>7 DEF RowsTyped
  <2>2. PICK u \in Users : u = owner[t]
    BY <2>1
  <2>3. conv[u] \in Dialog /\ Fits(u)
    BY DialogTicket DEF OwnInv
  <2>4. PICK d : d = conv'[u]
    OBVIOUS
  <2>5. /\ SetDialog(u, d)
        /\ \/ d.ticket = t /\ d.command = "reserve"
           \/ d.ticket \in {conv[u].ticket, t} /\ d.command = conv[u].command
    <3>1. CASE origin[t] = "website"
      <4>1. SetDialog(u, [conv[u] EXCEPT !.state = "PAID", !.ticket = t,
                                         !.command = "reserve"])
        BY <1>7, <2>2, <3>1 DEF DialogAfterWebhook, SetDialog
      <4> QED BY <2>3, <2>4, <4>1 DEF Dialog, SetDialog, DialogsTyped
    <3>2. CASE origin[t] # "website"
      <4>1. PICK about \in {conv[u].ticket, t} :
               SetDialog(u, [conv[u] EXCEPT !.state = "PAID", !.ticket = about])
        BY <1>7, <2>2, <3>2 DEF DialogAfterWebhook, SetDialog
      <4> QED BY <2>3, <2>4, <4>1 DEF Dialog, SetDialog, DialogsTyped
    <3> QED BY <3>1, <3>2
  <2>6. Follows(u) \/ Fits(u)'
    <3>1. CASE d.ticket = t /\ d.command = "reserve"
      BY <1>5, <2>4, <3>1 DEF Fits, IsAdmin
    <3>2. CASE d.ticket = conv[u].ticket /\ d.command = conv[u].command
      BY <2>4, <3>2 DEF Follows
    <3>3. CASE d.ticket = t /\ d.command = conv[u].command
      <4>1. IsAdmin(conv[u].command) => u \in Admins
        BY <2>3 DEF Fits
      <4>2. owner'[t] = u
        BY <1>1, <2>2
      <4> QED BY <1>5, <2>4, <3>3, <4>1, <4>2 DEF Fits
    <3> QED BY <2>5, <3>1, <3>2, <3>3
  <2>7. \A v \in Users : Fits(v)'
    BY <1>3, <2>5, <2>6, OneDialogFits
  <2> QED BY <1>3, <1>4, <2>7 DEF OwnInv
<1> QED BY <1>1, <1>6, <1>7

\* The admins.
LEMMA AdminsOwn ==
    ASSUME AllTyped, OwnInv, AdminStep
    PROVE  RowsStay /\ OwnInv'
<1> DEFINE Goal == RowsStay /\ OwnInv'
<1> USE DEF AllTyped
<1>0. RowsTyped /\ Owned /\ \A u \in Users : Fits(u) /\ conv[u] \in Dialog
  BY DialogTicket DEF OwnInv
<1>s. {"CREATED", "CANCELED", "APPROVED", "MIGRATED", "REJECTED"} \subseteq Status
  BY DEF Status, Final, Pending
<1>1. ASSUME NEW u \in Users, NEW t \in Tickets, NEW e \in Events, NEW b \in Bases,
             confirm_admin_without_payment(u, t, e, b)
      PROVE  Goal
  <2>1. create_ticket(t, u, e, b, conv[u].command)
    BY <1>1 DEF confirm_admin_without_payment
  <2>2. PICK new \in {"CREATED", "CANCELED", "APPROVED"} : status' = [status EXCEPT ![t] = new]
    BY <1>1 DEF confirm_admin_without_payment, SetStatus
  <2>3. RowsStay /\ Owned' /\ status'[t] # "ABSENT" /\ owner'[t] = u
    <3>1. status[t] = "ABSENT" /\ "ABSENT" \notin Status /\ new \in Status
      BY <1>s, <2>1 DEF create_ticket, Status, Final, Pending
    <3>3. /\ status'[t] = new /\ owner'[t] = u /\ origin'[t] = conv[u].command
          /\ \A n \in Tickets \ {t} :
                status'[n] = status[n] /\ owner'[n] = owner[n] /\ origin'[n] = origin[n]
      BY <1>0, <2>1, <2>2 DEF create_ticket, RowsTyped
    <3>2. IsAdmin(conv[u].command) => u \in Admins
      BY <1>0 DEF Fits
    <3> QED BY <1>0, <3>1, <3>2, <3>3 DEF RowsStay, Owned, IsAdmin
  <2>4. PICK d : d = conv'[u]
    OBVIOUS
  <2>d. SetDialog(u, d) /\ (d = Idle \/ (d.ticket = t /\ d.command = conv[u].command))
    <3> DEFINE left == [conv[u] EXCEPT !.ticket = t, !.summary = FALSE]
    <3>2. \/ SetDialog(u, Idle) \/ SetDialog(u, left)
          \/ SetDialog(u, [left EXCEPT !.state = "END"])
      BY <1>1, Zenon DEF confirm_admin_without_payment
    <3>3. left \in Dialog /\ left.ticket = t /\ left.command = conv[u].command
      BY <1>0 DEF Dialog
    <3> HIDE DEF left
    <3> QED BY <2>4, <3>2, <3>3 DEF Dialog, SetDialog, DialogsTyped
  <2>5. Follows(u) \/ Fits(u)'
    <3>1. conv'[u] = d
      BY <2>4
    <3>2. CASE d = Idle
      BY <3>1, <3>2 DEF Follows
    <3>3. CASE d.ticket = t /\ d.command = conv[u].command
      <4>1. IsAdmin(conv[u].command) => u \in Admins
        BY <1>0 DEF Fits
      <4> QED BY <2>3, <3>1, <3>3, <4>1 DEF Fits
    <3> QED BY <2>d, <3>2, <3>3
  <2> QED BY <2>3, <2>d, <2>5, OneDialogFits DEF OwnInv
<1>2. ASSUME NEW u \in Users, NEW t \in Tickets, NEW n \in Tickets, NEW e \in Events,
             NEW b \in Bases, migration(u, t, n, e, b)
      PROVE  Goal
  <2>1. /\ create_ticket(n, u, e, b, "reserve_admin") /\ status[n] = "ABSENT" /\ u \in Admins
        /\ t # n /\ UNCHANGED conv
    BY <1>2 DEF migration, create_ticket
  <2>2. PICK old \in Status, new \in Status : status' = [status EXCEPT ![t] = old, ![n] = new]
    BY <1>2, <1>s DEF migration
  <2>3. "ABSENT" \notin Status
    BY DEF Status, Final, Pending
  <2>4. \A m \in Tickets : status[m] # "ABSENT" => status'[m] # "ABSENT"
    BY <1>0, <2>2, <2>3 DEF RowsTyped
  <2>5. \A m \in Tickets : /\ m # n => owner'[m] = owner[m] /\ origin'[m] = origin[m]
                           /\ m = n => owner'[m] = u
    BY <1>0, <2>1 DEF create_ticket, RowsTyped
  <2>6. RowsStay /\ Owned'
    BY <1>0, <2>1, <2>4, <2>5 DEF RowsStay, Owned
  <2> QED BY <2>1, <2>6, NoDialogFits DEF OwnInv
<1>3. ASSUME UNCHANGED <<owner, origin, conv>>,
             \/ UNCHANGED status
             \/ \E t \in Tickets, new \in Status : status' = [status EXCEPT ![t] = new]
      PROVE  Goal
  <2>1. RowsStay /\ Owned'
    BY <1>0, <1>3, OneStatusStays
  <2> QED BY <1>3, <2>1, NoDialogFits DEF OwnInv
<1>4. ASSUME NEW t \in Tickets, NEW verdict, PressButton(t, verdict) PROVE Goal
  BY <1>3, <1>4 DEF PressButton, rowVars
<1>5. ASSUME NEW t \in Tickets, confirm_reserve(t) \/ reject_reserve(t) PROVE Goal
  <2>1. UNCHANGED <<owner, origin, conv>>
    BY <1>5 DEF confirm_reserve, reject_reserve, AnswerPress, rowVars
  <2>2. \/ UNCHANGED status
        \/ status' = [status EXCEPT ![t] = "APPROVED"]
        \/ status' = [status EXCEPT ![t] = "REJECTED"]
    BY <1>5 DEF confirm_reserve, reject_reserve, StatusAfter
  <2> QED BY <1>3, <1>s, <2>1, <2>2
<1>6. ASSUME NEW t \in Tickets, NEW new \in Status, update_ticket_status(t, new) PROVE Goal
  <2>1. UNCHANGED <<owner, origin, conv>>
    BY <1>6 DEF update_ticket_status, rowVars
  <2>2. UNCHANGED status \/ status' = [status EXCEPT ![t] = new]
    BY <1>6 DEF update_ticket_status, StatusAfter
  <2> QED BY <1>3, <2>1, <2>2
<1>7. ASSUME NEW t \in Tickets, NEW new, update_ticket_base(t, new) PROVE Goal
  BY <1>3, <1>7 DEF update_ticket_base
<1>8. ASSUME NEW t \in Tickets, migration_stops(t) PROVE Goal
  <2>1. UNCHANGED <<owner, origin, conv>>
    BY <1>8 DEF migration_stops, rowVars
  <2>2. UNCHANGED status \/ status' = [status EXCEPT ![t] = "MIGRATED"]
    BY <1>8 DEF migration_stops, MigrationReturns
  <2> QED BY <1>3, <1>s, <2>1, <2>2
<1> QED BY <1>1, <1>2, <1>4, <1>5, <1>6, <1>7, <1>8 DEF AdminStep

\* The jobs, the clock and stuttering.
LEMMA JobsOwn ==
    ASSUME AllTyped, OwnInv, JobStep \/ (\E t \in Tickets : Tick(t)) \/ UNCHANGED vars
    PROVE  RowsStay /\ OwnInv' /\ Approves /\ Reopens
<1> USE DEF AllTyped
<1>1. UNCHANGED <<owner, origin, conv>>
  BY DEF JobStep, cleanup_expired_bookings, cancel_old_created_tickets, Tick, vars, rowVars
<1>2. /\ "CANCELED" \in Status \ {"APPROVED"} /\ "CREATED" \notin Final
  BY DEF Status, Final, Pending
<1>3. \/ UNCHANGED status
      \/ \E t \in Tickets : status' = [status EXCEPT ![t] = "CANCELED"] /\ status[t] = "CREATED"
  BY DEF JobStep, cleanup_expired_bookings, cancel_old_created_tickets, Tick, vars,
     cancel_ticket_and_return_seat, SetStatus
<1>4. RowsStay /\ Owned' /\ Approves /\ Reopens
  BY <1>1, <1>2, <1>3, OneStatusStays, HarmlessStatus DEF OwnInv
<1> QED BY <1>1, <1>4, NoDialogFits DEF OwnInv

LEMMA OwnStep ==
    ASSUME TypeOK, OwnInv, [Next]_vars
    PROVE  OwnInv' /\ (AdminStep \/ (Approves /\ Reopens))
<1>0. AllTyped
  BY TypeOKParts DEF AllTyped
<1>1. CASE BuyerStep
  BY <1>0, <1>1, BuyersOwn
<1>2. CASE WebhookStep
  BY <1>0, <1>2, WebhookOwn DEF WebhookStep
<1>3. CASE AdminStep
  BY <1>0, <1>3, AdminsOwn
<1>4. CASE JobStep \/ (\E t \in Tickets : Tick(t)) \/ UNCHANGED vars
  BY <1>0, <1>4, JobsOwn
<1> QED BY <1>1, <1>2, <1>3, <1>4 DEF Next

\* No dialog has begun and no row is written.
LEMMA OwnInit == Init => OwnInv
<1> SUFFICES ASSUME Init PROVE OwnInv
  OBVIOUS
<1>1. \A u \in Users : conv[u].ticket = NoTicket /\ conv[u].command = "none"
  BY DEF Init, Idle
<1>2. \A t \in Tickets : origin[t] = "none"
  BY DEF Init
<1> QED BY <1>1, <1>2 DEF OwnInv, Fits, Owned, IsAdmin

\* In every behaviour a dialog holds the admins' command, and a row was booked
\* with it, only if its user is an admin; a dialog's ticket is a row, and in an
\* admin's dialog it is an admin's.
LEMMA AlwaysOwn == Spec => [](TypeOK /\ OwnInv)
<1>1. OwnInv /\ TypeOK /\ [Next]_vars => OwnInv'
  BY OwnStep
<1> QED BY <1>1, OwnInit, BookingTyped, PTL DEF Spec

\* A ticket becomes APPROVED by an admin's step, or else it is the booking an
\* admin made: what a customer's dialog, the payment notification or the hourly
\* jobs do never approves a customer's ticket (processing_successful_payment and
\* webhooks.py write APPROVED for the admins' command alone, and no dialog of a
\* customer, and no ticket of theirs, ever carries that command).
THEOREM ApprovedByAdmins ==
    Spec => [][\A t \in Tickets :
                  status[t] # "APPROVED" /\ status'[t] = "APPROVED"
                     => AdminStep \/ owner[t] \in Admins]_vars
<1>1. /\ TypeOK /\ OwnInv /\ [Next]_vars
      => [\A t \in Tickets : status[t] # "APPROVED" /\ status'[t] = "APPROVED"
             => AdminStep \/ owner[t] \in Admins]_vars
  BY OwnStep DEF Approves
<1> QED BY <1>1, AlwaysOwn, PTL DEF Spec

\* A ticket leaves a final status (CANCELED, REJECTED, MIGRATED and the others) by
\* an admin's step, or after its payment succeeded: otherwise the hourly jobs, the
\* customer's dialog and the website never revive what is over. FinalIsFinal,
\* which the code breaks, breaks in these two ways only.
THEOREM FinalLeftByAdminOrPayment ==
    Spec => [][\A t \in Tickets :
                  status[t] \in Final /\ status'[t] # status[t]
                     => AdminStep \/ payment[t] = "succeeded"]_vars
<1>1. /\ TypeOK /\ OwnInv /\ [Next]_vars
      => [\A t \in Tickets : status[t] \in Final /\ status'[t] # status[t]
             => AdminStep \/ payment[t] = "succeeded"]_vars
  BY OwnStep DEF Reopens
<1> QED BY <1>1, AlwaysOwn, PTL DEF Spec

=============================================================================
