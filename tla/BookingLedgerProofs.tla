------------------------- MODULE BookingLedgerProofs -------------------------
(* Booking implements SeatLedger: whatever the handlers do, in any order,  *)
(* is for the counters of the watched event an operation of the ledger or  *)
(* nothing, until the event goes off the book.  The watched event is any   *)
(* event, and the numbers of users, tickets, events and seats are any.     *)
EXTENDS BookingLedger, BookingProofs, FiniteSetTheorems

\* Where the seats of a ticket stand, as long as the event is on the book,
\* and what they are.
Seen(t) == IF event[t] = Watched THEN Place(status[t]) ELSE "none"
SeatsSeen(t) == IF Seen(t) # "none" THEN Quality[base[t]] ELSE NoSeats

OnBook == ~Off /\ ~Off'

\* The mapping, on the book.
LEMMA MappingOnBook ==
    /\ ~Off => /\ placeOf = [t \in Tickets |-> Seen(t)]
               /\ amountOf = [t \in Tickets |-> SeatsSeen(t)]
    /\ ~Off' => /\ placeOf' = [t \in Tickets |-> Seen(t)']
                /\ amountOf' = [t \in Tickets |-> SeatsSeen(t)']
<1>1. Place("ABSENT") = "none"
  BY DEF Place, Pending
<1> QED BY <1>1 DEF placeOf, amountOf, Seen, SeatsSeen, At

\* Every other ticket is to the ledger what it was.
Only(t) == \A x \in Tickets \ {t} : Seen(x)' = Seen(x) /\ SeatsSeen(x)' = SeatsSeen(x)

LEMMA OneTicketMoves ==
    ASSUME OnBook, NEW t \in Tickets, Only(t)
    PROVE  /\ placeOf' = [placeOf EXCEPT ![t] = Seen(t)']
           /\ amountOf' = [amountOf EXCEPT ![t] = SeatsSeen(t)']
<1>1. \A x \in Tickets \ {t} : Seen(x)' = Seen(x) /\ SeatsSeen(x)' = SeatsSeen(x)
  BY DEF Only
<1>2. /\ placeOf = [x \in Tickets |-> Seen(x)] /\ placeOf' = [x \in Tickets |-> Seen(x)']
      /\ amountOf = [x \in Tickets |-> SeatsSeen(x)]
      /\ amountOf' = [x \in Tickets |-> SeatsSeen(x)']
  BY MappingOnBook DEF OnBook
<1> QED BY <1>1, <1>2

\* The counters of the watched event under the two changes of a counter.
LEMMA CountersAt ==
    ASSUME NEW counter \in Counters, NEW e \in Events, NEW b
    PROVE  /\ Lower(counter, e, b)[Watched] = IF e = Watched
                THEN Ledger!Less(counter[Watched], Quality[b]) ELSE counter[Watched]
           /\ Raise(counter, e, b)[Watched] = IF e = Watched
                THEN Ledger!More(counter[Watched], Quality[b]) ELSE counter[Watched]
BY WatchedAssumption DEF Counters, Lower, Raise, Ledger!Less, Ledger!More

\* The ledger's other variables, on the book.
LEMMA BooksOnBook ==
    ASSUME OnBook
    PROVE  /\ Off' = Off /\ ~Off
           /\ (IF Off THEN NoSeats ELSE free[Watched]) = free[Watched]
           /\ (IF Off THEN NoSeats ELSE free[Watched])' = free'[Watched]
           /\ (IF Off THEN NoSeats ELSE nonconfirm[Watched]) = nonconfirm[Watched]
           /\ (IF Off THEN NoSeats ELSE nonconfirm[Watched])' = nonconfirm'[Watched]
BY DEF OnBook, Off

CountersStay == free'[Watched] = free[Watched] /\ nonconfirm'[Watched] = nonconfirm[Watched]

Implemented == Ledger!Next \/ UNCHANGED Ledger!vars

\* Nothing the ledger sees happens.
LEMMA Unseen ==
    ASSUME OnBook, \A t \in Tickets : Seen(t)' = Seen(t) /\ SeatsSeen(t)' = SeatsSeen(t),
           CountersStay
    PROVE  Implemented
<1>1. placeOf' = placeOf /\ amountOf' = amountOf
  BY MappingOnBook DEF OnBook
<1> QED BY <1>1, BooksOnBook DEF Implemented, Ledger!vars, CountersStay

\* What the ledger sees of a handler when it is one of its operations.
LEMMA SeesHold ==
    ASSUME OnBook, NEW t \in Tickets, Only(t), Seen(t) = "none", Seen(t)' = "held",
           base'[t] \in Bases,
           free'[Watched] = Ledger!Less(free[Watched], Quality[base'[t]]),
           nonconfirm'[Watched] = Ledger!More(nonconfirm[Watched], Quality[base'[t]])
    PROVE  Implemented
<1> DEFINE q == Quality[base'[t]]
<1>1. q \in Ledger!Amounts /\ SeatsSeen(t)' = q
  BY BookingAssumption DEF Ledger!Amounts, SeatsSeen
<1>2. placeOf[t] = "none"
  BY MappingOnBook DEF OnBook
<1>3. Ledger!Hold(t, q)
  BY <1>1, <1>2, OneTicketMoves, BooksOnBook DEF Ledger!Hold
<1> QED BY <1>1, <1>3 DEF Implemented, Ledger!Next

LEMMA SeesSellDirect ==
    ASSUME OnBook, NEW t \in Tickets, Only(t), Seen(t) = "none", Seen(t)' = "sold",
           base'[t] \in Bases,
           free'[Watched] = Ledger!Less(free[Watched], Quality[base'[t]]),
           nonconfirm'[Watched] = nonconfirm[Watched]
    PROVE  Implemented
<1> DEFINE q == Quality[base'[t]]
<1>1. q \in Ledger!Amounts /\ SeatsSeen(t)' = q
  BY BookingAssumption DEF Ledger!Amounts, SeatsSeen
<1>2. placeOf[t] = "none"
  BY MappingOnBook DEF OnBook
<1>3. Ledger!SellDirect(t, q)
  BY <1>1, <1>2, OneTicketMoves, BooksOnBook DEF Ledger!SellDirect
<1> QED BY <1>1, <1>3 DEF Implemented, Ledger!Next

LEMMA SeesSell ==
    ASSUME OnBook, NEW t \in Tickets, Only(t), Seen(t) = "held", Seen(t)' = "sold",
           base'[t] = base[t],
           free'[Watched] = free[Watched],
           nonconfirm'[Watched] = Ledger!Less(nonconfirm[Watched], Quality[base[t]])
    PROVE  Implemented
<1>1. SeatsSeen(t)' = SeatsSeen(t) /\ SeatsSeen(t) = Quality[base[t]]
  BY DEF SeatsSeen
<1>2. placeOf[t] = "held" /\ amountOf[t] = Quality[base[t]]
  BY <1>1, MappingOnBook DEF OnBook
<1>3. amountOf' = amountOf
  <2>1. amountOf = [x \in Tickets |-> SeatsSeen(x)]
    BY MappingOnBook DEF OnBook
  <2> QED BY <1>1, <2>1, OneTicketMoves
<1>4. Ledger!Sell(t)
  BY <1>2, <1>3, OneTicketMoves, BooksOnBook DEF Ledger!Sell
<1> QED BY <1>4 DEF Implemented, Ledger!Next

LEMMA SeesRelease ==
    ASSUME OnBook, NEW t \in Tickets, Only(t), Seen(t) = "held", Seen(t)' = "none",
           free'[Watched] = Ledger!More(free[Watched], Quality[base[t]]),
           nonconfirm'[Watched] = Ledger!Less(nonconfirm[Watched], Quality[base[t]])
    PROVE  Implemented
<1>1. SeatsSeen(t)' = Ledger!Nothing /\ SeatsSeen(t) = Quality[base[t]]
  BY DEF SeatsSeen, NoSeats, Ledger!Nothing
<1>2. placeOf[t] = "held" /\ amountOf[t] = Quality[base[t]]
  BY <1>1, MappingOnBook DEF OnBook
<1>3. Ledger!Release(t)
  BY <1>1, <1>2, OneTicketMoves, BooksOnBook DEF Ledger!Release
<1> QED BY <1>3 DEF Implemented, Ledger!Next

LEMMA SeesReturn ==
    ASSUME OnBook, NEW t \in Tickets, Only(t), Seen(t) = "sold", Seen(t)' = "none",
           free'[Watched] = Ledger!More(free[Watched], Quality[base[t]]),
           nonconfirm'[Watched] = nonconfirm[Watched]
    PROVE  Implemented
<1>1. SeatsSeen(t)' = Ledger!Nothing /\ SeatsSeen(t) = Quality[base[t]]
  BY DEF SeatsSeen, NoSeats, Ledger!Nothing
<1>2. placeOf[t] = "sold" /\ amountOf[t] = Quality[base[t]]
  BY <1>1, MappingOnBook DEF OnBook
<1>3. Ledger!Return(t)
  BY <1>1, <1>2, OneTicketMoves, BooksOnBook DEF Ledger!Return
<1> QED BY <1>3 DEF Implemented, Ledger!Next

LEMMA SeesResize ==
    ASSUME OnBook, NEW t \in Tickets, Only(t), Seen(t) = "sold", Seen(t)' = "sold",
           base'[t] \in Bases,
           free'[Watched] = Ledger!Less(Ledger!More(free[Watched], Quality[base[t]]),
                                        Quality[base'[t]]),
           nonconfirm'[Watched] = nonconfirm[Watched]
    PROVE  Implemented
<1> DEFINE q == Quality[base'[t]]
<1>1. q \in Ledger!Amounts /\ SeatsSeen(t)' = q /\ SeatsSeen(t) = Quality[base[t]]
  BY BookingAssumption DEF Ledger!Amounts, SeatsSeen
<1>2. placeOf[t] = "sold" /\ amountOf[t] = Quality[base[t]]
  BY <1>1, MappingOnBook DEF OnBook
<1>3. placeOf' = placeOf
  <2>1. placeOf = [x \in Tickets |-> Seen(x)]
    BY MappingOnBook DEF OnBook
  <2> QED BY <2>1, OneTicketMoves
<1>4. Ledger!Resize(t, q)
  BY <1>1, <1>2, <1>3, OneTicketMoves, BooksOnBook DEF Ledger!Resize
<1> QED BY <1>1, <1>4 DEF Implemented, Ledger!Next

\* Two tickets change at once: the new one is sold, the old one has been.
LEMMA SeesExchange ==
    ASSUME OnBook, NEW t \in Tickets, NEW n \in Tickets \ {t},
           \A x \in Tickets \ {t, n} : Seen(x)' = Seen(x) /\ SeatsSeen(x)' = SeatsSeen(x),
           Seen(t) = "sold", Seen(t)' = "none", Seen(n) = "none", Seen(n)' = "sold",
           base'[n] \in Bases,
           free'[Watched] = Ledger!Less(Ledger!More(free[Watched], Quality[base[t]]),
                                        Quality[base'[n]]),
           nonconfirm'[Watched] = nonconfirm[Watched]
    PROVE  Implemented
<1> DEFINE q == Quality[base'[n]]
<1>1. /\ q \in Ledger!Amounts /\ SeatsSeen(n)' = q /\ SeatsSeen(t)' = Ledger!Nothing
      /\ SeatsSeen(t) = Quality[base[t]]
  BY BookingAssumption DEF Ledger!Amounts, SeatsSeen, NoSeats, Ledger!Nothing
<1>3. /\ placeOf = [x \in Tickets |-> Seen(x)] /\ placeOf' = [x \in Tickets |-> Seen(x)']
      /\ amountOf = [x \in Tickets |-> SeatsSeen(x)]
      /\ amountOf' = [x \in Tickets |-> SeatsSeen(x)']
  BY MappingOnBook DEF OnBook
<1>4. /\ placeOf[t] = "sold" /\ placeOf[n] = "none" /\ amountOf[t] = Quality[base[t]]
      /\ placeOf' = [placeOf EXCEPT ![t] = "none", ![n] = "sold"]
  BY <1>1, <1>3
<1>5. amountOf' = [amountOf EXCEPT ![t] = Ledger!Nothing, ![n] = q]
  BY <1>1, <1>3
<1>6. Ledger!Exchange(t, n, q)
  BY <1>4, <1>5, BooksOnBook DEF Ledger!Exchange
<1> QED BY <1>1, <1>6 DEF Implemented, Ledger!Next
-----------------------------------------------------------------------------
\* The seat operations at the watched event, and at another.
LEMMA SeatOperationsAt ==
    ASSUME SeatsTyped, NEW e \in Events, NEW b, NEW outcome
    PROVE  /\ e # Watched \/ outcome = "lost" =>
              /\ decrease_free_and_increase_nonconfirm_seat(e, b, outcome) => CountersStay
              /\ increase_free_and_decrease_nonconfirm_seat(e, b, outcome) => CountersStay
              /\ increase_free_seat(e, b, outcome) => CountersStay
              /\ decrease_free_seat(e, b, outcome) => CountersStay
              /\ decrease_nonconfirm_seat(e, b, outcome) => CountersStay
           /\ e = Watched /\ outcome = "done" =>
              /\ decrease_free_and_increase_nonconfirm_seat(e, b, outcome) =>
                   /\ free'[Watched] = Ledger!Less(free[Watched], Quality[b])
                   /\ nonconfirm'[Watched] = Ledger!More(nonconfirm[Watched], Quality[b])
              /\ increase_free_and_decrease_nonconfirm_seat(e, b, outcome) =>
                   /\ free'[Watched] = Ledger!More(free[Watched], Quality[b])
                   /\ nonconfirm'[Watched] = Ledger!Less(nonconfirm[Watched], Quality[b])
              /\ increase_free_seat(e, b, outcome) =>
                   /\ free'[Watched] = Ledger!More(free[Watched], Quality[b])
                   /\ nonconfirm'[Watched] = nonconfirm[Watched]
              /\ decrease_free_seat(e, b, outcome) =>
                   /\ free'[Watched] = Ledger!Less(free[Watched], Quality[b])
                   /\ nonconfirm'[Watched] = nonconfirm[Watched]
              /\ decrease_nonconfirm_seat(e, b, outcome) =>
                   /\ free'[Watched] = free[Watched]
                   /\ nonconfirm'[Watched] = Ledger!Less(nonconfirm[Watched], Quality[b])
           /\ UNCHANGED seatVars => CountersStay
<1>1. /\ Lower(free, e, b)[Watched] = IF e = Watched
                THEN Ledger!Less(free[Watched], Quality[b]) ELSE free[Watched]
      /\ Raise(free, e, b)[Watched] = IF e = Watched
                THEN Ledger!More(free[Watched], Quality[b]) ELSE free[Watched]
      /\ Lower(nonconfirm, e, b)[Watched] = IF e = Watched
                THEN Ledger!Less(nonconfirm[Watched], Quality[b]) ELSE nonconfirm[Watched]
      /\ Raise(nonconfirm, e, b)[Watched] = IF e = Watched
                THEN Ledger!More(nonconfirm[Watched], Quality[b]) ELSE nonconfirm[Watched]
  BY CountersAt DEF SeatsTyped
<1> QED
  BY <1>1 DEF decrease_free_and_increase_nonconfirm_seat,
     increase_free_and_decrease_nonconfirm_seat, increase_free_seat, decrease_free_seat,
     decrease_nonconfirm_seat, Written, CountersStay, seatVars

LEMMA OnBookStep ==
    ASSUME OnBook
    PROVE  /\ \A E : OffBook(E) => Watched \notin E
           /\ \A e, c : OffBookIf(e, c) => e # Watched \/ ~c
BY DEF OnBook, Off, OffBook, OffBookIf

\* A ticket whose status changes in a row that stays.
LEMMA StatusMoves ==
    ASSUME RowsTyped, NEW t \in Tickets, NEW new,
           status' = [status EXCEPT ![t] = new], UNCHANGED <<event, base>>
    PROVE  /\ Only(t) /\ event'[t] = event[t] /\ base'[t] = base[t]
           /\ Seen(t) = IF event[t] = Watched THEN Place(status[t]) ELSE "none"
           /\ Seen(t)' = IF event[t] = Watched THEN Place(new) ELSE "none"
BY DEF RowsTyped, Only, SeatsSeen, Seen

\* Statuses may change as long as the seats stand where they stood.
LEMMA PlacesStay ==
    ASSUME OnBook, UNCHANGED <<event, base>>, CountersStay,
           \A t \in Tickets : event[t] = Watched => Place(status'[t]) = Place(status[t])
    PROVE  Implemented
<1>1. \A t \in Tickets : Seen(t)' = Seen(t) /\ SeatsSeen(t)' = SeatsSeen(t)
  BY DEF Seen, SeatsSeen
<1> QED BY <1>1, Unseen

\* A ticket of another event, or one with no seats, may change at will.
LEMMA OtherTicket ==
    ASSUME OnBook, NEW t \in Tickets, Only(t), CountersStay,
           Seen(t) = "none", Seen(t)' = "none"
    PROVE  Implemented
<1>1. \A x \in Tickets : Seen(x)' = Seen(x) /\ SeatsSeen(x)' = SeatsSeen(x)
  BY DEF Only, SeatsSeen
<1> QED BY <1>1, Unseen

\* A ticket that is created.
LEMMA CreatedRow ==
    ASSUME RowsTyped, NEW t \in Tickets, NEW u, NEW e, NEW b, NEW c, NEW new,
           create_ticket(t, u, e, b, c), SetStatus(t, new)
    PROVE  /\ Only(t) /\ base'[t] = b /\ event'[t] = e
           /\ Seen(t) = "none"
           /\ Seen(t)' = IF e = Watched THEN Place(new) ELSE "none"
BY DEF RowsTyped, create_ticket, SetStatus, Only, SeatsSeen, Seen, Place, Pending

PlaceNames ==
    /\ Place("CREATED") = "held" /\ Place("PAID") = "held" /\ Place("APPROVED") = "sold"
    /\ Place("ABSENT") = "none"
    /\ \A s \in Final : Place(s) = "none"
    /\ \A s \in Booked : Place(s) = "held" => s \in Pending
    /\ \A s \in Booked : Place(s) = "sold" => s = "APPROVED"

LEMMA PlacesOfStatuses == PlaceNames
BY DEF PlaceNames, Place, Pending, Final, Booked, Status

Ready == OnBook /\ AllTyped
-----------------------------------------------------------------------------
\* Bookings.
LEMMA BookingsImplemented ==
    ASSUME Ready, NEW t \in Tickets, NEW e \in Events, NEW b \in Bases
    PROVE  /\ \A u \in Users : confirm_go_pay(u, t, e, b) => Implemented
           /\ \A u \in Users : confirm_admin_without_payment(u, t, e, b) => Implemented
           /\ \A u, children : post_booking_form(u, t, e, b, children) => Implemented
<1> USE PlacesOfStatuses DEF Ready, AllTyped
<1>0. {"CANCELED"} \subseteq Final
  BY DEF Final
<1>1. ASSUME NEW u \in Users, confirm_go_pay(u, t, e, b) PROVE Implemented
  <2>0. create_ticket(t, u, e, b, conv[u].command)
    BY <1>1 DEF confirm_go_pay, create_and_send_payment
  <2>1. CASE BookingTorn(u, t, e)
    <3>1. SetStatus(t, "CREATED") /\ e # Watched /\ UNCHANGED seatVars
      BY <2>1, OnBookStep DEF BookingTorn
    <3>2. CountersStay
      BY <3>1, SeatOperationsAt
    <3> QED BY <2>0, <3>1, <3>2, CreatedRow, OtherTicket
  <2>2. ASSUME NEW outcome \in {"lost", "late"}, BookingRefused(u, t, e, b, outcome)
        PROVE  Implemented
    <3>1. /\ SetStatus(t, "CANCELED") /\ (e # Watched \/ outcome = "lost")
          /\ decrease_free_and_increase_nonconfirm_seat(e, b, outcome)
      BY <2>2, OnBookStep DEF BookingRefused
    <3>2. CountersStay
      BY <3>1, SeatOperationsAt
    <3>3. Place("CANCELED") = "none"
      BY <1>0 DEF PlaceNames
    <3> QED BY <2>0, <3>1, <3>2, <3>3, CreatedRow, OtherTicket
  <2>3. CASE BookingHeld(u, t, e, b)
    <3>1. /\ SetStatus(t, "CREATED")
          /\ decrease_free_and_increase_nonconfirm_seat(e, b, "done")
      BY <2>3 DEF BookingHeld
    <3>2. CASE e = Watched
      BY <2>0, <3>1, <3>2, CreatedRow, SeatOperationsAt, SeesHold DEF PlaceNames
    <3>3. CASE e # Watched
      BY <2>0, <3>1, <3>3, CreatedRow, SeatOperationsAt, OtherTicket
    <3> QED BY <3>2, <3>3
  <2> QED BY <1>1, <2>1, <2>2, <2>3 DEF confirm_go_pay, create_and_send_payment
<1>2. ASSUME NEW u \in Users, confirm_admin_without_payment(u, t, e, b) PROVE Implemented
  <2>0. create_ticket(t, u, e, b, conv[u].command)
    BY <1>2 DEF confirm_admin_without_payment
  <2>1. ASSUME NEW outcome \in {"lost", "late"}, SetStatus(t, "CANCELED"),
               decrease_free_seat(e, b, outcome), OffBookIf(e, outcome = "late")
        PROVE  Implemented
    <3>1. e # Watched \/ outcome = "lost"
      BY <2>1, OnBookStep
    <3>2. CountersStay
      BY <2>1, <3>1, SeatOperationsAt
    <3>3. Place("CANCELED") = "none"
      BY <1>0 DEF PlaceNames
    <3> QED BY <2>0, <2>1, <3>2, <3>3, CreatedRow, OtherTicket
  <2>2. ASSUME NEW outcome \in {"lost", "done"}, SetStatus(t, "CREATED"),
               decrease_free_seat(e, b, outcome), OffBook({e})
        PROVE  Implemented
    <3>1. e # Watched
      BY <2>2, OnBookStep
    <3>2. CountersStay
      BY <2>2, <3>1, SeatOperationsAt
    <3> QED BY <2>0, <2>2, <3>1, <3>2, CreatedRow, OtherTicket
  <2>3. ASSUME SetStatus(t, "APPROVED"), decrease_free_seat(e, b, "done")
        PROVE  Implemented
    <3>1. CASE e = Watched
      BY <2>0, <2>3, <3>1, CreatedRow, SeatOperationsAt, SeesSellDirect DEF PlaceNames
    <3>2. CASE e # Watched
      BY <2>0, <2>3, <3>2, CreatedRow, SeatOperationsAt, OtherTicket
    <3> QED BY <3>1, <3>2
  <2> QED BY <1>2, <2>1, <2>2, <2>3 DEF confirm_admin_without_payment
<1>3. ASSUME NEW u, NEW children, post_booking_form(u, t, e, b, children)
      PROVE  Implemented
  <2>1. /\ create_ticket(t, u, e, b, "website") /\ SetStatus(t, "CREATED")
        /\ decrease_free_and_increase_nonconfirm_seat(e, b, "done")
    BY <1>3 DEF post_booking_form
  <2>2. CASE e = Watched
    BY <2>1, <2>2, CreatedRow, SeatOperationsAt, SeesHold DEF PlaceNames
  <2>3. CASE e # Watched
    BY <2>1, <2>3, CreatedRow, SeatOperationsAt, OtherTicket
  <2> QED BY <2>2, <2>3
<1> QED BY <1>1, <1>2, <1>3

\* A ticket that held unconfirmed seats, and what can become of them.
LEMMA HeldTicketSteps ==
    ASSUME Ready, NEW t \in Tickets, status[t] \in Pending, NEW new,
           status' = [status EXCEPT ![t] = new], UNCHANGED <<event, base>>
    PROVE  /\ /\ Place(new) = "sold"
              /\ decrease_nonconfirm_seat(event[t], base[t], "done")
              => Implemented
           /\ /\ Place(new) = "none"
              /\ increase_free_and_decrease_nonconfirm_seat(event[t], base[t], "done")
              => Implemented
<1> USE DEF Ready, AllTyped
<1>0. Place(status[t]) = "held" /\ event[t] \in Events
  BY DEF Place, RowsTyped
<1>1. ASSUME Place(new) = "sold", decrease_nonconfirm_seat(event[t], base[t], "done")
      PROVE  Implemented
  <2>1. CASE event[t] = Watched
    BY <1>0, <1>1, <2>1, StatusMoves, SeatOperationsAt, SeesSell
  <2>2. CASE event[t] # Watched
    BY <1>0, <1>1, <2>2, StatusMoves, SeatOperationsAt, OtherTicket
  <2> QED BY <2>1, <2>2
<1>2. ASSUME Place(new) = "none",
             increase_free_and_decrease_nonconfirm_seat(event[t], base[t], "done")
      PROVE  Implemented
  <2>1. CASE event[t] = Watched
    BY <1>0, <1>2, <2>1, StatusMoves, SeatOperationsAt, SeesRelease
  <2>2. CASE event[t] # Watched
    BY <1>0, <1>2, <2>2, StatusMoves, SeatOperationsAt, OtherTicket
  <2> QED BY <2>1, <2>2
<1> QED BY <1>1, <1>2

\* Whatever happens to one ticket of another event, with its counters.
LEMMA ElsewhereImplemented ==
    ASSUME Ready, NEW t \in Tickets, event[t] # Watched, Only(t), event'[t] = event[t],
           CountersStay
    PROVE  Implemented
BY OtherTicket DEF Ready, Seen

\* cancel_ticket_and_return_seat on a created ticket.
LEMMA CancelImplemented ==
    ASSUME Ready, NEW t \in Tickets, status[t] = "CREATED", NEW admin \in BOOLEAN,
           NEW outcome \in {"done", "lost", "late"},
           cancel_ticket_and_return_seat(t, admin, outcome), UNCHANGED <<event, base>>
    PROVE  Implemented
<1> USE PlacesOfStatuses DEF Ready, AllTyped
<1>0. event[t] \in Events /\ Place("CANCELED") = "none" /\ "CREATED" \in Pending
  BY DEF RowsTyped, PlaceNames, Final, Pending
<1>1. event[t] # Watched \/ (outcome # "late" /\ ~(admin /\ outcome = "done"))
  BY OnBookStep DEF cancel_ticket_and_return_seat
<1>2. Only(t)
  BY DEF cancel_ticket_and_return_seat, Only, Seen, SeatsSeen, RowsTyped
<1>3. CASE event[t] # Watched
  <2>1. CountersStay
    BY <1>0, <1>3, SeatOperationsAt DEF cancel_ticket_and_return_seat
  <2> QED BY <1>2, <1>3, <2>1, ElsewhereImplemented
<1>4. CASE outcome = "lost"
  <2>1. CountersStay
    BY <1>0, <1>4, SeatOperationsAt DEF cancel_ticket_and_return_seat
  <2>2. UNCHANGED status
    BY <1>4 DEF cancel_ticket_and_return_seat
  <2> QED BY <2>1, <2>2, PlacesStay
<1>5. CASE outcome = "done" /\ ~admin
  <2>1. /\ status' = [status EXCEPT ![t] = "CANCELED"]
        /\ increase_free_and_decrease_nonconfirm_seat(event[t], base[t], "done")
    BY <1>5 DEF cancel_ticket_and_return_seat
  <2> QED BY <1>0, <2>1, HeldTicketSteps
<1> QED BY <1>1, <1>3, <1>4, <1>5

\* Steps that leave the rows and the counters alone.
LEMMA QuietImplemented ==
    ASSUME Ready, UNCHANGED <<status, event, base, seatVars>>
    PROVE  Implemented
BY PlacesStay, SeatOperationsAt DEF CountersStay, seatVars, Ready

\* Payments and their notifications.
LEMMA PaymentStepsImplemented ==
    ASSUME Ready, NEW t \in Tickets
    PROVE  /\ Pay(t) => Implemented
           /\ processing_ticket_paid(t) => Implemented
           /\ processing_ticket_paid_admin(t) => Implemented
<1> USE PlacesOfStatuses DEF Ready, AllTyped
<1>0. event[t] \in Events /\ status[t] \in Booked
  BY DEF RowsTyped
<1>1. ASSUME Pay(t) PROVE Implemented
  BY <1>1, QuietImplemented DEF Pay, rowVars
<1>2. ASSUME processing_ticket_paid(t) PROVE Implemented
  <2>1. /\ status' = [status EXCEPT ![t] = "PAID"] /\ UNCHANGED <<event, base, seatVars>>
        /\ event[t] # Watched \/ status[t] \in Pending
    BY <1>2, OnBookStep DEF processing_ticket_paid, SetStatus, rowVars
  <2>2. \A x \in Tickets : event[x] = Watched => Place(status'[x]) = Place(status[x])
    BY <2>1 DEF RowsTyped, Place, Pending
  <2> QED BY <2>1, <2>2, SeatOperationsAt, PlacesStay DEF CountersStay, seatVars
<1>3. ASSUME processing_ticket_paid_admin(t) PROVE Implemented
  <2>1. PICK outcome \in {"done", "lost"} :
          /\ decrease_nonconfirm_seat(event[t], base[t], outcome)
          /\ OffBookIf(event[t], status[t] \notin Pending \/ outcome = "lost")
    BY <1>3 DEF processing_ticket_paid_admin
  <2>2. status' = [status EXCEPT ![t] = "APPROVED"] /\ UNCHANGED <<event, base>>
    BY <1>3 DEF processing_ticket_paid_admin, SetStatus, rowVars
  <2>3. CASE event[t] # Watched
    BY <1>0, <2>1, <2>2, <2>3, StatusMoves, SeatOperationsAt, ElsewhereImplemented
  <2>4. CASE event[t] = Watched
    <3>1. status[t] \in Pending /\ outcome = "done"
      BY <2>1, <2>4, OnBookStep
    <3> QED BY <2>1, <2>2, <3>1, HeldTicketSteps DEF PlaceNames
  <2> QED BY <2>3, <2>4
<1> QED BY <1>1, <1>2, <1>3

\* What the buyer does after the booking.
LEMMA BuyerStepsImplemented ==
    ASSUME Ready, NEW u \in Users
    PROVE  /\ \A c : init_conv_hl_dialog(u, c) => Implemented
           /\ confirm_payment(u) => Implemented
           /\ handle_receipt_file(u) => Implemented
           /\ \A t \in Tickets : processing_successful_notification(u, t) => Implemented
           /\ EndDialog(u) => Implemented
<1> USE DEF Ready, AllTyped
<1>1. ASSUME NEW c, init_conv_hl_dialog(u, c) PROVE Implemented
  BY <1>1, QuietImplemented DEF init_conv_hl_dialog, rowVars
<1>2. ASSUME confirm_payment(u) PROVE Implemented
  BY <1>2, QuietImplemented DEF confirm_payment, rowVars
<1>3. ASSUME NEW sent, processing_successful_payment(u, sent), conv[u].ticket # NoTicket,
             UNCHANGED <<event, base, seatVars>>
      PROVE  Implemented
  <2> DEFINE t == conv[u].ticket
  <2>1. t \in Tickets
    BY <1>3, DialogTicket
  <2>2. CASE status[t] # "CREATED"
    BY <1>3, <2>2, QuietImplemented DEF processing_successful_payment
  <2>3. CASE status[t] = "CREATED"
    <3>1. /\ status' = [status EXCEPT ![t] = IF IsAdmin(conv[u].command)
                                             THEN "APPROVED" ELSE "PAID"]
          /\ OffBookIf(event[t], IsAdmin(conv[u].command))
      BY <1>3, <2>3 DEF processing_successful_payment, SetStatus
    <3>2. event[t] = Watched => status' = [status EXCEPT ![t] = "PAID"]
      BY <3>1, OnBookStep DEF IsAdmin
    <3>3. \A x \in Tickets : event[x] = Watched => Place(status'[x]) = Place(status[x])
      <4> HIDE DEF t
      <4> QED BY <2>1, <2>3, <3>1, <3>2, PlacesOfStatuses DEF RowsTyped, PlaceNames
    <3> QED BY <1>3, <3>3, PlacesStay DEF CountersStay, seatVars
  <2> QED BY <2>2, <2>3
<1>4. ASSUME handle_receipt_file(u) PROVE Implemented
  BY <1>3, <1>4 DEF handle_receipt_file, rowVars
<1>5. ASSUME NEW t \in Tickets, processing_successful_notification(u, t) PROVE Implemented
  <2>1. CASE conv[u].command = "none" \/ conv[u].ticket = NoTicket
    BY <1>5, <2>1, QuietImplemented DEF processing_successful_notification, rowVars
  <2>2. CASE ~(conv[u].command = "none" \/ conv[u].ticket = NoTicket)
    BY <1>3, <1>5, <2>2 DEF processing_successful_notification, rowVars
  <2> QED BY <2>1, <2>2
<1>6. ASSUME EndDialog(u) PROVE Implemented
  <2>1. CASE ~HasTicketToCancel(u)
    BY <1>6, <2>1, QuietImplemented DEF EndDialog, rowVars
  <2>2. CASE HasTicketToCancel(u)
    <3>1. conv[u].ticket \in Tickets /\ status[conv[u].ticket] = "CREATED"
      BY <2>2, DialogTicket DEF HasTicketToCancel
    <3>2. PICK outcome \in {"done", "lost", "late"}, admin \in BOOLEAN :
             cancel_ticket_and_return_seat(conv[u].ticket, admin, outcome)
      BY <1>6, <2>2 DEF EndDialog, IsAdmin
    <3>3. UNCHANGED <<event, base>>
      BY <1>6 DEF EndDialog, rowVars
    <3> QED BY <3>1, <3>2, <3>3, CancelImplemented
  <2> QED BY <2>1, <2>2
<1> QED BY <1>1, <1>2, <1>4, <1>5, <1>6

\* A sold ticket whose seats go back on sale.
LEMMA ReturnImplemented ==
    ASSUME Ready, NEW t \in Tickets, status[t] = "APPROVED", NEW new, Place(new) = "none",
           status' = [status EXCEPT ![t] = new], UNCHANGED <<event, base>>,
           increase_free_seat(event[t], base[t], "done")
    PROVE  Implemented
<1> USE PlacesOfStatuses DEF Ready, AllTyped
<1>0. event[t] \in Events /\ Place(status[t]) = "sold"
  BY DEF RowsTyped, PlaceNames
<1>1. CASE event[t] = Watched
  BY <1>0, <1>1, StatusMoves, SeatOperationsAt, SeesReturn
<1>2. CASE event[t] # Watched
  BY <1>0, <1>2, StatusMoves, SeatOperationsAt, ElsewhereImplemented
<1> QED BY <1>1, <1>2

\* The verdict of an admin: a ticket that holds unconfirmed seats is sold
\* or gives them back, if the handler ran to its end.
LEMMA VerdictsImplemented ==
    ASSUME Ready, NEW t \in Tickets
    PROVE  /\ confirm_reserve(t) => Implemented
           /\ reject_reserve(t) => Implemented
<1> USE PlacesOfStatuses DEF Ready, AllTyped
<1>0. event[t] \in Events /\ Place("REJECTED") = "none" /\ Place("APPROVED") = "sold"
  BY DEF RowsTyped, PlaceNames, Final
<1>1. ASSUME NEW verdict, NEW end, AnswerPress(t, verdict, end)
      PROVE  UNCHANGED <<event, base>>
  BY <1>1 DEF AnswerPress, rowVars
<1>2. ASSUME NEW new, NEW end, StatusAfter(t, new, end), event[t] # Watched, CountersStay,
             UNCHANGED <<event, base>>
      PROVE  Implemented
  <2>1. Only(t)
    BY <1>2 DEF StatusAfter, Only, Seen, SeatsSeen, RowsTyped
  <2> QED BY <1>2, <2>1, ElsewhereImplemented
<1>3. ASSUME confirm_reserve(t) PROVE Implemented
  <2>1. PICK end \in Ends :
           /\ AnswerPress(t, "confirm", end)
           /\ IF status[t] = "APPROVED"
              THEN UNCHANGED <<status, seatVars, drift>>
              ELSE /\ decrease_nonconfirm_seat(event[t], base[t], end)
                   /\ StatusAfter(t, "APPROVED", end)
                   /\ OffBookIf(event[t], status[t] \notin Pending \/ end # "done")
    BY <1>3 DEF confirm_reserve
  <2>2. UNCHANGED <<event, base>>
    BY <1>1, <2>1
  <2>3. CASE status[t] = "APPROVED"
    BY <2>1, <2>2, <2>3, QuietImplemented
  <2>4. CASE status[t] # "APPROVED" /\ event[t] # Watched
    BY <1>0, <1>2, <2>1, <2>2, <2>4, SeatOperationsAt
  <2>5. CASE status[t] # "APPROVED" /\ event[t] = Watched
    <3>1. status[t] \in Pending /\ end = "done"
      BY <2>1, <2>5, OnBookStep
    <3>2. status' = [status EXCEPT ![t] = "APPROVED"]
      BY <2>1, <2>5, <3>1 DEF StatusAfter
    <3> QED BY <1>0, <2>1, <2>2, <2>5, <3>1, <3>2, HeldTicketSteps
  <2> QED BY <2>3, <2>4, <2>5
<1>4. ASSUME reject_reserve(t) PROVE Implemented
  <2>1. PICK end \in Ends :
           /\ AnswerPress(t, "reject", end)
           /\ increase_free_and_decrease_nonconfirm_seat(event[t], base[t], end)
           /\ StatusAfter(t, "REJECTED", end)
           /\ OffBookIf(event[t], status[t] \notin Pending \/ end # "done")
    BY <1>4 DEF reject_reserve
  <2>2. UNCHANGED <<event, base>>
    BY <1>1, <2>1
  <2>3. CASE event[t] # Watched
    BY <1>0, <1>2, <2>1, <2>2, <2>3, SeatOperationsAt
  <2>4. CASE event[t] = Watched
    <3>1. status[t] \in Pending /\ end = "done"
      BY <2>1, <2>4, OnBookStep
    <3>2. status' = [status EXCEPT ![t] = "REJECTED"]
      BY <2>1, <3>1 DEF StatusAfter
    <3> QED BY <1>0, <2>1, <2>2, <3>1, <3>2, HeldTicketSteps
  <2> QED BY <2>3, <2>4
<1> QED BY <1>3, <1>4

\* /update_ticket.
LEMMA UpdateTicketImplemented ==
    ASSUME Ready, NEW t \in Tickets
    PROVE  /\ \A new \in Status : update_ticket_status(t, new) => Implemented
           /\ \A new \in Bases : update_ticket_base(t, new) => Implemented
<1> USE PlacesOfStatuses DEF Ready, AllTyped
<1>0. event[t] \in Events /\ base[t] \in Bases /\ status[t] \in Booked
  BY DEF RowsTyped
<1>1. ASSUME NEW new \in Status, update_ticket_status(t, new) PROVE Implemented
  <2> DEFINE change == <<status[t], new>>
             counted == change \in Sells \cup Releases \cup Returns
  <2>1. PICK end \in IF counted THEN Ends ELSE {"done"} :
        /\ CASE change \in Sells -> decrease_nonconfirm_seat(event[t], base[t], end)
             [] change \in Releases ->
                  increase_free_and_decrease_nonconfirm_seat(event[t], base[t], end)
             [] change \in Returns -> increase_free_seat(event[t], base[t], end)
             [] OTHER -> UNCHANGED seatVars
        /\ StatusAfter(t, new, end)
        /\ OffBookIf(event[t], IF counted THEN end # "done"
                               ELSE Place(status[t]) # Place(new))
    BY <1>1 DEF update_ticket_status
  <2>2. UNCHANGED <<event, base>>
    BY <1>1 DEF update_ticket_status, rowVars
  <2>3. /\ change \in Sells => status[t] \in Pending /\ Place(new) = "sold"
        /\ change \in Releases => status[t] \in Pending /\ Place(new) = "none"
        /\ change \in Returns => status[t] = "APPROVED" /\ Place(new) = "none"
        /\ change \in Sells => change \notin Releases /\ change \notin Returns
        /\ change \in Releases => change \notin Returns
    BY DEF Sells, Releases, Returns, Place, Pending, Final
  <2> HIDE DEF change
  <2>4. CASE event[t] # Watched
    <3>1. CountersStay
      BY <1>0, <2>1, <2>3, <2>4, SeatOperationsAt
    <3>2. Only(t)
      BY <2>1, <2>2 DEF StatusAfter, Only, Seen, SeatsSeen, RowsTyped
    <3> QED BY <2>2, <2>4, <3>1, <3>2, ElsewhereImplemented
  <2>5. CASE event[t] = Watched
    <3>1. end = "done" /\ (counted \/ Place(status[t]) = Place(new))
      BY <2>1, <2>5, OnBookStep
    <3>2. status' = [status EXCEPT ![t] = new]
      BY <2>1, <3>1 DEF StatusAfter
    <3>3. CASE change \in Sells
      <4>1. decrease_nonconfirm_seat(event[t], base[t], "done")
        BY <2>1, <2>3, <3>1, <3>3
      <4> QED BY <2>2, <2>3, <3>2, <3>3, <4>1, HeldTicketSteps
    <3>4. CASE change \in Releases
      <4>1. increase_free_and_decrease_nonconfirm_seat(event[t], base[t], "done")
        BY <2>1, <2>3, <3>1, <3>4
      <4> QED BY <2>2, <2>3, <3>2, <3>4, <4>1, HeldTicketSteps
    <3>5. CASE change \in Returns
      <4>1. increase_free_seat(event[t], base[t], "done")
        BY <2>1, <2>3, <3>1, <3>5
      <4> QED BY <2>2, <2>3, <3>2, <3>5, <4>1, ReturnImplemented
    <3>6. CASE ~counted
      <4>1. UNCHANGED seatVars
        BY <2>1, <3>6
      <4>2. \A x \in Tickets : Place(status'[x]) = Place(status[x])
        BY <3>1, <3>2, <3>6 DEF RowsTyped
      <4> QED BY <2>2, <4>1, <4>2, PlacesStay DEF CountersStay, seatVars
    <3> QED BY <3>3, <3>4, <3>5, <3>6
  <2> QED BY <2>4, <2>5
<1>2. ASSUME NEW new \in Bases, update_ticket_base(t, new) PROVE Implemented
  <2>1. PICK end \in Ends :
          /\ update_free_seat(event[t], base[t], new, end)
          /\ base' = IF end = "torn" THEN base ELSE [base EXCEPT ![t] = new]
          /\ OffBookIf(event[t], status[t] # "APPROVED" \/ end # "done")
    BY <1>2 DEF update_ticket_base
  <2>2. /\ UNCHANGED <<status, event>> /\ Only(t) /\ Seen(t)' = Seen(t)
        /\ end = "done" => base'[t] = new
    BY <1>2, <2>1 DEF update_ticket_base, Only, SeatsSeen, RowsTyped, Seen
  <2>3. Lower(Raise(free, event[t], base[t]), event[t], new)[Watched]
          = IF event[t] = Watched
            THEN Ledger!Less(Ledger!More(free[Watched], Quality[base[t]]), Quality[new])
            ELSE free[Watched]
    <3>1. Raise(free, event[t], base[t]) \in Counters
      BY <1>0, RaiseTyped DEF SeatsTyped
    <3> QED BY <1>0, <3>1, CountersAt DEF SeatsTyped
  <2>4. CASE event[t] # Watched
    <3>1. CountersStay
      BY <2>1, <2>3, <2>4 DEF update_free_seat, CountersStay
    <3> QED BY <2>2, <2>4, <3>1, ElsewhereImplemented
  <2>5. CASE event[t] = Watched
    <3>1. status[t] = "APPROVED" /\ end = "done"
      BY <2>1, <2>5, OnBookStep
    <3>2. Seen(t) = "sold"
      BY <2>5, <3>1 DEF Seen, PlaceNames
    <3>3. /\ free'[Watched] = Ledger!Less(Ledger!More(free[Watched], Quality[base[t]]),
                                          Quality[new])
          /\ nonconfirm'[Watched] = nonconfirm[Watched]
      BY <2>1, <2>3, <2>5, <3>1 DEF update_free_seat, Written
    <3>4. base'[t] = new
      BY <2>2, <3>1
    <3> QED BY <2>2, <3>2, <3>3, <3>4, SeesResize
  <2> QED BY <2>4, <2>5
<1> QED BY <1>1, <1>2

\* The first half of a migration, and the end of it.
LEMMA MigrationStopsImplemented ==
    ASSUME Ready, NEW t \in Tickets, migration_stops(t)
    PROVE  Implemented
<1> USE PlacesOfStatuses DEF Ready, AllTyped
<1>0. event[t] \in Events /\ Place("MIGRATED") = "none"
  BY DEF RowsTyped, PlaceNames, Final
<1>1. PICK end \in {"failed", "late", "torn", "returned"} :
        /\ MigrationReturns(t, end)
        /\ OffBookIf(event[t], \/ end \in {"late", "torn"}
                               \/ (end = "returned" /\ status[t] # "APPROVED"))
  BY DEF migration_stops
<1>2. UNCHANGED <<event, base, nonconfirm>>
  BY DEF migration_stops, rowVars
<1>3. CASE event[t] # Watched
  <2>1. CountersStay
    BY <1>0, <1>1, <1>2, <1>3, CountersAt DEF MigrationReturns, CountersStay, SeatsTyped
  <2>2. Only(t)
    BY <1>1, <1>2 DEF MigrationReturns, Only, Seen, SeatsSeen, RowsTyped
  <2> QED BY <1>2, <1>3, <2>1, <2>2, ElsewhereImplemented
<1>4. CASE end = "failed"
  BY <1>1, <1>2, <1>4, QuietImplemented DEF MigrationReturns, seatVars
<1>5. CASE end = "returned" /\ status[t] = "APPROVED"
  <2>1. /\ status' = [status EXCEPT ![t] = "MIGRATED"]
        /\ increase_free_seat(event[t], base[t], "done")
    BY <1>1, <1>2, <1>5 DEF MigrationReturns, increase_free_seat, Written
  <2> QED BY <1>0, <1>2, <1>5, <2>1, ReturnImplemented
<1> QED BY <1>1, <1>3, <1>4, <1>5, OnBookStep

\* A migration: the old ticket returns its seats, if it had any left, and
\* the new one takes its own.
LEMMA MigrationImplemented ==
    ASSUME Ready, NEW u \in Users, NEW t \in Tickets, NEW n \in Tickets,
           NEW e \in Events, NEW b \in Bases, migration(u, t, n, e, b)
    PROVE  Implemented
<1> USE PlacesOfStatuses DEF Ready, AllTyped
<1>0. /\ event[t] \in Events /\ base[t] \in Bases /\ t # n
      /\ Place("MIGRATED") = "none" /\ Place("CANCELED") = "none"
  BY DEF RowsTyped, PlaceNames, Final, migration
<1> DEFINE returned == FreeOnceReturned(t)
<1>1. PICK end \in {"done", "failed", "late", "before", "after"} :
        /\ status' = [status EXCEPT
              ![t] = IF end \in {"failed", "late"} THEN "CANCELED" ELSE "MIGRATED",
              ![n] = IF end = "done" THEN "APPROVED" ELSE "CREATED"]
        /\ free' = IF end \in {"failed", "before"} THEN returned
                   ELSE Lower(returned, e, b)
        /\ OffBook((IF status[t] \in {"APPROVED", "MIGRATED"} THEN {} ELSE {event[t]})
                   \cup IF end = "done" THEN {} ELSE {e})
  BY DEF migration
<1>2. /\ event[t] = Watched => status[t] \in {"APPROVED", "MIGRATED"}
      /\ e = Watched => end = "done"
  BY <1>1, OnBookStep
<1>3. /\ create_ticket(n, u, e, b, "reserve_admin") /\ UNCHANGED nonconfirm
      /\ status[n] = "ABSENT"
  BY DEF migration, create_ticket
<1>4. \A x \in Tickets \ {t, n} : Seen(x)' = Seen(x) /\ SeatsSeen(x)' = SeatsSeen(x)
  BY <1>1, <1>3 DEF RowsTyped, create_ticket, Seen, SeatsSeen
<1>5. /\ event'[n] = e /\ base'[n] = b /\ event'[t] = event[t] /\ base'[t] = base[t]
  BY <1>0, <1>3 DEF RowsTyped, create_ticket
<1>6. Place(status'[t]) = "none"
  BY <1>0, <1>1 DEF RowsTyped
<1>7. end = "done" => Place(status'[n]) = "sold"
  BY <1>1 DEF RowsTyped, PlaceNames
<1>8. /\ Seen(n) = "none" /\ Seen(t)' = "none"
      /\ Seen(n)' = IF e = Watched THEN "sold" ELSE "none"
      /\ Seen(t) = IF event[t] = Watched /\ status[t] = "APPROVED" THEN "sold" ELSE "none"
  BY <1>0, <1>2, <1>3, <1>5, <1>6, <1>7 DEF Seen, PlaceNames
<1>9. returned \in Counters /\ free \in Counters
  BY <1>0, RaiseTyped DEF FreeOnceReturned, SeatsTyped
<1>10. returned[Watched] = IF Seen(t) = "sold"
                           THEN Ledger!More(free[Watched], Quality[base[t]])
                           ELSE free[Watched]
  BY <1>0, <1>2, <1>8, <1>9, CountersAt DEF FreeOnceReturned
<1>11. free'[Watched] = IF e = Watched THEN Ledger!Less(returned[Watched], Quality[b])
                        ELSE returned[Watched]
  <2> HIDE DEF returned
  <2> QED BY <1>1, <1>2, <1>9, CountersAt
<1> HIDE DEF returned
<1>12. CASE Seen(t) = "sold" /\ e = Watched
  BY <1>0, <1>3, <1>4, <1>5, <1>8, <1>10, <1>11, <1>12, SeesExchange
<1>13. CASE Seen(t) # "sold"
  <2>1. Only(n)
    BY <1>4, <1>8, <1>13 DEF Only, SeatsSeen
  <2>2. CASE e = Watched
    BY <1>3, <1>5, <1>8, <1>10, <1>11, <1>13, <2>1, <2>2, SeesSellDirect
  <2>3. CASE e # Watched
    BY <1>3, <1>8, <1>10, <1>11, <1>13, <2>1, <2>3, OtherTicket DEF CountersStay
  <2> QED BY <2>2, <2>3
<1>14. CASE Seen(t) = "sold" /\ e # Watched
  <2>1. Only(t)
    BY <1>4, <1>8, <1>14 DEF Only, SeatsSeen
  <2> QED BY <1>3, <1>8, <1>10, <1>11, <1>14, <2>1, SeesReturn
<1> QED BY <1>12, <1>13, <1>14

\* The clean-ups.
LEMMA JobStepsImplemented ==
    ASSUME Ready, NEW t \in Tickets
    PROVE  /\ cleanup_expired_bookings(t) => Implemented
           /\ cancel_old_created_tickets(t) => Implemented
<1> USE PlacesOfStatuses DEF Ready, AllTyped
<1>0. Place("CANCELED") = "none" /\ "CREATED" \in Pending
  BY DEF PlaceNames, Final, Pending
<1>1. ASSUME cleanup_expired_bookings(t) PROVE Implemented
  <2>1. /\ status' = [status EXCEPT ![t] = "CANCELED"] /\ UNCHANGED <<event, base>>
        /\ status[t] = "CREATED"
        /\ increase_free_and_decrease_nonconfirm_seat(event[t], base[t], "done")
    BY <1>1 DEF cleanup_expired_bookings, SetStatus, rowVars
  <2> QED BY <1>0, <2>1, HeldTicketSteps
<1>2. ASSUME cancel_old_created_tickets(t) PROVE Implemented
  BY <1>2, CancelImplemented DEF cancel_old_created_tickets, rowVars
<1> QED BY <1>1, <1>2
-----------------------------------------------------------------------------
\* Every step on the book.
LEMMA OnBookImplemented == Ready /\ [Next]_vars => Implemented
<1> SUFFICES ASSUME Ready, [Next]_vars PROVE Implemented
  OBVIOUS
<1>1. CASE BuyerStep
  BY <1>1, BookingsImplemented, PaymentStepsImplemented,
     BuyerStepsImplemented DEF BuyerStep
<1>2. CASE WebhookStep
  BY <1>2, PaymentStepsImplemented DEF WebhookStep
<1>3. CASE AdminStep
  <2>1. ASSUME NEW t \in Tickets, NEW verdict, PressButton(t, verdict) PROVE Implemented
    BY <2>1, QuietImplemented DEF PressButton, rowVars
  <2> QED
    BY <1>3, <2>1, BookingsImplemented, VerdictsImplemented, UpdateTicketImplemented,
       MigrationStopsImplemented, MigrationImplemented DEF AdminStep
<1>4. CASE JobStep
  BY <1>4, JobStepsImplemented DEF JobStep
<1>5. CASE \E t \in Tickets : Tick(t)
  BY <1>5, QuietImplemented DEF Tick, rowVars
<1>6. CASE UNCHANGED vars
  BY <1>6, QuietImplemented DEF vars, rowVars
<1> QED BY <1>1, <1>2, <1>3, <1>4, <1>5, <1>6 DEF Next

\* An event that is off the book stays off it.
LEMMA OffStaysOff == [Next]_vars => drift \subseteq drift'
<1> SUFFICES ASSUME [Next]_vars PROVE drift \subseteq drift'
  OBVIOUS
<1> USE DEF OffBook, OffBookIf, historyVars
<1>1. CASE BuyerStep
  <2>1. ASSUME NEW u, NEW t, NEW e, NEW b, confirm_go_pay(u, t, e, b)
        PROVE  drift \subseteq drift'
    BY <2>1 DEF confirm_go_pay, create_and_send_payment, BookingTorn, BookingRefused,
       BookingHeld
  <2>2. ASSUME NEW u, NEW sent, processing_successful_payment(u, sent)
        PROVE  drift \subseteq drift'
    BY <2>2 DEF processing_successful_payment
  <2>3. ASSUME NEW u, NEW t, processing_successful_notification(u, t)
        PROVE  drift \subseteq drift'
    BY <2>2, <2>3 DEF processing_successful_notification
  <2>4. ASSUME NEW u, EndDialog(u) PROVE drift \subseteq drift'
    BY <2>4 DEF EndDialog, cancel_ticket_and_return_seat
  <2>5. ASSUME NEW u, NEW c, init_conv_hl_dialog(u, c) PROVE drift \subseteq drift'
    BY <2>5 DEF init_conv_hl_dialog
  <2>6. ASSUME NEW u, confirm_payment(u) \/ handle_receipt_file(u)
        PROVE  drift \subseteq drift'
    BY <2>2, <2>6 DEF confirm_payment, handle_receipt_file
  <2>7. ASSUME NEW u, NEW t, NEW e, NEW b, NEW c, post_booking_form(u, t, e, b, c)
        PROVE  drift \subseteq drift'
    BY <2>7 DEF post_booking_form
  <2>8. ASSUME NEW t, Pay(t) PROVE drift \subseteq drift'
    BY <2>8 DEF Pay
  <2> QED BY <1>1, <2>1, <2>3, <2>4, <2>5, <2>6, <2>7, <2>8 DEF BuyerStep
<1>2. CASE WebhookStep
  BY <1>2 DEF WebhookStep, processing_ticket_paid, processing_ticket_paid_admin
<1>3. CASE AdminStep
  <2>1. ASSUME NEW u, NEW t, NEW e, NEW b, confirm_admin_without_payment(u, t, e, b)
        PROVE  drift \subseteq drift'
    BY <2>1 DEF confirm_admin_without_payment
  <2>2. ASSUME NEW u, NEW t, NEW n, NEW e, NEW b, migration(u, t, n, e, b)
        PROVE  drift \subseteq drift'
    BY <2>2 DEF migration
  <2>3. ASSUME NEW t, migration_stops(t) PROVE drift \subseteq drift'
    BY <2>3 DEF migration_stops
  <2>4. ASSUME NEW t, NEW verdict, PressButton(t, verdict) PROVE drift \subseteq drift'
    BY <2>4 DEF PressButton
  <2>5. ASSUME NEW t, confirm_reserve(t) \/ reject_reserve(t) PROVE drift \subseteq drift'
    BY <2>5 DEF confirm_reserve, reject_reserve
  <2>6. ASSUME NEW t, NEW new, update_ticket_status(t, new) \/ update_ticket_base(t, new)
        PROVE  drift \subseteq drift'
    BY <2>6 DEF update_ticket_status, update_ticket_base
  <2> QED BY <1>3, <2>1, <2>2, <2>3, <2>4, <2>5, <2>6 DEF AdminStep
<1>4. CASE JobStep
  BY <1>4 DEF JobStep, cleanup_expired_bookings, cancel_old_created_tickets,
     cancel_ticket_and_return_seat
<1>5. CASE \E t \in Tickets : Tick(t)
  BY <1>5 DEF Tick
<1>6. CASE UNCHANGED vars
  BY <1>6 DEF vars
<1> QED BY <1>1, <1>2, <1>3, <1>4, <1>5, <1>6 DEF Next

\* A written-off ledger is blank.
LEMMA BlankOffBook ==
    /\ Off => /\ placeOf = [t \in Tickets |-> "none"]
              /\ amountOf = [t \in Tickets |-> NoSeats]
    /\ Off' => /\ placeOf' = [t \in Tickets |-> "none"]
               /\ amountOf' = [t \in Tickets |-> NoSeats]
BY DEF placeOf, amountOf, At

\* Every step of Booking is a step of the ledger, or nothing to it.
LEMMA StepImplemented == TypeOK /\ [Next]_vars => [Ledger!Next]_Ledger!vars
<1> SUFFICES ASSUME TypeOK, [Next]_vars PROVE Implemented
  BY DEF Implemented
<1>1. AllTyped
  BY TypeOKParts DEF AllTyped
<1>2. Off => Off'
  BY OffStaysOff DEF Off
<1>3. CASE ~Off /\ ~Off'
  BY <1>1, <1>3, OnBookImplemented DEF Ready, OnBook
<1>4. CASE ~Off /\ Off'
  <2>1. Off' = TRUE
    BY <1>4 DEF Off
  <2>2. /\ (IF Off THEN NoSeats ELSE free[Watched])' = NoSeats
        /\ (IF Off THEN NoSeats ELSE nonconfirm[Watched])' = NoSeats
    BY <1>4 DEF NoSeats
  <2>3. Ledger!WriteOff
    BY <1>4, <2>1, <2>2, BlankOffBook DEF Ledger!WriteOff, Ledger!Nothing, NoSeats
  <2> QED BY <2>3 DEF Implemented, Ledger!Next
<1>5. CASE Off
  <2>1. Off' = Off
    BY <1>2, <1>5 DEF Off
  <2>2. /\ (IF Off THEN NoSeats ELSE free[Watched]) = NoSeats
        /\ (IF Off THEN NoSeats ELSE free[Watched])' = NoSeats
        /\ (IF Off THEN NoSeats ELSE nonconfirm[Watched]) = NoSeats
        /\ (IF Off THEN NoSeats ELSE nonconfirm[Watched])' = NoSeats
    BY <1>2, <1>5 DEF NoSeats
  <2>3. placeOf' = placeOf /\ amountOf' = amountOf
    BY <1>2, <1>5, BlankOffBook
  <2> QED BY <2>1, <2>2, <2>3 DEF Implemented, Ledger!vars
<1> QED BY <1>2, <1>3, <1>4, <1>5

LEMMA InitImplemented == Init => Ledger!Init
<1> SUFFICES ASSUME Init PROVE Ledger!Init
  OBVIOUS
<1>1. ~Off /\ Off = FALSE
  BY DEF Init, Off
<1>2. \A t \in Tickets : ~At(t)
  BY DEF Init, At
<1>3. placeOf = [t \in Tickets |-> "none"] /\ amountOf = [t \in Tickets |-> NoSeats]
  BY <1>2 DEF placeOf, amountOf
<1>4. free[Watched] = Capacity[Watched] /\ nonconfirm[Watched] = NoSeats
  BY WatchedAssumption DEF Init, NoSeats
<1> QED BY <1>1, <1>3, <1>4 DEF Ledger!Init, Ledger!Nothing, NoSeats

\* Booking implements the ledger of the watched event.
THEOREM BookingImplementsLedger == Spec => LedgerSpec
<1>1. Spec => Ledger!Init /\ [][Ledger!Next]_Ledger!vars
  BY InitImplemented, StepImplemented, BookingTyped, PTL DEF Spec
<1> QED BY <1>1 DEF LedgerSpec, Ledger!Spec
-----------------------------------------------------------------------------
\* The ledger, with the theorems about it.
Proved == INSTANCE SeatLedgerProofs WITH
    Capacity   <- Capacity[Watched],
    place      <- placeOf,
    amount     <- amountOf,
    free       <- IF Off THEN NoSeats ELSE free[Watched],
    nonconfirm <- IF Off THEN NoSeats ELSE nonconfirm[Watched],
    off        <- Off

\* The instance of the ledger with the proofs is the ledger.
LEMMA SameLedger ==
    /\ Ledger!Init <=> Proved!Init
    /\ [Ledger!Next]_Ledger!vars <=> [Proved!Next]_Proved!vars
<1>1. Ledger!Init <=> Proved!Init
  BY DEF Ledger!Init, Proved!Init, Ledger!Nothing, Proved!Nothing
<1>2. Ledger!vars = Proved!vars /\ Ledger!vars' = Proved!vars'
  BY DEF Ledger!vars, Proved!vars
<1>3. /\ \A t \in Tickets : Ledger!Sell(t) <=> Proved!Sell(t)
      /\ \A t \in Tickets : Ledger!Release(t) <=> Proved!Release(t)
      /\ \A t \in Tickets : Ledger!Return(t) <=> Proved!Return(t)
      /\ Ledger!WriteOff <=> Proved!WriteOff
  BY DEF Ledger!Sell, Proved!Sell, Ledger!Release, Proved!Release, Ledger!Return,
     Proved!Return,
     Ledger!WriteOff, Proved!WriteOff, Ledger!Nothing, Proved!Nothing, Ledger!More,
     Proved!More, Ledger!Less, Proved!Less
<1>4. /\ \A t, q : Ledger!Hold(t, q) <=> Proved!Hold(t, q)
      /\ \A t, q : Ledger!SellDirect(t, q) <=> Proved!SellDirect(t, q)
      /\ \A t, q : Ledger!Resize(t, q) <=> Proved!Resize(t, q)
      /\ \A t, n, q : Ledger!Exchange(t, n, q) <=> Proved!Exchange(t, n, q)
  BY DEF Ledger!Hold, Proved!Hold, Ledger!SellDirect, Proved!SellDirect,
     Ledger!Resize, Proved!Resize,
     Ledger!Exchange, Proved!Exchange, Ledger!Nothing, Proved!Nothing, Ledger!More,
     Proved!More, Ledger!Less, Proved!Less
<1>5. Ledger!Amounts = Proved!Amounts
  BY DEF Ledger!Amounts, Proved!Amounts
<1> QED BY <1>1, <1>2, <1>3, <1>4, <1>5 DEF Ledger!Next, Proved!Next

LEMMA AssumptionHolds == Proved!LedgerAssumption
BY BookingAssumption, WatchedAssumption DEF Proved!LedgerAssumption,
   Proved!IsFiniteSet, IsFiniteSet

LEMMA LedgerBalances == Proved!Spec => []Proved!Balanced
BY Proved!LedgerBalanced, AssumptionHolds

\* The seats of the ledger are the seats of the tickets.
LEMMA BalancedIsConserved == Proved!Balanced => SeatsConserved
<1> SUFFICES ASSUME Proved!Balanced, ~Off, NEW k \in Kinds
             PROVE  /\ free[Watched][k] + Cardinality(Seats(TakenAt(Watched), k))
                         = Capacity[Watched][k]
                    /\ nonconfirm[Watched][k] = Cardinality(Seats(HeldAt(Watched), k))
  BY DEF SeatsConserved
<1>1. /\ placeOf = [t \in Tickets |-> Seen(t)]
      /\ amountOf = [t \in Tickets |-> SeatsSeen(t)]
  BY MappingOnBook
<1>2. Proved!Taken = TakenAt(Watched) /\ Proved!Held = HeldAt(Watched)
  BY <1>1 DEF Proved!Taken, Proved!Held, TakenAt, HeldAt, Seen, Place
<1>3. \A t \in TakenAt(Watched) \cup HeldAt(Watched) :
         t \in Tickets /\ amountOf[t] = Quality[base[t]]
  BY <1>1 DEF TakenAt, HeldAt, Seen, SeatsSeen
<1>4. /\ Proved!Seats(Proved!Taken, k) = Seats(TakenAt(Watched), k)
      /\ Proved!Seats(Proved!Held, k) = Seats(HeldAt(Watched), k)
  BY <1>2, <1>3 DEF Proved!Seats, Seats
<1>5. \A S : Proved!Cardinality(S) = Cardinality(S)
  BY DEF Proved!Cardinality, Cardinality
<1> QED BY <1>4, <1>5 DEF Proved!Balanced

(***************************************************************************)
(* The counters of an event and its tickets agree, whatever the number of  *)
(* tickets, users, events and seats, whatever is lost or interrupted and   *)
(* in whatever order the handlers run, until the event goes off the book.  *)
(***************************************************************************)
THEOREM BookingConservesSeats == Spec => []SeatsConserved
<1>1. Ledger!Spec => Proved!Spec
  BY SameLedger, PTL DEF Ledger!Spec, Proved!Spec
<1>2. Spec => []Proved!Balanced
  BY <1>1, BookingImplementsLedger, LedgerBalances DEF LedgerSpec
<1> QED BY <1>2, BalancedIsConserved, PTL
-----------------------------------------------------------------------------
\* A free counter is below zero by no more seats than nobody asked about.
FreeOK ==
    ~Off => \A k \in Kinds : free[Watched][k] + unchecked[Watched][k] >= 0

\* What a step does to the free seats of the watched event: beyond the seats it
\* does not ask about, it takes what is there.
More(k) == unchecked'[Watched][k] - unchecked[Watched][k]
Asked ==
    \A k \in Kinds :
        /\ More(k) >= 0
        /\ \/ free'[Watched][k] + More(k) >= free[Watched][k]
           \/ free'[Watched][k] + More(k) >= 0

Counted == SeatsTyped /\ HistoryTyped

\* How many seats of the watched event nobody asks about in a step.
LEMMA MoreUnchecked ==
    ASSUME HistoryTyped, NEW e \in Events, NEW seats \in [Kinds -> Nat], NEW k \in Kinds
    PROVE  /\ UNCHANGED unchecked => More(k) = 0
           /\ Unchecked(e, seats) => More(k) = IF e = Watched THEN seats[k] ELSE 0
<1>1. unchecked[Watched][k] \in Nat /\ seats[k] \in Nat
  BY WatchedAssumption DEF HistoryTyped, Tallies
<1>2. Unchecked(e, seats) =>
        unchecked'[Watched][k] = IF e = Watched THEN unchecked[Watched][k] + seats[k]
                                 ELSE unchecked[Watched][k]
  BY WatchedAssumption DEF HistoryTyped, Tallies, Unchecked
<1> QED BY <1>1, <1>2 DEF More

\* Seats that are returned are not fewer than none.
LEMMA MoreIsMore ==
    ASSUME SeatsTyped, NEW e \in Events, NEW b \in Bases
    PROVE  \A k \in Kinds : /\ free[Watched][k] \in Int
                            /\ Raise(free, e, b)[Watched][k] >= free[Watched][k]
<1>1. \A k \in Kinds : free[Watched][k] \in Int /\ Quality[b][k] \in Nat
  BY BookingAssumption, WatchedAssumption DEF SeatsTyped, Counters
<1>2. Raise(free, e, b)[Watched] = IF e = Watched
         THEN [k \in Kinds |-> free[Watched][k] + Quality[b][k]] ELSE free[Watched]
  BY WatchedAssumption DEF SeatsTyped, Counters, Raise
<1> QED BY <1>1, <1>2

LEMMA LessElsewhere ==
    ASSUME SeatsTyped, NEW counter \in Counters, NEW e \in Events \ {Watched}, NEW b
    PROVE  Lower(counter, e, b)[Watched] = counter[Watched]
BY WatchedAssumption DEF Counters, Lower

\* Free seats that stay, or are returned, need no question.
LEMMA NotLowered ==
    ASSUME Counted, \A k \in Kinds : More(k) \in Nat,
           \/ free'[Watched] = free[Watched]
           \/ \E e \in Events, b \in Bases : free' = Raise(free, e, b)
    PROVE  Asked
<1>1. \A k \in Kinds : free[Watched][k] \in Int
  BY WatchedAssumption DEF Counted, SeatsTyped, Counters
<1>2. \A k \in Kinds : free'[Watched][k] \in Int /\ free'[Watched][k] >= free[Watched][k]
  <2>1. CASE free'[Watched] = free[Watched]
    BY <1>1, <2>1
  <2>2. ASSUME NEW e \in Events, NEW b \in Bases, free' = Raise(free, e, b)
        PROVE  \A k \in Kinds : /\ free'[Watched][k] \in Int
                               /\ free'[Watched][k] >= free[Watched][k]
    <3>1. free' \in Counters
      BY <2>2, RaiseTyped DEF Counted, SeatsTyped
    <3> QED BY <2>2, <3>1, MoreIsMore, WatchedAssumption DEF Counted, Counters
  <2> QED BY <2>1, <2>2
<1> QED BY <1>1, <1>2 DEF Asked

LEMMA NotLoweredSilent ==
    ASSUME Counted, UNCHANGED unchecked,
           \/ free'[Watched] = free[Watched]
           \/ \E e \in Events, b \in Bases : free' = Raise(free, e, b)
    PROVE  Asked
<1>1. \A k \in Kinds : More(k) = 0
  BY WatchedAssumption DEF More, Counted, HistoryTyped, Tallies
<1> QED BY <1>1, NotLowered

\* Seats that are taken for a row that is new: what is not asked about is there.
LEMMA TakenAsked ==
    ASSUME Counted, NEW e \in Events, NEW b \in Bases, NEW outcome,
           NEW seats \in [Kinds -> Nat], Unchecked(e, seats),
           free' = IF Written(outcome) THEN Lower(free, e, b) ELSE free,
           \A k \in Kinds : \/ free[e][k] + seats[k] >= Quality[b][k]
                            \/ seats[k] >= Quality[b][k]
    PROVE  Asked
<1>1. \A k \in Kinds : /\ free[Watched][k] \in Int /\ Quality[b][k] \in Nat
                       /\ seats[k] \in Nat
  BY BookingAssumption, WatchedAssumption DEF Counted, SeatsTyped, Counters
<1>2. \A k \in Kinds : More(k) = IF e = Watched THEN seats[k] ELSE 0
  BY MoreUnchecked DEF Counted
<1>3. CASE e # Watched \/ ~Written(outcome)
  <2>1. free'[Watched] = free[Watched]
    BY <1>3, LessElsewhere DEF Counted, SeatsTyped
  <2> QED BY <1>1, <1>2, <2>1, NotLowered
<1>4. CASE e = Watched /\ Written(outcome)
  <2>1. \A k \in Kinds : free'[Watched][k] = free[Watched][k] - Quality[b][k]
    BY <1>4 DEF Counted, SeatsTyped, Counters, Lower
  <2> QED BY <1>1, <1>2, <1>4, <2>1 DEF Asked
<1> QED BY <1>3, <1>4

\* The bookings of the bot ask, or are known not to.
LEMMA BotBookingsAsk ==
    ASSUME Ready, NEW u \in Users, NEW t \in Tickets, NEW e \in Events, NEW b \in Bases
    PROVE  /\ confirm_go_pay(u, t, e, b) => Asked
           /\ confirm_admin_without_payment(u, t, e, b) => Asked
<1> USE DEF Ready, AllTyped, Counted
<1>0. /\ NoSeats \in [Kinds -> Nat] /\ Quality[b] \in [Kinds -> Nat]
      /\ \A k \in Kinds : free[e][k] \in Int /\ Quality[b][k] \in Nat
  BY UnaskedTyped, BookingAssumption DEF SeatsTyped, Counters
<1>1. ASSUME confirm_go_pay(u, t, e, b) PROVE Asked
  <2>1. conv[u].command = "reserve" => \A k \in Kinds : free[e][k] >= Quality[b][k]
    BY <1>1 DEF confirm_go_pay, check_available_ticket_by_free_seat
  <2>2. CASE BookingTorn(u, t, e)
    BY <2>2, NotLoweredSilent DEF BookingTorn, seatVars
  <2>3. ASSUME NEW outcome \in {"lost", "late"}, BookingRefused(u, t, e, b, outcome)
        PROVE  Asked
    <3>1. e = Watched => outcome = "lost"
      BY <2>3, OnBookStep DEF BookingRefused
    <3>2. free'[Watched] = free[Watched]
      BY <2>3, <3>1, LessElsewhere DEF BookingRefused, SeatsTyped, seatVars,
         decrease_free_and_increase_nonconfirm_seat, Written
    <3> QED BY <2>3, <3>2, NotLoweredSilent DEF BookingRefused
  <2>4. CASE BookingHeld(u, t, e, b)
    <3>1. free' = IF Written("done") THEN Lower(free, e, b) ELSE free
      BY <2>4 DEF BookingHeld, decrease_free_and_increase_nonconfirm_seat, Written
    <3>2. CASE conv[u].command = "reserve"
      <4>1. Unchecked(e, NoSeats)
        BY <2>4, <3>2 DEF BookingHeld
      <4>2. \A k \in Kinds : free[e][k] + NoSeats[k] >= Quality[b][k]
        BY <1>0, <2>1, <3>2 DEF NoSeats
      <4> QED BY <1>0, <3>1, <4>1, <4>2, TakenAsked
    <3>3. CASE conv[u].command # "reserve"
      <4>1. Unchecked(e, Quality[b])
        BY <2>4, <3>3 DEF BookingHeld
      <4> QED BY <1>0, <3>1, <4>1, TakenAsked
    <3> QED BY <3>2, <3>3
  <2> QED BY <1>1, <2>2, <2>3, <2>4 DEF confirm_go_pay, create_and_send_payment
<1>2. ASSUME confirm_admin_without_payment(u, t, e, b) PROVE Asked
  <2>1. Unchecked(e, Quality[b])
    BY <1>2 DEF confirm_admin_without_payment
  <2>2. PICK outcome \in {"lost", "late", "done"} : decrease_free_seat(e, b, outcome)
    BY <1>2 DEF confirm_admin_without_payment
  <2> QED BY <1>0, <2>1, <2>2, TakenAsked DEF decrease_free_seat
<1> QED BY <1>1, <1>2

\* So does the website, for the children the form names.
LEMMA WebsiteAsks ==
    ASSUME Ready, NEW u, NEW t \in Tickets, NEW e \in Events, NEW b \in Bases,
           NEW children \in 1..MaxQty, post_booking_form(u, t, e, b, children)
    PROVE  Asked
<1> USE DEF Ready, AllTyped, Counted
<1> DEFINE seats == UnaskedByForm(b, children)
<1>1. /\ free' = IF Written("done") THEN Lower(free, e, b) ELSE free
      /\ Unchecked(e, seats) /\ free[e]["child"] >= children
  BY DEF post_booking_form, decrease_free_and_increase_nonconfirm_seat, Written
<1>2. /\ \A k \in Kinds : free[e][k] \in Int /\ Quality[b][k] \in Nat
      /\ children \in Int /\ seats \in [Kinds -> Nat]
  BY UnaskedTyped, BookingAssumption DEF SeatsTyped, Counters
<1>3. seats["adult"] = Quality[b]["adult"]
  BY DEF UnaskedByForm, Kinds
<1>4. seats["child"] = IF children < Quality[b]["child"]
                       THEN Quality[b]["child"] - children ELSE 0
  BY DEF UnaskedByForm, Kinds
<1>5. "child" \in Kinds /\ "adult" \in Kinds /\ \A k \in Kinds : k = "child" \/ k = "adult"
  BY DEF Kinds
<1> HIDE DEF seats
<1>6. free[e]["child"] + seats["child"] >= Quality[b]["child"]
  BY <1>1, <1>2, <1>4, <1>5
<1>7. seats["adult"] >= Quality[b]["adult"]
  BY <1>2, <1>3, <1>5
<1>8. \A k \in Kinds : \/ free[e][k] + seats[k] >= Quality[b][k]
                       \/ seats[k] >= Quality[b][k]
  BY <1>5, <1>6, <1>7
<1> QED BY <1>1, <1>2, <1>8, TakenAsked

\* Nothing else lowers free seats, but the two commands that do not ask.
LEMMA AdminsAsked ==
    ASSUME Ready, NEW t \in Tickets
    PROVE  /\ \A new \in Bases : update_ticket_base(t, new) => Asked
           /\ \A u \in Users, n \in Tickets, e \in Events, b \in Bases :
                migration(u, t, n, e, b) => Asked
           /\ migration_stops(t) => Asked
<1> USE DEF Ready, AllTyped, Counted
<1>0. event[t] \in Events /\ base[t] \in Bases
  BY DEF RowsTyped
<1>w. ASSUME NEW counter \in Counters, NEW e \in Events, NEW b \in Bases,
             Unchecked(e, Quality[b]),
             \A k \in Kinds : counter[Watched][k] >= free[Watched][k],
             free' = counter \/ free' = Lower(counter, e, b)
      PROVE  Asked
  <2>1. \A k \in Kinds : /\ free[Watched][k] \in Int /\ counter[Watched][k] \in Int
                         /\ Quality[b][k] \in Nat
    BY BookingAssumption, WatchedAssumption DEF SeatsTyped, Counters
  <2>2. \A k \in Kinds : More(k) = IF e = Watched THEN Quality[b][k] ELSE 0
    BY <1>w, MoreUnchecked, UnaskedTyped
  <2>3. Lower(counter, e, b)[Watched] =
          IF e = Watched THEN [k \in Kinds |-> counter[Watched][k] - Quality[b][k]]
          ELSE counter[Watched]
    BY WatchedAssumption DEF Counters, Lower
  <2>4. \A k \in Kinds : /\ free'[Watched][k] \in Int
                         /\ free'[Watched][k] + More(k) >= free[Watched][k]
    BY <1>w, <2>1, <2>2, <2>3
  <2> QED BY <2>1, <2>2, <2>4 DEF Asked
<1>1. ASSUME NEW new \in Bases, update_ticket_base(t, new) PROVE Asked
  <2>1. Unchecked(event[t], Quality[new])
    BY <1>1 DEF update_ticket_base
  <2>2. PICK counter \in {free, Raise(free, event[t], base[t])} :
           free' = counter \/ free' = Lower(counter, event[t], new)
    BY <1>1 DEF update_ticket_base, update_free_seat
  <2>3. counter \in Counters
    BY <1>0, RaiseTyped DEF SeatsTyped
  <2>4. \A k \in Kinds : counter[Watched][k] >= free[Watched][k]
    BY <1>0, MoreIsMore
  <2> QED BY <1>0, <1>w, <2>1, <2>2, <2>3, <2>4
<1>2. ASSUME NEW u \in Users, NEW n \in Tickets, NEW e \in Events, NEW b \in Bases,
             migration(u, t, n, e, b)
      PROVE  Asked
  <2>1. Unchecked(e, Quality[b])
    BY <1>2 DEF migration
  <2>2. PICK counter \in {free, Raise(free, event[t], base[t])} :
           free' = counter \/ free' = Lower(counter, e, b)
    BY <1>2 DEF migration, FreeOnceReturned
  <2>3. counter \in Counters
    BY <1>0, RaiseTyped DEF SeatsTyped
  <2>4. \A k \in Kinds : counter[Watched][k] >= free[Watched][k]
    BY <1>0, MoreIsMore
  <2> QED BY <1>w, <2>1, <2>2, <2>3, <2>4
<1>3. ASSUME migration_stops(t) PROVE Asked
  BY <1>0, <1>3, NotLoweredSilent DEF migration_stops, MigrationReturns
<1> QED BY <1>1, <1>2, <1>3

\* The other handlers take seats back or leave them.
LEMMA OthersAsked ==
    ASSUME Ready, NEW t \in Tickets
    PROVE  /\ confirm_reserve(t) => Asked
           /\ reject_reserve(t) => Asked
           /\ \A new : update_ticket_status(t, new) => Asked
           /\ processing_ticket_paid(t) => Asked
           /\ processing_ticket_paid_admin(t) => Asked
           /\ cleanup_expired_bookings(t) => Asked
           /\ \A admin, outcome :
                cancel_ticket_and_return_seat(t, admin, outcome) /\ UNCHANGED unchecked
                  => Asked
<1> USE DEF Ready, AllTyped, Counted
<1>0. event[t] \in Events /\ base[t] \in Bases
  BY DEF RowsTyped
<1>1. \A outcome :
        /\ increase_free_and_decrease_nonconfirm_seat(event[t], base[t], outcome)
             /\ UNCHANGED unchecked => Asked
        /\ increase_free_seat(event[t], base[t], outcome) /\ UNCHANGED unchecked => Asked
        /\ decrease_nonconfirm_seat(event[t], base[t], outcome) /\ UNCHANGED unchecked
             => Asked
        /\ UNCHANGED seatVars /\ UNCHANGED unchecked => Asked
  BY <1>0, NotLoweredSilent DEF increase_free_and_decrease_nonconfirm_seat, increase_free_seat,
     decrease_nonconfirm_seat, seatVars
<1>2. confirm_reserve(t) => Asked
  BY <1>1 DEF confirm_reserve, AnswerPress
<1>3. reject_reserve(t) => Asked
  BY <1>1 DEF reject_reserve, AnswerPress
<1>4. \A new : update_ticket_status(t, new) => Asked
  BY <1>1 DEF update_ticket_status
<1>5. processing_ticket_paid(t) => Asked
  BY <1>1 DEF processing_ticket_paid
<1>6. processing_ticket_paid_admin(t) => Asked
  BY <1>1 DEF processing_ticket_paid_admin
<1>7. cleanup_expired_bookings(t) => Asked
  BY <1>1 DEF cleanup_expired_bookings, historyVars
<1>8. \A admin, outcome :
        cancel_ticket_and_return_seat(t, admin, outcome) /\ UNCHANGED unchecked => Asked
  BY <1>1 DEF cancel_ticket_and_return_seat
<1> QED BY <1>2, <1>3, <1>4, <1>5, <1>6, <1>7, <1>8

LEMMA StepAsked == Ready /\ [Next]_vars => Asked
<1> SUFFICES ASSUME Ready, [Next]_vars PROVE Asked
  OBVIOUS
<1>0. UNCHANGED <<seatVars, unchecked>> => Asked
  BY NotLoweredSilent DEF seatVars, Ready, AllTyped, Counted
<1>1. CASE BuyerStep
  <2>1. ASSUME NEW u \in Users, EndDialog(u) PROVE Asked
    <3>1. HasTicketToCancel(u) => conv[u].ticket \in Tickets
      BY DEF HasTicketToCancel, Ready, AllTyped, DialogsTyped, Dialog
    <3> QED BY <1>0, <2>1, <3>1, OthersAsked DEF EndDialog
  <2>2. ASSUME NEW u \in Users, NEW t \in Tickets, processing_successful_notification(u, t)
        PROVE  Asked
    BY <1>0, <2>2 DEF processing_successful_notification
  <2>3. ASSUME NEW u \in Users,
               confirm_payment(u) \/ handle_receipt_file(u)
                 \/ \E c \in Commands : init_conv_hl_dialog(u, c)
        PROVE  Asked
    BY <1>0, <2>3 DEF confirm_payment, handle_receipt_file, init_conv_hl_dialog, historyVars
  <2>4. ASSUME NEW t \in Tickets, Pay(t) PROVE Asked
    BY <1>0, <2>4 DEF Pay, historyVars
  <2> QED BY <1>1, <2>1, <2>2, <2>3, <2>4, BotBookingsAsk, WebsiteAsks DEF BuyerStep
<1>2. CASE WebhookStep
  BY <1>2, OthersAsked DEF WebhookStep
<1>3. CASE AdminStep
  <2>1. ASSUME NEW t \in Tickets, NEW verdict, PressButton(t, verdict) PROVE Asked
    BY <1>0, <2>1 DEF PressButton, historyVars
  <2> QED BY <1>3, <2>1, BotBookingsAsk, AdminsAsked, OthersAsked DEF AdminStep
<1>4. CASE JobStep
  BY <1>4, OthersAsked DEF JobStep, cancel_old_created_tickets
<1>5. CASE \E t \in Tickets : Tick(t)
  BY <1>0, <1>5 DEF Tick, historyVars
<1>6. CASE UNCHANGED vars
  BY <1>0, <1>6 DEF vars, historyVars
<1> QED BY <1>1, <1>2, <1>3, <1>4, <1>5, <1>6 DEF Next

\* No counter falls further below zero.
LEMMA FreeStaysOK == Spec => []FreeOK
<1>1. Init => FreeOK
  BY BookingAssumption, WatchedAssumption DEF Init, FreeOK, NoSeats
<1>2. TypeOK /\ FreeOK /\ [Next]_vars => FreeOK'
  <2> SUFFICES ASSUME TypeOK, FreeOK, [Next]_vars, ~Off', NEW k \in Kinds
               PROVE  free'[Watched][k] + unchecked'[Watched][k] >= 0
    BY DEF FreeOK, Off
  <2>1. OnBook
    BY OffStaysOff DEF OnBook, Off
  <2>2. Asked
    BY <2>1, StepAsked, TypeOKParts DEF Ready, AllTyped
  <2>3. TypeOK'
    BY BookingTypedStep
  <2>4. /\ free[Watched][k] \in Int /\ free'[Watched][k] \in Int
        /\ unchecked[Watched][k] \in Nat /\ unchecked'[Watched][k] \in Nat
    BY <2>3, WatchedAssumption DEF TypeOK
  <2>5. free[Watched][k] + unchecked[Watched][k] >= 0
    BY <2>1 DEF FreeOK, OnBook
  <2> QED BY <2>2, <2>4, <2>5 DEF Asked, More
<1> QED BY <1>1, <1>2, BookingTyped, PTL DEF Spec

\* The seats of the tickets can be counted.
LEMMA SeatsCounted ==
    ASSUME NEW T \in SUBSET Tickets, NEW k \in Kinds
    PROVE  Cardinality(Seats(T, k)) \in Nat
<1>0. IsFiniteSet(Tickets) /\ MaxQty \in Int /\ IsFiniteSet(1..MaxQty)
  BY BookingAssumption, FS_Interval
<1>1. IsFiniteSet(Tickets \X (1..MaxQty))
  BY ONLY <1>0, FS_Product
<1>2. Seats(T, k) \subseteq Tickets \X (1..MaxQty)
  BY DEF Seats
<1> QED BY <1>1, <1>2, FS_Subset, FS_CardinalityType

(***************************************************************************)
(* The tickets of an event never take more seats than it has, but for the  *)
(* seats nobody asked about: what the counter promises is what the tickets *)
(* take, and it falls below zero by those seats at most, however many      *)
(* buyers ask at once and whoever else books in between.                   *)
(***************************************************************************)
THEOREM BookingNeverOversells == Spec => []NoOversell
<1>1. TypeOK /\ SeatsConserved /\ FreeOK => NoOversell
  <2> SUFFICES ASSUME TypeOK, SeatsConserved, FreeOK, ~Off, NEW k \in Kinds
               PROVE  Cardinality(Seats(TakenAt(Watched), k))
                        <= Capacity[Watched][k] + unchecked[Watched][k]
    BY DEF NoOversell
  <2>1. Cardinality(Seats(TakenAt(Watched), k)) \in Nat
    BY SeatsCounted DEF TakenAt
  <2>2. /\ free[Watched][k] \in Int /\ unchecked[Watched][k] \in Nat
        /\ free[Watched][k] + unchecked[Watched][k] >= 0
        /\ free[Watched][k] + Cardinality(Seats(TakenAt(Watched), k))
             = Capacity[Watched][k]
    BY WatchedAssumption DEF TypeOK, SeatsConserved, FreeOK
  <2> QED BY <2>1, <2>2
<1> QED BY <1>1, BookingTyped, BookingConservesSeats, FreeStaysOK, PTL
=============================================================================
