--------------------------- MODULE BookingLedger ---------------------------
(***************************************************************************)
(* The counters of one event as Booking keeps them, seen as a SeatLedger.  *)
(* A ticket of the event stands where its status says; an event whose      *)
(* counters have drifted is a ledger that was written off.                 *)
(***************************************************************************)
EXTENDS Booking

CONSTANT Watched   \* the event that is looked at
ASSUME WatchedAssumption == Watched \in Events

Off == Watched \in drift
At(t) == ~Off /\ status[t] # "ABSENT" /\ event[t] = Watched

placeOf == [t \in Tickets |-> IF At(t) THEN Place(status[t]) ELSE "none"]
amountOf == [t \in Tickets |->
               IF At(t) /\ Place(status[t]) # "none" THEN Quality[base[t]] ELSE NoSeats]

Ledger == INSTANCE SeatLedger WITH
    Capacity   <- Capacity[Watched],
    place      <- placeOf,
    amount     <- amountOf,
    free       <- IF Off THEN NoSeats ELSE free[Watched],
    nonconfirm <- IF Off THEN NoSeats ELSE nonconfirm[Watched],
    off        <- Off

(***************************************************************************)
(* Until something off the book happens at an event, whatever the buyers,  *)
(* the admins, the payment service, the jobs and the website do, in any    *)
(* order, is for its counters one of the operations of SeatLedger or       *)
(* nothing at all.                                                         *)
(***************************************************************************)
LedgerSpec == Ledger!Spec

(***************************************************************************)
(* As long as nothing off the book happened at the event, its counters are *)
(* exactly what its tickets say: a seat is free or belongs to one ticket   *)
(* that is created, paid or approved, and the seats counted as unconfirmed *)
(* are those of the created and paid tickets.                              *)
(***************************************************************************)
SeatsConserved ==
    ~Off => \A k \in Kinds :
        /\ free[Watched][k] + Cardinality(Seats(TakenAt(Watched), k)) = Capacity[Watched][k]
        /\ nonconfirm[Watched][k] = Cardinality(Seats(HeldAt(Watched), k))

(***************************************************************************)
(* No more seats of the event are given away than there are, but for those *)
(* the program hands out without asking how many are free: /reserve asks   *)
(* for both kinds (utl_check.py:23-46), the website for as many seats of   *)
(* children as its form names (booking.py:181-182), and an admin for none. *)
(* So bot and website never both sell the last seat that each asks about.  *)
(***************************************************************************)
NoOversell ==
    ~Off => \A k \in Kinds :
        Cardinality(Seats(TakenAt(Watched), k))
            <= Capacity[Watched][k] + unchecked[Watched][k]
=============================================================================
