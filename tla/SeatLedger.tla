----------------------------- MODULE SeatLedger -----------------------------
(***************************************************************************)
(* The promise the two seat counters of ONE schedule event make, apart     *)
(* from the handlers that keep it.  A ticket holds seats that are not yet  *)
(* confirmed ("held"), has them confirmed ("sold") or has none; the        *)
(* counters qty_*_free_seat and qty_*_nonconfirm_seat of the event are to  *)
(* agree with the tickets at every moment.  Every action is one of the six *)
(* seat operations of db/db_googlesheets.py together with the change of    *)
(* ticket status that must go with it.                                     *)
(*                                                                         *)
(* WriteOff is the end of the promise: the operators of the system can do  *)
(* things after which the counters of an event are no longer kept (a       *)
(* migration that fails half-way, say).  Booking.tla names each of them;   *)
(* here the event is closed and its pages are blank from then on.          *)
(*                                                                         *)
(* An operator whose name starts with Bug is its neighbour with a mistake  *)
(* in it; nothing uses it.                                                 *)
(***************************************************************************)
EXTENDS Integers, FiniteSets

CONSTANTS
    Tickets,    \* the identifiers tickets are drawn from
    Kinds,      \* the kinds of seat that are counted apart (child, adult)
    Capacity,   \* how many seats of each kind the event was opened with
    MaxQty      \* the most seats of one kind a single ticket can take

ASSUME LedgerAssumption ==
    /\ IsFiniteSet(Tickets)
    /\ MaxQty \in Nat
    /\ Capacity \in [Kinds -> Nat]

VARIABLES
    place,      \* where the seats of each ticket stand
    amount,     \* how many seats of each kind they are
    free,       \* qty_child_free_seat, qty_adult_free_seat
    nonconfirm, \* qty_child_nonconfirm_seat, qty_adult_nonconfirm_seat
    off         \* the counters of this event have been written off

vars == <<place, amount, free, nonconfirm, off>>

Places  == {"none", "held", "sold"}
Amounts == [Kinds -> 0..MaxQty]
Nothing == [k \in Kinds |-> 0]

Held  == {t \in Tickets : place[t] = "held"}
Taken == {t \in Tickets : place[t] # "none"}

\* The seats of kind k of the tickets T, one element for each seat.
Seats(T, k) == {s \in T \X (1..MaxQty) : s[2] <= amount[s[1]][k]}

More(counter, q) == [k \in Kinds |-> counter[k] + q[k]]
Less(counter, q) == [k \in Kinds |-> counter[k] - q[k]]

TypeOK ==
    /\ place \in [Tickets -> Places]
    /\ amount \in [Tickets -> Amounts]
    /\ free \in [Kinds -> Int]
    /\ nonconfirm \in [Kinds -> Int]
    /\ off \in BOOLEAN

Init ==
    /\ place = [t \in Tickets |-> "none"]
    /\ amount = [t \in Tickets |-> Nothing]
    /\ free = Capacity
    /\ nonconfirm = Nothing
    /\ off = FALSE
-----------------------------------------------------------------------------
\* A booking that still has to be confirmed takes seats.
Hold(t, q) ==
    /\ ~off /\ place[t] = "none"
    /\ place' = [place EXCEPT ![t] = "held"]
    /\ amount' = [amount EXCEPT ![t] = q]
    /\ free' = Less(free, q)
    /\ nonconfirm' = More(nonconfirm, q)
    /\ UNCHANGED off

Bug_sold_stays_unconfirmed(t) ==
    /\ ~off /\ place[t] = "held"
    /\ place' = [place EXCEPT ![t] = "sold"]
    /\ UNCHANGED <<amount, free, nonconfirm, off>>

\* Held seats are confirmed.
Sell(t) ==
    /\ ~off /\ place[t] = "held"
    /\ place' = [place EXCEPT ![t] = "sold"]
    /\ nonconfirm' = Less(nonconfirm, amount[t])
    /\ UNCHANGED <<amount, free, off>>

\* Seats are sold with no confirmation to wait for.
SellDirect(t, q) ==
    /\ ~off /\ place[t] = "none"
    /\ place' = [place EXCEPT ![t] = "sold"]
    /\ amount' = [amount EXCEPT ![t] = q]
    /\ free' = Less(free, q)
    /\ UNCHANGED <<nonconfirm, off>>

\* Held seats go back on sale.
Release(t) ==
    /\ ~off /\ place[t] = "held"
    /\ place' = [place EXCEPT ![t] = "none"]
    /\ amount' = [amount EXCEPT ![t] = Nothing]
    /\ free' = More(free, amount[t])
    /\ nonconfirm' = Less(nonconfirm, amount[t])
    /\ UNCHANGED off

\* Sold seats go back on sale.
Return(t) ==
    /\ ~off /\ place[t] = "sold"
    /\ place' = [place EXCEPT ![t] = "none"]
    /\ amount' = [amount EXCEPT ![t] = Nothing]
    /\ free' = More(free, amount[t])
    /\ UNCHANGED <<nonconfirm, off>>

Bug_adds_to_old_amount(t, q) ==
    /\ ~off /\ place[t] = "sold"
    /\ amount' = [amount EXCEPT ![t] = More(@, q)]
    /\ free' = Less(free, q)
    /\ UNCHANGED <<place, nonconfirm, off>>

\* A sold ticket is changed to one with another number of seats.
Resize(t, q) ==
    /\ ~off /\ place[t] = "sold"
    /\ amount' = [amount EXCEPT ![t] = q]
    /\ free' = Less(More(free, amount[t]), q)
    /\ UNCHANGED <<place, nonconfirm, off>>

\* A sold ticket is exchanged for a new one at the same event.
Exchange(t, n, q) ==
    /\ ~off /\ place[t] = "sold" /\ place[n] = "none"
    /\ place' = [place EXCEPT ![t] = "none", ![n] = "sold"]
    /\ amount' = [amount EXCEPT ![t] = Nothing, ![n] = q]
    /\ free' = Less(More(free, amount[t]), q)
    /\ UNCHANGED <<nonconfirm, off>>

WriteOff ==
    /\ ~off
    /\ off' = TRUE
    /\ place' = [t \in Tickets |-> "none"]
    /\ amount' = [t \in Tickets |-> Nothing]
    /\ free' = Nothing
    /\ nonconfirm' = Nothing

Next ==
    \/ \E t \in Tickets :
        \/ Sell(t)
        \/ Release(t)
        \/ Return(t)
        \/ \E q \in Amounts :
            \/ Hold(t, q)
            \/ SellDirect(t, q)
            \/ Resize(t, q)
            \/ \E n \in Tickets : Exchange(t, n, q)
    \/ WriteOff

Spec == Init /\ [][Next]_vars
-----------------------------------------------------------------------------
(***************************************************************************)
(* Every seat the event was opened with is either free or belongs to a     *)
(* ticket, and exactly the seats of the unconfirmed tickets are counted as *)
(* unconfirmed: no sequence of operations loses, invents or doubles a      *)
(* seat.  This is what the six seat operations of db/db_googlesheets.py    *)
(* (lines 342-643) are for.                                                *)
(***************************************************************************)
Balanced ==
    ~off => \A k \in Kinds :
        /\ free[k] + Cardinality(Seats(Taken, k)) = Capacity[k]
        /\ nonconfirm[k] = Cardinality(Seats(Held, k))
=============================================================================
