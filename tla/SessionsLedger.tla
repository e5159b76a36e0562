--------------------------- MODULE SessionsLedger ---------------------------
(***************************************************************************)
(* The counters as the sessions of Sessions leave them, commit by commit,  *)
(* seen as a SeatLedger with one kind of seat.                             *)
(***************************************************************************)
EXTENDS Sessions

Kinds == {"seat"}
OfSeats(n) == [k \in Kinds |-> n]
standOf == [t \in Tickets |-> IF spoilt THEN "none" ELSE Stand(t)]

Ledger == INSTANCE SeatLedger WITH
    MaxQty     <- 1,
    Capacity   <- OfSeats(Capacity),
    place      <- standOf,
    amount     <- [t \in Tickets |-> OfSeats(IF standOf[t] = "none" THEN 0 ELSE 1)],
    free       <- OfSeats(IF spoilt THEN 0 ELSE row.free),
    nonconfirm <- OfSeats(IF spoilt THEN 0 ELSE row.nonconfirm),
    off        <- spoilt

(***************************************************************************)
(* The reads and commits of the bot, the job, the clean-up and the website *)
(* in any order amount to operations of the ledger, as long as no session  *)
(* writes over a newer row or ticket, no payment comes for a ticket that   *)
(* has ended and no process dies between two commits that belong together: *)
(* these four, and only these, cost the event its counters.                *)
(***************************************************************************)
LedgerSpec == Ledger!Spec
=============================================================================
