------------------------------ MODULE MCDialogs ------------------------------
(***************************************************************************)
(* Two showings, three kinds of ticket, two children, two plays, and the   *)
(* bounds of Dialogs.cfg.                                                  *)
(***************************************************************************)
EXTENDS Dialogs

MCPlayOf == [s \in {"s1", "s2"} |-> IF s = "s1" THEN "a" ELSE "b"]
MCVisitors == [p \in {"a", "b"} |-> IF p = "a" THEN {"ann"} ELSE {}]
\* A ticket that is paid for, of a showing to come, and a cancelled one of a
\* showing that is over.
MCSold ==
    {[id |-> 1, chat |-> "ann", status |-> "PAID", type_event |-> "show",
      theater_event |-> "a", schedule_event |-> "s1", base_ticket |-> "pair",
      past |-> FALSE, on |-> TRUE],
     [id |-> 2, chat |-> "bob", status |-> "CANCELED", type_event |-> "show",
      theater_event |-> "b", schedule_event |-> "s0", base_ticket |-> "pair",
      past |-> TRUE, on |-> FALSE]}

\* A dialog opened while another is open is not followed further, nor is a
\* second one after a first that wrote to the database: it differs from a
\* first one by what was left in user_data only.
Followed ==
    /\ owner # "several"
    /\ starts = 2 => email = "none" /\ waiting = {}
=============================================================================
