---------------------------- MODULE MCSeatLedger ----------------------------
(***************************************************************************)
(* The ledger of an event on three tickets, two kinds of seat and up to    *)
(* two seats each, and what goes on around it.                             *)
(***************************************************************************)
EXTENDS Background

MCKinds == {"child", "adult"}
MCCapacity == [k \in MCKinds |-> IF k = "child" THEN 4 ELSE 3]
=============================================================================
