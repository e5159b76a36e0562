----------------------------- MODULE MCSessions -----------------------------
(* Sessions and its ledger on a few tickets and booking forms.             *)
EXTENDS SessionsLedger

\* The ledger says nothing once the counters are spoilt.
Unspoilt == ~spoilt
=============================================================================
