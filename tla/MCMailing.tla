----------------------------- MODULE MCMailing -----------------------------
(* Mailing on a few campaigns and chats.                                   *)
EXTENDS Mailing
=============================================================================
