----------------------------- MODULE MCProcess -----------------------------
(* Small instances of Process for TLC. *)
EXTENDS Process

MCProcs == 1..3
MCCodes == {-1, 0}
=============================================================================
