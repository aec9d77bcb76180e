------------------------------- MODULE MCShell -------------------------------
(* An instance of Shell for TLC: a history of two entries overflows within   *)
(* the six reads.                                                           *)
EXTENDS Shell
=============================================================================
