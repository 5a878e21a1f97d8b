----------------------------- MODULE MCKeepAlive -----------------------------
(***************************************************************************)
(* The times of the code in units of 5 seconds.                            *)
(***************************************************************************)
EXTENDS KeepAlive
==============================================================================
