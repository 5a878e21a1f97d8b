---------------------------- MODULE MCTimerWheel -----------------------------
(***************************************************************************)
(* Three wheels, so that a node can fall twice in one tick.                *)
(***************************************************************************)
EXTENDS TimerWheel
==============================================================================
