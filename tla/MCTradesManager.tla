--------------------------- MODULE MCTradesManager ---------------------------
(***************************************************************************)
(* Two positions and a balance, three changes and two failures: enough for *)
(* a snapshot of several items to be cut short, and for a position to open *)
(* and close around a lost connection.                                     *)
(***************************************************************************)
EXTENDS TradesManager
==============================================================================
