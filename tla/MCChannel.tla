------------------------------ MODULE MCChannel ------------------------------
(***************************************************************************)
(* The channel with one plain order, one batch and two subscriptions.      *)
(***************************************************************************)
EXTENDS Channel

CONSTANTS account, positions

TwoSubscriptions == <<account, positions>>
OneSubscription == <<account>>
NoSubscription == << >>
==============================================================================
