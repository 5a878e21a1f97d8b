-------------------------- MODULE MCConcurrentQueue --------------------------
(***************************************************************************)
(* Two pushing and two removing threads, deques of up to two values: the   *)
(* smallest instance in which one notification has to serve two waiting    *)
(* threads and a second push finds the deque not empty.                    *)
(***************************************************************************)
EXTENDS ConcurrentQueue
==============================================================================
