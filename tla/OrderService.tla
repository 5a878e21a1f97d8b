----------------------------- MODULE OrderService ----------------------------
(***************************************************************************)
(* What Channel promises to a caller of sendCmd, whatever happens to the   *)
(* connection: an order is answered at most once and the answer stands; an *)
(* answer "ok" is given only to an order the exchange has executed.  It    *)
(* does not promise that an order is executed only once, nor that an order *)
(* answered with an error was never executed.                              *)
(***************************************************************************)
CONSTANT Orders

VARIABLES status,  \* "unsent", "pending" or the verdict the callback was given
          done     \* has the exchange executed the order?

serviceVars == <<status, done>>

Init == /\ status = [r \in Orders |-> "unsent"]
        /\ done = [r \in Orders |-> FALSE]

Submit(r) == /\ status[r] = "unsent"
             /\ status' = [status EXCEPT ![r] = "pending"]
             /\ UNCHANGED done

\* Possibly after the answer: an earlier copy may still be on its way.
Execute(r) == /\ status[r] # "unsent"
              /\ ~done[r]
              /\ done' = [done EXCEPT ![r] = TRUE]
              /\ UNCHANGED status

Answer(r, v) == /\ status[r] = "pending"
                /\ v = "ok" => done[r]
                /\ status' = [status EXCEPT ![r] = v]
                /\ UNCHANGED done

Next == \E r \in Orders : \/ Submit(r)
                         \/ Execute(r)
                         \/ \E v \in {"ok", "error"} : Answer(r, v)

Spec == Init /\ [][Next]_serviceVars
==============================================================================
