------------------------------ MODULE FifoQueue ------------------------------
(***************************************************************************)
(* What ConcurrentQueueT promises to the threads that share one: a FIFO    *)
(* queue whose operations take effect at once.  A removal that comes back  *)
(* empty-handed tells the truth about the queue at one moment of the call, *)
(* and after a close nothing is added and what was there can still be      *)
(* taken.  The locks, the condition variable and the waiting threads of    *)
(* the code are in ConcurrentQueue, which is shown to implement this.      *)
(***************************************************************************)
EXTENDS Sequences

CONSTANTS Values,     \* what can be queued
          Consumers,  \* the threads that remove
          NoValue,    \* a consumer that has not been given anything yet
          Failed      \* a removal that returned false

VARIABLES queue,   \* the accepted values that have not been removed
          closed,  \* no value is accepted any more
          got      \* the result of the last removal of each consumer

fifoVars == <<queue, closed, got>>

Init == /\ queue = << >>
        /\ closed = FALSE
        /\ got = [c \in Consumers |-> NoValue]

Put(v) == /\ ~closed
          /\ queue' = Append(queue, v)
          /\ UNCHANGED <<closed, got>>

Take(c) == /\ queue # << >>
           /\ got' = [got EXCEPT ![c] = Head(queue)]
           /\ queue' = Tail(queue)
           /\ UNCHANGED closed

\* A removal may fail only while there is nothing to remove.
ComeBackEmpty(c) == /\ queue = << >>
                    /\ got' = [got EXCEPT ![c] = Failed]
                    /\ UNCHANGED <<queue, closed>>

Shut == /\ closed' = TRUE
        /\ UNCHANGED <<queue, got>>

Empty == /\ queue' = << >>
         /\ UNCHANGED <<closed, got>>

Next == \/ \E v \in Values : Put(v)
        \/ \E c \in Consumers : Take(c) \/ ComeBackEmpty(c)
        \/ Shut
        \/ Empty

Spec == Init /\ [][Next]_fifoVars
==============================================================================
