----------------------- MODULE ConcurrentQueue_proofs ------------------------
(***************************************************************************)
(* The safety of ConcurrentQueue for any number of threads, any values and *)
(* any bound: the inductive invariant is the type invariant with the three *)
(* statements about waiting and stopped threads; the last one needs to     *)
(* know that a stopped thread has seen over_.                              *)
(***************************************************************************)
EXTENDS ConcurrentQueue, SequenceTheorems, TLAPS

Threads == Producers \cup Consumers

\* A thread stops only after abort(), with the deque empty for good.
StoppedSawAbort == \A c \in Consumers : pc[c] = "stopped" => over /\ q = << >>

Inv == TypeOK /\ NoLostWakeup /\ AbortWakesAll /\ StoppedSawAbort

\* A wait ends in a state of the same kind, and never in another wait.
LEMMA WokenUpTypes ==
    /\ \A s \in ProducerStates : WokenUp(s) = s
    /\ \A s \in ConsumerStates : /\ WokenUp(s) \in ConsumerStates \ {"pop", "timed"}
                                 /\ WokenUp(s) = "stopped" => s = "stopped"
BY DEF WokenUp, ProducerStates, ConsumerStates

\* What is left after the first value has been taken.
LEMMA RemovalTypes ==
    ASSUME TypeOK, q # << >>
    PROVE  Head(q) \in Values /\ Tail(q) \in Seq(Values)
BY HeadTailProperties DEF TypeOK

LEMMA InitInv == Init => Inv
<1> SUFFICES ASSUME Init PROVE Inv
  OBVIOUS
<1>1. TypeOK
  BY EmptySeq DEF Init, TypeOK, ProducerStates, ConsumerStates
<1>2. NoLostWakeup /\ AbortWakesAll /\ StoppedSawAbort
  BY DEF Init, NoLostWakeup, AbortWakesAll, StoppedSawAbort
<1> QED
  BY <1>1, <1>2 DEF Inv

LEMMA PushInv ==
    ASSUME Inv, NEW p \in Producers, NEW v \in Values, Push(p, v)
    PROVE  Inv'
<1> USE ThreadsApart DEF Inv, Push, Goto
<1>1. q' \in Seq(Values) /\ q' # << >>
  BY AppendProperties DEF TypeOK
<1>2. TypeOK'
  BY <1>1 DEF TypeOK, ProducerStates
<1>3. \A c \in Consumers : pc'[c] = pc[c]
  BY DEF TypeOK
<1>4. NoLostWakeup'
  BY <1>3 DEF TypeOK, NeedNoti, NoLostWakeup, Waiting
<1>5. AbortWakesAll' /\ StoppedSawAbort'
  BY <1>3 DEF AbortWakesAll, StoppedSawAbort, Waiting
<1> QED
  BY <1>2, <1>4, <1>5

LEMMA NotifyInv ==
    ASSUME Inv, NEW p \in Producers, NotifyPushed(p)
    PROVE  Inv'
<1> USE ThreadsApart DEF Inv, NotifyPushed, NotifyAll
<1>1. \A c \in Consumers : pc'[c] = WokenUp(pc[c])
  BY DEF TypeOK
<1>2. Waiting' = {}
  BY <1>1, WokenUpTypes DEF TypeOK, Waiting
<1>3. TypeOK'
  BY WokenUpTypes DEF TypeOK, ProducerStates
<1>4. StoppedSawAbort'
  BY <1>1, WokenUpTypes DEF TypeOK, StoppedSawAbort
<1> QED
  BY <1>2, <1>3, <1>4 DEF NoLostWakeup, AbortWakesAll

\* The last step of a removal, whether or not it found a value.
LEMMA ReturnInv ==
    ASSUME Inv, NEW c \in Consumers, NEW after \in {"idle", "stopped"},
           \/ Remove(c)
           \/ ReturnFalse(c, after) /\ (after = "stopped" => over)
    PROVE  Inv'
<1> USE ThreadsApart DEF Inv, Remove, ReturnFalse, Goto
<1>1. TypeOK'
  BY RemovalTypes DEF TypeOK, ConsumerStates
<1>2. /\ Waiting' \subseteq Waiting
      /\ \A p \in Producers : pc'[p] = pc[p]
  BY DEF TypeOK, Waiting
<1>3. NoLostWakeup' /\ AbortWakesAll'
  BY <1>2 DEF NoLostWakeup, AbortWakesAll
<1>4. StoppedSawAbort'
  BY DEF TypeOK, StoppedSawAbort
<1> QED
  BY <1>1, <1>3, <1>4

LEMMA WaitInv ==
    ASSUME Inv, NEW c \in Consumers, NEW state \in {"pop", "timed"}, Wait(c, state)
    PROVE  Inv'
BY ThreadsApart
   DEF Inv, Wait, Goto, TypeOK, ConsumerStates, NoLostWakeup, AbortWakesAll, StoppedSawAbort

LEMMA TryPopInv ==
    ASSUME Inv, NEW c \in Consumers, TryPop(c)
    PROVE  Inv'
<1>1. CASE Remove(c)
  BY <1>1, ReturnInv
<1>2. CASE q = << >> /\ got' = [got EXCEPT ![c] = Failed] /\ UNCHANGED <<q, over, pc>>
  BY <1>2 DEF Inv, TypeOK, NoLostWakeup, AbortWakesAll, StoppedSawAbort, Waiting
<1> QED
  BY <1>1, <1>2 DEF TryPop

\* The clock or a spurious wake-up takes one thread out of the wait set.
LEMMA LeaveWaitInv ==
    ASSUME Inv, NEW c \in Consumers, TimeOut(c) \/ SpuriousWakeup(c)
    PROVE  Inv'
<1> USE ThreadsApart DEF Inv, TimeOut, SpuriousWakeup, Goto
<1>1. /\ pc' = [pc EXCEPT ![c] = pc'[c]]
      /\ pc'[c] \in ConsumerStates \ {"pop", "timed", "stopped"}
  BY WokenUpTypes DEF TypeOK, Waiting, ConsumerStates, WokenUp
<1>2. TypeOK'
  BY <1>1 DEF TypeOK
<1>3. Waiting' \subseteq Waiting /\ \A p \in Producers : pc'[p] = pc[p]
  BY <1>1 DEF TypeOK, Waiting
<1>4. NoLostWakeup' /\ AbortWakesAll'
  BY <1>3 DEF NoLostWakeup, AbortWakesAll
<1>5. StoppedSawAbort'
  BY <1>1 DEF TypeOK, StoppedSawAbort
<1> QED
  BY <1>2, <1>4, <1>5

LEMMA AbortInv == Inv /\ Abort => Inv'
<1> SUFFICES ASSUME Inv, Abort PROVE Inv'
  OBVIOUS
<1> USE ThreadsApart DEF Inv, Abort
<1>1. \A c \in Consumers : pc'[c] = WokenUp(pc[c])
  BY DEF TypeOK
<1>2. Waiting' = {}
  BY <1>1, WokenUpTypes DEF TypeOK, Waiting
<1>3. TypeOK'
  BY WokenUpTypes DEF TypeOK
<1>4. StoppedSawAbort'
  BY <1>1, WokenUpTypes DEF TypeOK, StoppedSawAbort
<1> QED
  BY <1>2, <1>3, <1>4 DEF NoLostWakeup, AbortWakesAll

LEMMA ClearInv == Inv /\ Clear => Inv'
BY EmptySeq
   DEF Inv, Clear, TypeOK, NoLostWakeup, AbortWakesAll, StoppedSawAbort, Waiting

LEMMA NextInv == Inv /\ [Next]_vars => Inv'
<1> SUFFICES ASSUME Inv, [Next]_vars PROVE Inv'
  OBVIOUS
<1>1. CASE UNCHANGED vars
  BY <1>1 DEF vars, Inv, TypeOK, NoLostWakeup, AbortWakesAll, StoppedSawAbort, Waiting
<1>2. ASSUME NEW p \in Producers, NEW v \in Values, Push(p, v) PROVE Inv'
  BY <1>2, PushInv
<1>3. ASSUME NEW p \in Producers, PushDropped(p) PROVE Inv'
  BY <1>1, <1>3 DEF PushDropped
<1>4. ASSUME NEW p \in Producers, NotifyPushed(p) PROVE Inv'
  BY <1>4, NotifyInv
<1>5. ASSUME NEW c \in Consumers, Pop(c) PROVE Inv'
  BY <1>5, ReturnInv, WaitInv DEF Pop
<1>6. ASSUME NEW c \in Consumers, TimedPop(c) \/ TimedOutPop(c) PROVE Inv'
  BY <1>6, ReturnInv, WaitInv DEF TimedPop, TimedOutPop
<1>7. ASSUME NEW c \in Consumers, TryPop(c) PROVE Inv'
  BY <1>7, TryPopInv
<1>8. ASSUME NEW c \in Consumers, TimeOut(c) \/ SpuriousWakeup(c) PROVE Inv'
  BY <1>8, LeaveWaitInv
<1> QED
  BY <1>1, <1>2, <1>3, <1>4, <1>5, <1>6, <1>7, <1>8, AbortInv, ClearInv
     DEF Next, ConsumerStep

THEOREM InvHolds == Spec => []Inv
  BY InitInv, NextInv, PTL DEF Spec

\* Every variable keeps its type.
THEOREM TypeCorrect == Spec => []TypeOK
  BY InvHolds, PTL DEF Inv

\* No value sits in the deque beside a waiting thread unless a notification is
\* on its way, for any number of pushing and waiting threads.
THEOREM NoWakeupIsLost == Spec => []NoLostWakeup
  BY InvHolds, PTL DEF Inv

\* After abort() no thread waits.
THEOREM AbortReleasesAll == Spec => []AbortWakesAll
  BY InvHolds, PTL DEF Inv

\* A thread that ended on pop's false left an empty deque behind.
THEOREM StoppedDrained == Spec => []StoppedMeansDrained
<1>1. Inv => StoppedMeansDrained
  BY DEF Inv, StoppedSawAbort, StoppedMeansDrained
<1> QED
  BY <1>1, InvHolds, PTL

-----------------------------------------------------------------------------
(* Refinement: a step of ConcurrentQueue is one step of FifoQueue or none. *)

LEMMA InitFifo == Init => Fifo!Init
BY DEF Init, Fifo!Init

LEMMA RemovalFifo ==
    ASSUME NEW c \in Consumers, NEW after, Remove(c) \/ ReturnFalse(c, after)
    PROVE  Fifo!Next
BY DEF Remove, ReturnFalse, Fifo!Next, Fifo!Take, Fifo!ComeBackEmpty

LEMMA NextFifo == Inv /\ [Next]_vars => [Fifo!Next]_(Fifo!fifoVars)
<1> SUFFICES ASSUME Inv, [Next]_vars
             PROVE  Fifo!Next \/ UNCHANGED <<q, over, got>>
  BY DEF Fifo!fifoVars
<1>1. ASSUME NEW p \in Producers, NEW v \in Values, Push(p, v) PROVE Fifo!Next
  BY <1>1 DEF Push, Fifo!Next, Fifo!Put
<1>2. ASSUME NEW c \in Consumers, ConsumerStep(c)
      PROVE  Fifo!Next \/ UNCHANGED <<q, over, got>>
  <2>1. CASE Pop(c)
    BY <2>1, RemovalFifo DEF Pop, Wait
  <2>2. CASE TimedPop(c)
    BY <2>2, RemovalFifo DEF TimedPop, Wait
  <2>3. CASE TimedOutPop(c)
    BY <2>3, RemovalFifo DEF TimedOutPop
  <2>4. CASE TryPop(c)
    BY <2>4, RemovalFifo DEF TryPop, Fifo!Next, Fifo!ComeBackEmpty
  <2> QED
    BY <1>2, <2>1, <2>2, <2>3, <2>4 DEF ConsumerStep
<1>3. ASSUME Abort \/ Clear PROVE Fifo!Next
  BY <1>3 DEF Abort, Clear, Fifo!Next, Fifo!Shut, Fifo!Empty
<1>4. ASSUME NEW c \in Consumers, TimeOut(c) \/ SpuriousWakeup(c)
      PROVE  UNCHANGED <<q, over, got>>
  BY <1>4 DEF TimeOut, SpuriousWakeup
<1>5. ASSUME NEW p \in Producers, PushDropped(p) \/ NotifyPushed(p)
      PROVE  UNCHANGED <<q, over, got>>
  BY <1>5 DEF PushDropped, NotifyPushed, vars
<1> QED
  BY <1>1, <1>2, <1>3, <1>4, <1>5 DEF Next, vars

\* Callers of the lock-and-condition-variable code see a FIFO queue.
THEOREM QueueIsFifo == Spec => ImplementsFifo
  BY InitFifo, InvHolds, NextFifo, PTL DEF Spec, ImplementsFifo, Fifo!Spec
==============================================================================
