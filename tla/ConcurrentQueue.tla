--------------------------- MODULE ConcurrentQueue ---------------------------
(***************************************************************************)
(* ConcurrentQueueT (utils/concurrent_queue.h): a deque, a flag over_, a   *)
(* mutex and a condition variable.  Each critical section is one action.   *)
(* A push leaves the lock before it notifies, and it notifies only when    *)
(* the deque was empty: between the two steps other threads run.  A wait   *)
(* may end by a notification, by its time-out or for no reason at all.     *)
(***************************************************************************)
EXTENDS Integers, Sequences

CONSTANTS Values, Producers, Consumers, NoValue, Failed,
          MaxLen      \* bound: no push starts while the deque is this long

ASSUME ThreadsApart == Producers \cap Consumers = {}
ASSUME ResultsApart == NoValue \notin Values /\ Failed \notin Values /\ NoValue # Failed
ASSUME MaxLenNat == MaxLen \in Nat

VARIABLES q,     \* q_
          over,  \* over_
          pc,    \* where each thread stands
          got    \* the result of the last removal of each consumer

vars == <<q, over, pc, got>>

ProducerStates == {"idle", "notifying"}

(***************************************************************************)
(* pop:    waiting in pop, no time-out    poppable:  awake, at the lock    *)
(* timed:  waiting in pop with a time-out timedable: awake, at the lock    *)
(* late:   the time-out ended the wait    stopped:   pop without time-out  *)
(*                                        returned false, the thread ended *)
(***************************************************************************)
ConsumerStates == {"idle", "pop", "poppable", "timed", "timedable", "late", "stopped"}

\* The wait set of available_cond_.
Waiting == {c \in Consumers : pc[c] \in {"pop", "timed"}}

Init == /\ q = << >>
        /\ over = FALSE
        /\ pc = [t \in Producers \cup Consumers |-> "idle"]
        /\ got = [c \in Consumers |-> NoValue]

Goto(t, state) == pc' = [pc EXCEPT ![t] = state]

\* notify_all: every waiting thread leaves the wait and heads for the lock.
WokenUp(state) == CASE state = "pop"   -> "poppable"
                    [] state = "timed" -> "timedable"
                    [] OTHER           -> state

\* Fault: notify_one instead of notify_all.
NotifyOne(self, after) ==
    IF Waiting = {} THEN Goto(self, after)
    ELSE \E c \in Waiting : pc' = [pc EXCEPT ![self] = after, ![c] = WokenUp(@)]

NotifyAll(self, after) ==
    pc' = [t \in Producers \cup Consumers |->
              IF t = self THEN after ELSE WokenUp(pc[t])]

-----------------------------------------------------------------------------
(* push *)

\* need_noti: only a push into an empty deque notifies.
\* Fault: the deque is examined after the value went in.
NeedNotiTooLate == Len(q) = 1

NeedNoti == q = << >>

Push(p, v) ==
    /\ pc[p] = "idle"
    /\ Len(q) < MaxLen
    /\ ~over
    /\ q' = Append(q, v)
    /\ IF NeedNoti THEN Goto(p, "notifying") ELSE UNCHANGED pc
    /\ UNCHANGED <<over, got>>

\* After abort() a push changes nothing.
PushDropped(p) ==
    /\ pc[p] = "idle"
    /\ over
    /\ UNCHANGED vars

NotifyPushed(p) ==
    /\ pc[p] = "notifying"
    /\ NotifyAll(p, "idle")
    /\ UNCHANGED <<q, over, got>>

-----------------------------------------------------------------------------
(* The three removals.  A thread enters the critical section when it calls *)
(* and again each time it has been woken.                                  *)

Remove(c) ==
    /\ q # << >>
    /\ got' = [got EXCEPT ![c] = Head(q)]
    /\ q' = Tail(q)
    /\ Goto(c, "idle")
    /\ UNCHANGED over

ReturnFalse(c, after) ==
    /\ q = << >>
    /\ got' = [got EXCEPT ![c] = Failed]
    /\ Goto(c, after)
    /\ UNCHANGED <<q, over>>

Wait(c, state) ==
    /\ q = << >>
    /\ ~over
    /\ Goto(c, state)
    /\ UNCHANGED <<q, over, got>>

\* Fault: over_ is examined before the deque.
PopAbortFirst(c) ==
    /\ pc[c] \in {"idle", "poppable"}
    /\ \/ over /\ Goto(c, "stopped") /\ got' = [got EXCEPT ![c] = Failed] /\ UNCHANGED <<q, over>>
       \/ ~over /\ Remove(c)
       \/ Wait(c, "pop")

\* Fault: a woken thread that finds the deque empty waits again whatever over_ is.
PopForgetsAbort(c) ==
    /\ pc[c] \in {"idle", "poppable"}
    /\ \/ Remove(c)
       \/ q = << >> /\ Goto(c, "pop") /\ UNCHANGED <<q, over, got>>

\* pop(T*): false only after abort(); its caller, cb_proc, then ends.
Pop(c) ==
    /\ pc[c] \in {"idle", "poppable"}
    /\ \/ Remove(c)
       \/ over /\ ReturnFalse(c, "stopped")
       \/ Wait(c, "pop")

\* pop(T*, milliseconds): false after abort() ...
TimedPop(c) ==
    /\ pc[c] \in {"idle", "timedable"}
    /\ \/ Remove(c)
       \/ over /\ ReturnFalse(c, "idle")
       \/ Wait(c, "timed")

\* Fault: a time-out returns false without looking at the deque again.
TimedOutPopBlind(c) ==
    /\ pc[c] = "late"
    /\ got' = [got EXCEPT ![c] = Failed]
    /\ Goto(c, "idle")
    /\ UNCHANGED <<q, over>>

\* ... or when the time-out finds the deque still empty.
TimedOutPop(c) ==
    /\ pc[c] = "late"
    /\ Remove(c) \/ ReturnFalse(c, "idle")

TryPop(c) ==
    /\ pc[c] = "idle"
    /\ \/ Remove(c)
       \/ q = << >> /\ got' = [got EXCEPT ![c] = Failed] /\ UNCHANGED <<q, over, pc>>

\* The clock ends a timed wait.
TimeOut(c) ==
    /\ pc[c] = "timed"
    /\ Goto(c, "late")
    /\ UNCHANGED <<q, over, got>>

\* A condition variable may end a wait without a notification.
SpuriousWakeup(c) ==
    /\ c \in Waiting
    /\ Goto(c, WokenUp(pc[c]))
    /\ UNCHANGED <<q, over, got>>

-----------------------------------------------------------------------------
(* abort notifies inside its critical section; the destructor calls it.    *)

Abort ==
    /\ over' = TRUE
    /\ pc' = [t \in Producers \cup Consumers |-> WokenUp(pc[t])]
    /\ UNCHANGED <<q, got>>

Clear ==
    /\ q' = << >>
    /\ UNCHANGED <<over, pc, got>>

-----------------------------------------------------------------------------

ConsumerStep(c) == Pop(c) \/ TimedPop(c) \/ TimedOutPop(c) \/ TryPop(c)

\* The rest of a call that has been woken and only needs the lock.
Resume(c) == pc[c] # "idle" /\ ConsumerStep(c)

Next ==
    \/ \E p \in Producers : \/ \E v \in Values : Push(p, v)
                            \/ PushDropped(p)
                            \/ NotifyPushed(p)
    \/ \E c \in Consumers : ConsumerStep(c) \/ TimeOut(c) \/ SpuriousWakeup(c)
    \/ Abort
    \/ Clear

(***************************************************************************)
(* A thread that is not waiting keeps running, the mutex is granted to     *)
(* each of its contenders in the end, and a time-out expires.  Nobody is   *)
(* obliged to call push, pop, abort or clear.                              *)
(***************************************************************************)
Fairness ==
    /\ \A p \in Producers : WF_vars(NotifyPushed(p))
    /\ \A c \in Consumers : WF_vars(Resume(c)) /\ WF_vars(TimeOut(c))

Spec == Init /\ [][Next]_vars /\ Fairness

-----------------------------------------------------------------------------

\* Every variable has its type.
TypeOK == /\ q \in Seq(Values)
          /\ over \in BOOLEAN
          /\ pc \in [Producers \cup Consumers -> ProducerStates \cup ConsumerStates]
          /\ \A p \in Producers : pc[p] \in ProducerStates
          /\ \A c \in Consumers : pc[c] \in ConsumerStates
          /\ got \in [Consumers -> Values \cup {NoValue, Failed}]

\* No lost wake-up: while a value sits in the deque and a thread waits, some
\* push still has to notify, although only the push into an empty deque does.
NoLostWakeup == (q # << >> /\ Waiting # {}) => \E p \in Producers : pc[p] = "notifying"

\* abort() leaves no thread waiting, and none can start to wait after it.
AbortWakesAll == over => Waiting = {}

\* A thread that ended because pop returned false left nothing behind in the
\* deque: cb_proc never ends with a callback queued.
StoppedMeansDrained == (\E c \in Consumers : pc[c] = "stopped") => q = << >>

\* A waiting thread does not sleep on a value: it is woken, or the value goes.
ValueWakesWaiter ==
    \A c \in Consumers : (pc[c] = "pop" /\ q # << >>) ~> (pc[c] # "pop" \/ q = << >>)

\* abort() ends every wait: a thread in pop comes back, with what is left in
\* the deque or with false.
AbortEndsWait ==
    \A c \in Consumers : (over /\ pc[c] \in {"pop", "poppable"}) ~> pc[c] \in {"idle", "stopped"}

\* Each critical section that adds, removes or fails is one step of a FIFO
\* queue, and every other step changes nothing a caller can see.
Fifo == INSTANCE FifoQueue WITH queue <- q, closed <- over
ImplementsFifo == Fifo!Spec
==============================================================================
