------------------------------ MODULE TimerWheel ------------------------------
(***************************************************************************)
(* TimerWheel (utils/timer_wheel.h, timer_wheel.cpp): wheels of slots, the *)
(* slots of wheel 0 one tick wide, those of the next a turn of the one     *)
(* below.  One thread turns them and runs the callbacks of what is due;    *)
(* any thread schedules and removes.  A node is linked into at most one    *)
(* list, so that the lists are kept as the place of each node.             *)
(*                                                                         *)
(* wheels_value_ and node_val_ are only used modulo a turn of the last     *)
(* wheel, and are kept so; node_val_ is not read of a node in no list, and *)
(* is 0 there.  left counts a node's ticks down beside them.               *)
(***************************************************************************)
EXTENDS Integers, FiniteSets, FiniteSetsExt

CONSTANTS
    Nodes,       \* one per call of schedule(duration, func)
    Reused,      \* nodes the application schedules again ...
    Careless,    \* ... also while they run or are due, or after exit?
    Levels,      \* wheel_level_
    Size0,       \* WHEEL_0_SIZE
    SizeN,       \* WHEEL_N_SIZE
    Durations,   \* in ticks
    NoNode,      \* no node
    MaxRemoves   \* bound: calls of remove per node

Wheels == 0..(Levels - 1)
Size(i) == IF i = 0 THEN Size0 ELSE SizeN

\* Ticks per slot of wheel i: 1 << nshift_.
Span[i \in 0..Levels] == IF i = 0 THEN 1 ELSE Span[i - 1] * Size(i - 1)
Turn == Span[Levels]

ASSUME NodesFinite == IsFiniteSet(Nodes) /\ Reused \subseteq Nodes /\ Careless \in BOOLEAN /\ NoNode \notin Nodes
ASSUME WheelSizes == Levels \in Nat /\ Levels >= 2 /\ Size0 \in Nat \ {0, 1} /\ SizeN \in Nat \ {0, 1}
ASSUME MaxRemovesNat == MaxRemoves \in Nat
\* What the wheels can hold; schedule does not check it.
ASSUME DurationsFit == Durations \subseteq 0..((SizeN - 1) * Span[Levels - 1])

VARIABLES
    at,            \* per node, the list it is linked into
    node_state, node_val, node_duration,
    cur_idx,       \* per wheel
    wheels_value,
    nodes_count,
    over,
    pc,            \* where the timer thread stands in step()
    node,          \* the node whose callback it runs, until that is rescheduled or done
    left,          \* ticks until the node is due; -1: overdue
    destroyed,     \* nodes whose destroy() has been called
    removes,       \* calls of remove, per node
    cancel,        \* where the first of them found the node
    asserted       \* has an assertion failed?

code == <<at, node_state, node_val, node_duration, cur_idx, wheels_value, nodes_count, over>>
vars == <<code, pc, node, left, destroyed, removes, cancel, asserted>>

\* Places: in no list, in the local list of step(), in a slot <<wheel, index>>.
Unlinked == << >>
Active == <<"active">>
Slots == {p \in Wheels \X (0..(Size0 + SizeN)) : p[2] < Size(p[1])}

Scheduled == {n \in Nodes : at[n] \in Slots}

Init == /\ at = [n \in Nodes |-> Unlinked]
        /\ node_state = [n \in Nodes |-> "NONE"]
        /\ node_val = [n \in Nodes |-> 0] /\ node_duration = [n \in Nodes |-> 0]
        /\ cur_idx = [i \in Wheels |-> 0]
        /\ wheels_value = 0
        /\ nodes_count = 0
        /\ over = FALSE
        /\ pc = "sleep"
        /\ node = NoNode
        /\ left = [n \in Nodes |-> 0]
        /\ destroyed = {}
        /\ removes = [n \in Nodes |-> 0]
        /\ cancel = [n \in Nodes |-> "no"]
        /\ asserted = FALSE

Index(i, val) == (val \div Span[i]) % Size(i)

\* Fault: the slot is the one of the index, on every wheel.
SlotAtIndex(i, val) == <<i, Index(i, val)>>

\* The slot of wheel i for a value: one before, from which it is taken to the
\* wheel below when its turn begins.
SlotOf(i, val) == IF i = 0 THEN <<0, Index(0, val)>>
                  ELSE <<i, (Index(i, val) + SizeN - 1) % SizeN>>

-----------------------------------------------------------------------------
(* schedule and remove *)

\* The last wheel whose index tells the value from now.
WheelFor(val) ==
    LET differ == {i \in Wheels \ {0} : Index(i, val) # cur_idx[i]}
    IN IF differ = {} THEN 0 ELSE Max(differ)

\* curlist->push(node), with its assertion.
Link(n, d) ==
    LET val == (d + wheels_value) % Turn
    IN /\ at' = [at EXCEPT ![n] = SlotOf(WheelFor(val), val)]
       /\ node_val' = [node_val EXCEPT ![n] = val]
       /\ node_state' = [node_state EXCEPT ![n] = "READY"]
       /\ nodes_count' = nodes_count + 1
       /\ left' = [left EXCEPT ![n] = d]
       /\ asserted' = (at[n] # Unlinked)

Drop(n) ==
    /\ node_state' = [node_state EXCEPT ![n] = "NONE"]
    /\ destroyed' = destroyed \cup {n}

\* Fault: a node that is being cancelled is scheduled all the same.
ScheduleCancelled(n, d) ==
    /\ node_duration' = [node_duration EXCEPT ![n] = d]
    /\ \/ over /\ Drop(n) /\ UNCHANGED <<at, node_val, nodes_count, left, asserted>>
       \/ ~over /\ Link(n, d) /\ UNCHANGED destroyed

\* schedule(duration_msec, node)
Schedule(n, d) ==
    /\ node_duration' = [node_duration EXCEPT ![n] = d]
    /\ \/ /\ over \/ node_state[n] = "CANCELLING"
          /\ Drop(n)
          /\ UNCHANGED <<at, node_val, nodes_count, left, asserted>>
       \/ /\ ~over /\ node_state[n] = "READY"        \* "node already scheduled!"
          /\ UNCHANGED <<at, node_state, node_val, nodes_count, left, destroyed, asserted>>
       \/ /\ ~over /\ node_state[n] \in {"NONE", "RUNNING"}
          /\ Link(n, d)
          /\ UNCHANGED destroyed

IsNew(n) == node_state[n] = "NONE" /\ n \notin destroyed

AppSchedule(n, d) ==
    /\ \/ IsNew(n)
       \/ n \in Reused \ destroyed /\ (Careless \/ (node_state[n] = "READY" /\ ~over))
    /\ Schedule(n, d)
    /\ UNCHANGED <<cur_idx, wheels_value, over, pc, node, removes, cancel>>

Unlink(n) ==
    /\ at' = [at EXCEPT ![n] = Unlinked]
    /\ node_val' = [node_val EXCEPT ![n] = 0]
    /\ left' = [left EXCEPT ![n] = 0]

\* Where a call of remove finds the node.
Found(n) == CASE at[n] = Active  -> "due"
              [] node = n       -> "running"
              [] OTHER          -> "idle"

\* Fault: the state of the node is not looked at.
RemoveAnyway(n) ==
    /\ Drop(n)
    /\ Unlink(n)
    /\ nodes_count' = nodes_count - 1

RemoveNode(n) ==
    \/ /\ node_state[n] \in {"RUNNING", "CANCELLING"}
       /\ node_state' = [node_state EXCEPT ![n] = "CANCELLING"]
       /\ UNCHANGED <<at, node_val, left, nodes_count, destroyed>>
    \/ /\ node_state[n] \in {"NONE", "READY"}
       /\ Drop(n)
       /\ Unlink(n)
       /\ nodes_count' = nodes_count - 1

\* remove(timerid): the application still holds it, also when the timer is done.
Remove(n) ==
    /\ ~IsNew(n)
    /\ removes[n] < MaxRemoves
    /\ removes' = [removes EXCEPT ![n] = @ + 1]
    /\ RemoveNode(n)
    /\ cancel' = [cancel EXCEPT ![n] = IF @ = "no" THEN Found(n) ELSE @]
    /\ UNCHANGED <<node_duration, cur_idx, wheels_value, over, pc, node, asserted>>

-----------------------------------------------------------------------------
(* step, on the timer thread *)

Wraps(i) == (cur_idx[i] + 1) % Size(i) = 0

\* The wheels that turn in this tick are 0..TopWheel.
TopWheel == Max({i \in Wheels : \A j \in 0..(i - 1) : Wraps(j)})

\* reposit empties the current slots from the top: a node that comes to a current
\* slot falls on, to the first wheel below i where its slot is another one.
Fall(n, i) ==
    LET val == node_val[n]
    IN SlotOf(Max({j \in 0..(i - 1) : j = 0 \/ SlotOf(j, val) # <<j, cur_idx[j]>>}), val)

Due == {n \in Nodes : at[n] = <<0, cur_idx[0]>>}

\* One tick, under the mutex.
Tick ==
    /\ pc = "sleep" /\ ~over
    /\ at' = [n \in Nodes |->
                IF n \in Due THEN Active
                ELSE IF \E i \in 1..TopWheel : at[n] = <<i, cur_idx[i]>> THEN Fall(n, at[n][1])
                ELSE at[n]]
    /\ cur_idx' = [i \in Wheels |-> IF i <= TopWheel THEN (cur_idx[i] + 1) % Size(i) ELSE cur_idx[i]]
    /\ wheels_value' = (wheels_value + 1) % Turn
    /\ node_state' = [n \in Nodes |-> IF n \in Due THEN "RUNNING" ELSE node_state[n]]
    /\ nodes_count' = nodes_count - Cardinality(Due)
    /\ left' = [n \in Nodes |-> IF n \in Scheduled \ Due THEN Max({left[n] - 1, -1}) ELSE left[n]]
    /\ pc' = "pop"
    /\ UNCHANGED <<node_val, node_duration, over, node, destroyed, removes, cancel, asserted>>

\* The next node of the local list; its callback begins.
Fire(n) ==
    /\ pc = "pop" /\ at[n] = Active
    /\ Unlink(n)
    /\ pc' = "callback" /\ node' = n
    /\ UNCHANGED <<node_state, node_duration, cur_idx, wheels_value, nodes_count, over,
                   destroyed, removes, cancel, asserted>>

\* Fault: what a callback throws is not caught, and the thread ends.
CallbackUncaught ==
    /\ pc = "callback"
    /\ pc' \in {"reschedule", "joined"} /\ UNCHANGED <<node, destroyed>>
    /\ UNCHANGED <<code, left, removes, cancel, asserted>>

\* The callback returns or throws, with or without *reschedule set.
CallbackDone ==
    /\ pc = "callback"
    /\ \/ pc' = "reschedule" /\ UNCHANGED <<node, destroyed>>
       \/ pc' = "pop" /\ node' = NoNode /\ destroyed' = destroyed \cup {node}
    /\ UNCHANGED <<code, left, removes, cancel, asserted>>

Reschedule ==
    /\ pc = "reschedule"
    /\ pc' = "pop" /\ node' = NoNode
    /\ Schedule(node, node_duration[node])
    /\ UNCHANGED <<cur_idx, wheels_value, over, removes, cancel>>

TickDone ==
    /\ pc = "pop"
    /\ \A n \in Nodes : at[n] # Active
    /\ pc' = "sleep"
    /\ UNCHANGED <<code, node, left, destroyed, removes, cancel, asserted>>

-----------------------------------------------------------------------------
(* exit and the destructor *)

Exit ==
    /\ ~over
    /\ over' = TRUE
    /\ UNCHANGED <<at, node_state, node_val, node_duration, cur_idx, wheels_value, nodes_count, pc,
                   node, left, destroyed, removes, cancel, asserted>>

ThreadEnds ==
    /\ pc = "sleep" /\ over
    /\ pc' = "joined"
    /\ UNCHANGED <<code, node, left, destroyed, removes, cancel, asserted>>

\* ~TimerWheel: the nodes still scheduled are destroyed.
Destruct ==
    /\ pc = "joined"
    /\ pc' = "gone"
    /\ destroyed' = destroyed \cup Scheduled
    /\ at' = [n \in Nodes |-> Unlinked]
    /\ node_val' = [n \in Nodes |-> 0] /\ left' = [n \in Nodes |-> 0]
    /\ cur_idx' = [i \in Wheels |-> 0]
    /\ UNCHANGED <<node_state, node_duration, wheels_value, nodes_count, over, node, removes, cancel,
                   asserted>>

-----------------------------------------------------------------------------

TimerThread == Tick \/ (\E n \in Nodes : Fire(n)) \/ CallbackDone \/ Reschedule \/ TickDone \/ ThreadEnds

Application == \/ \E n \in Nodes, d \in Durations : AppSchedule(n, d)
               \/ \E n \in Nodes : Remove(n)
               \/ Exit
               \/ Destruct

\* A failed assertion ends the program.
Next == ~asserted /\ ((pc # "gone" /\ Application) \/ TimerThread)

\* The timer thread runs and callbacks return.
Fairness == WF_vars(TimerThread)

Spec == Init /\ [][Next]_vars /\ Fairness

-----------------------------------------------------------------------------
(* Properties *)

\* Through all cascades a node is taken in the very tick its duration is over,
\* for every duration up to SizeN - 1 slots of the last wheel.
OnTime == \A n \in Nodes : /\ at[n] = Active => left[n] = 0
                           /\ n \in Scheduled => left[n] >= 0

\* After a call of remove the callback begins at most once more, and only if the
\* call found the node due, in the list of the running step().
CancelHolds ==
    [][\A n \in Nodes : Fire(n) => cancel[n] \in {"no", "due"}]_vars

\* A node is destroyed only when it is in no list and its callback is over: its
\* memory may be gone.
DestroyedIsUnused ==
    \A n \in destroyed : at[n] = Unlinked /\ node # n

\* What is scheduled is taken or removed, as long as the wheel is not stopped.
Taken == \A n \in Nodes : n \in Scheduled ~> (n \notin Scheduled \/ over)

\* The assertion of NodesList::push.
PushesUnlinked == ~asserted
==============================================================================
