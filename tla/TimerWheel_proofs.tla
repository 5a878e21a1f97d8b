-------------------------- MODULE TimerWheel_proofs --------------------------
(***************************************************************************)
(* The timer wheel for any nodes, numbers and sizes of wheels and          *)
(* durations: removal and destruction, as long as a node is not scheduled  *)
(* again while it is in use, and the tick a timer is taken in.             *)
(***************************************************************************)
EXTENDS TimerWheel, WellFoundedInduction, TLAPS

InUse == {"RUNNING", "CANCELLING"}

\* What the state of a node says about its place, and the other way round.
StateOf(n) ==
    /\ at[n] = Active => node_state[n] \in InUse /\ node # n
    /\ node = n => node_state[n] \in InUse /\ at[n] = Unlinked
    /\ node_state[n] \in InUse /\ at[n] # Active /\ node # n => n \in destroyed
    /\ pc # "gone" /\ node_state[n] = "READY" => at[n] \notin {Unlinked, Active}
    /\ node_state[n] = "NONE" => at[n] = Unlinked
    /\ pc \in {"sleep", "joined"} => at[n] # Active

UseOf(n) == n \in destroyed => at[n] = Unlinked /\ node # n

\* A removed node is destroyed, or will be when its callback is over.
CancelOf(n) ==
    /\ cancel[n] = "idle" => n \in destroyed
    /\ cancel[n] = "running" => n \in destroyed \/ (node = n /\ node_state[n] = "CANCELLING")

\* The types these parts depend on.
Shape ==
    /\ DOMAIN at = Nodes /\ DOMAIN node_state = Nodes /\ DOMAIN cancel = Nodes
    /\ \A n \in Nodes : node_state[n] \in {"NONE", "READY", "RUNNING", "CANCELLING"}
    /\ \A n \in Nodes : cancel[n] \in {"no", "due", "running", "idle"}
    /\ destroyed \subseteq Nodes
    /\ pc \in {"sleep", "pop", "callback", "reschedule", "joined", "gone"}
    /\ pc \in {"callback", "reschedule"} => node \in Nodes
    /\ pc \notin {"callback", "reschedule"} => node = NoNode

WheelInv == Shape /\ \A n \in Nodes : StateOf(n) /\ UseOf(n) /\ CancelOf(n)

LEMMA Places ==
    /\ Unlinked # Active
    /\ \A i, val : SlotOf(i, val) \notin {Unlinked, Active}
    /\ \A i, s : <<i, s>> \notin {Unlinked, Active}
BY DEF Unlinked, Active, SlotOf

LEMMA InitWheel == Init => WheelInv
BY NodesFinite, Places DEF Init, WheelInv, Shape, StateOf, UseOf, CancelOf, InUse

LEMMA ScheduleNewWheel ==
    ASSUME ~Careless, WheelInv, pc # "gone", NEW n \in Nodes, NEW d \in Durations, AppSchedule(n, d)
    PROVE  WheelInv'
<1> USE NodesFinite, Places DEF WheelInv, Shape, StateOf, UseOf, CancelOf, InUse, AppSchedule, Schedule,
                                IsNew, Link, Drop
<1>1. Shape' OBVIOUS
<1>2. ASSUME NEW m \in Nodes PROVE (StateOf(m) /\ UseOf(m) /\ CancelOf(m))'
  <2>1. CASE m = n BY <2>1
  <2>2. CASE m # n BY <2>2
  <2> QED BY <2>1, <2>2
<1> QED BY <1>1, <1>2

LEMMA RemoveWheel ==
    ASSUME WheelInv, pc # "gone", NEW n \in Nodes, Remove(n)
    PROVE  WheelInv'
<1> USE NodesFinite, Places DEF WheelInv, Shape, StateOf, UseOf, CancelOf, InUse, Remove, RemoveNode,
                                IsNew, Unlink, Drop, Found
<1>1. Shape' OBVIOUS
<1>2. ASSUME NEW m \in Nodes PROVE (StateOf(m) /\ UseOf(m) /\ CancelOf(m))'
  <2>1. CASE m = n BY <2>1
  <2>2. CASE m # n BY <2>2
  <2> QED BY <2>1, <2>2
<1> QED BY <1>1, <1>2

LEMMA TickWheel == WheelInv /\ Tick => WheelInv'
<1> SUFFICES ASSUME WheelInv, Tick PROVE WheelInv'
  OBVIOUS
<1> USE NodesFinite, Places DEF WheelInv, Shape, StateOf, UseOf, CancelOf, InUse, Tick
<1>1. ASSUME NEW n \in Nodes
      PROVE  \/ /\ at[n] \notin {Unlinked, Active} /\ at'[n] = Active /\ node_state'[n] = "RUNNING"
             \/ /\ at[n] \notin {Unlinked, Active} /\ at'[n] \notin {Unlinked, Active}
                /\ node_state'[n] = node_state[n]
             \/ at'[n] = at[n] /\ node_state'[n] = node_state[n]
  BY ZenonT(30) DEF Fall, Due
<1>2. DOMAIN at' = Nodes /\ DOMAIN node_state' = Nodes OBVIOUS
<1>3. Shape' BY <1>1, <1>2
<1>4. ASSUME NEW n \in Nodes PROVE (StateOf(n) /\ UseOf(n) /\ CancelOf(n))' BY <1>1
<1> QED BY <1>3, <1>4

LEMMA FireWheel == ASSUME WheelInv, NEW n \in Nodes, Fire(n) PROVE WheelInv'
<1> USE NodesFinite, Places DEF WheelInv, Shape, StateOf, UseOf, CancelOf, InUse, Fire, Unlink
<1>1. Shape' OBVIOUS
<1>2. ASSUME NEW m \in Nodes PROVE (StateOf(m) /\ UseOf(m) /\ CancelOf(m))'
  <2>1. CASE m = n BY <2>1
  <2>2. CASE m # n BY <2>2
  <2> QED BY <2>1, <2>2
<1> QED BY <1>1, <1>2

LEMMA CallbackWheel == WheelInv /\ CallbackDone => WheelInv'
BY NodesFinite, Places DEF WheelInv, Shape, StateOf, UseOf, CancelOf, InUse, CallbackDone, code

LEMMA RescheduleWheel == WheelInv /\ Reschedule => WheelInv'
<1> SUFFICES ASSUME WheelInv, Reschedule PROVE WheelInv'
  OBVIOUS
<1> USE NodesFinite, Places DEF WheelInv, Shape, StateOf, UseOf, CancelOf, InUse, Reschedule, Schedule,
                                Link, Drop
<1>1. Shape' OBVIOUS
<1>2. ASSUME NEW m \in Nodes PROVE (StateOf(m) /\ UseOf(m) /\ CancelOf(m))'
  <2>1. CASE m = node BY <2>1
  <2>2. CASE m # node BY <2>2
  <2> QED BY <2>1, <2>2
<1> QED BY <1>1, <1>2

LEMMA EndsWheel == WheelInv /\ (TickDone \/ Exit \/ ThreadEnds) => WheelInv'
BY NodesFinite, Places DEF WheelInv, Shape, StateOf, UseOf, CancelOf, InUse, TickDone, Exit, ThreadEnds, code

LEMMA DestructWheel == WheelInv /\ Destruct => WheelInv'
BY NodesFinite, Places DEF WheelInv, Shape, StateOf, UseOf, CancelOf, InUse, Destruct, Scheduled

LEMMA NextWheel == ~Careless /\ WheelInv /\ [Next]_vars => WheelInv'
<1> SUFFICES ASSUME ~Careless, WheelInv, [Next]_vars PROVE WheelInv'
  OBVIOUS
<1>1. CASE pc # "gone" /\ Application
  BY <1>1, ScheduleNewWheel, RemoveWheel, EndsWheel, DestructWheel DEF Application
<1>2. CASE TimerThread
  BY <1>2, TickWheel, FireWheel, CallbackWheel, RescheduleWheel, EndsWheel DEF TimerThread
<1>3. CASE UNCHANGED vars
  BY <1>3 DEF vars, code, WheelInv, Shape, StateOf, UseOf, CancelOf
<1> QED BY <1>1, <1>2, <1>3 DEF Next

-----------------------------------------------------------------------------

\* The invariant of the whole execution.
THEOREM WheelInvariant == ~Careless /\ Spec => []WheelInv
<1>1. Init => WheelInv BY InitWheel
<1>2. ~Careless /\ WheelInv /\ [Next]_vars => WheelInv' BY NextWheel
<1>3. CASE ~Careless BY <1>1, <1>2, <1>3, PTL DEF Spec
<1>4. CASE Careless BY <1>4
<1> QED BY <1>3, <1>4

\* destroy() is called only for a node that is in no list and whose callback is
\* over (step, remove and schedule of timer_wheel.cpp), unless the application
\* schedules a node that is in use.
THEOREM DestroyedSafe == ~Careless /\ Spec => []DestroyedIsUnused
<1>1. WheelInv => DestroyedIsUnused BY DEF WheelInv, Shape, UseOf, DestroyedIsUnused
<1> QED BY <1>1, WheelInvariant, PTL

\* remove of timer_wheel.cpp: a callback that begins after the call was due in
\* the running step() when remove found its node.
THEOREM CancelSafe == ~Careless /\ Spec => CancelHolds
<1>1. WheelInv => [\A n \in Nodes : Fire(n) => cancel[n] \in {"no", "due"}]_vars
  BY NodesFinite, Places DEF WheelInv, Shape, StateOf, UseOf, CancelOf, InUse, Fire
<1> QED BY <1>1, WheelInvariant, PTL DEF CancelHolds

-----------------------------------------------------------------------------
(* The least element of a set of natural numbers, the greatest of a bounded one. *)
LEMMA LeastOf ==
    ASSUME NEW T \in SUBSET Nat, T # {}
    PROVE  \E m \in T : \A k \in T : m <= k
<1>1. PICK m \in T : \A k \in T : <<k, m>> \notin OpToRel(<, Nat)
  BY WFMin, NatLessThanWellFounded, Zenon
<1>2. ASSUME NEW k \in T PROVE m <= k
  <2>1. ~(k < m)
    BY <1>1, <1>2, Zenon DEF OpToRel
  <2> QED
    BY <2>1
<1> QED
  BY <1>2

LEMMA GreatestOf ==
    ASSUME NEW T \in SUBSET Nat, T # {}, NEW n \in Nat, \A k \in T : k <= n
    PROVE  Max(T) \in T /\ \A k \in T : k <= Max(T)
<1> DEFINE U == {m \in Nat : \A k \in T : k <= m}
<1>1. PICK m \in U : \A u \in U : m <= u
  <2>1. n \in U OBVIOUS
  <2> QED BY <2>1, LeastOf
<1>2. m \in T
  <2>1. SUFFICES ASSUME m \notin T PROVE FALSE OBVIOUS
  <2>2. PICK t \in T : TRUE OBVIOUS
  <2>3. t <= m /\ t # m /\ m \in Nat /\ t \in Nat BY <1>1, <2>1
  <2>4. m - 1 \in Nat BY <2>3
  <2>5. \A k \in T : k <= m - 1 BY <1>1, <2>1, <2>3
  <2>6. m - 1 \in U BY <2>4, <2>5
  <2> QED BY <1>1, <2>3, <2>6
<1>3. \E x \in T : \A y \in T : x >= y
  BY <1>1, <1>2
<1> DEFINE M == CHOOSE x \in T : \A y \in T : x >= y
<1>4. M \in T /\ \A y \in T : M >= y
  BY <1>3, Zenon
<1>5. Max(T) = M
  BY DEF Max
<1> HIDE DEF M
<1> QED BY <1>4, <1>5

LEMMA DivMod ==
    ASSUME NEW x \in Nat, NEW z \in Nat \ {0}
    PROVE  /\ x \div z \in Nat /\ x % z \in Nat /\ x % z < z /\ x = z * (x \div z) + (x % z)
<1>1. x % z \in Nat /\ x % z < z OBVIOUS
<1>2. x \div z \in Int OBVIOUS
<1>3. x = z * (x \div z) + (x % z) OBVIOUS
<1>4. x \div z >= 0 OBVIOUS
<1> QED BY <1>1, <1>2, <1>3, <1>4

LEMMA SameMod == ASSUME NEW x \in Nat, NEW y \in Nat, x <= y, NEW z \in Nat \ {0}, x % z = y % z, y < x + z
  PROVE x = y
<1>1. PICK a \in Nat, r \in Nat : x = z * a + r /\ r < z /\ r = x % z
  BY DivMod
<1>2. PICK c \in Nat : y = z * c + r
  <2>1. y \div z \in Nat /\ y = z * (y \div z) + (y % z) /\ y % z = r
    BY <1>1, DivMod
  <2> QED
    BY <2>1
<1>3. z * (c - a) < z /\ z * (c - a) >= 0
  BY <1>1, <1>2
<1>4. c - a = 0
  BY <1>3
<1> QED BY <1>1, <1>2, <1>4

-----------------------------------------------------------------------------
(* The spans of the wheels' slots *)

LEMMA SizeType == \A i : Size(i) \in Nat /\ Size(i) >= 2
BY WheelSizes DEF Size

\* Span is what its definition says.
SpanStep(g, n) == [i \in 0..n |-> IF i = 0 THEN 1 ELSE g[i - 1] * Size(i - 1)]

LEMMA SpanExists == \E g : g = SpanStep(g, Levels)
<1>1. Levels \in Nat
  BY WheelSizes
<1> DEFINE T == {n \in 0..Levels : ~ \E g : g \in [0..n -> Nat \ {0}] /\ g = SpanStep(g, n)}
<1>2. SUFFICES ASSUME T # {} PROVE FALSE
  <2>1. Levels \in 0..Levels
    BY <1>1
  <2> QED BY <2>1
<1>3. PICK m \in T : \A k \in T : m <= k
  <2>1. T \in SUBSET Nat
    BY <1>1
  <2> HIDE DEF T
  <2> QED BY <1>2, <2>1, LeastOf
<1>4. m \in 0..Levels /\ ~ \E g : g \in [0..m -> Nat \ {0}] /\ g = SpanStep(g, m)
  BY <1>3
<1>5. m # 0
  <2>1. SUFFICES ASSUME m = 0 PROVE FALSE
    OBVIOUS
  <2> DEFINE g == [i \in 0..0 |-> 1]
  <2>2. g \in [0..m -> Nat \ {0}] /\ g = SpanStep(g, m)
    BY <2>1 DEF SpanStep
  <2> QED BY <1>4, <2>2
<1>6. m - 1 \in 0..Levels /\ ~(m <= m - 1) /\ m \in Nat /\ m >= 1
  BY <1>1, <1>4, <1>5
<1>7. PICK g : g \in [0..(m - 1) -> Nat \ {0}] /\ g = SpanStep(g, m - 1)
  BY <1>3, <1>6
<1> DEFINE h == [i \in 0..m |-> IF i = m THEN g[m - 1] * Size(m - 1) ELSE g[i]]
<1>8. g[m - 1] * Size(m - 1) \in Nat \ {0}
  <2>1. g[m - 1] \in Nat \ {0} /\ Size(m - 1) \in Nat \ {0}
    BY <1>6, <1>7, SizeType
  <2> HIDE DEF h
  <2> QED BY <2>1
<1>9. h \in [0..m -> Nat \ {0}]
  <2>1. ASSUME NEW i \in 0..m PROVE h[i] \in Nat \ {0}
    BY <1>6, <1>7, <1>8
  <2> QED BY <2>1
<1>10. ASSUME NEW i \in 0..m PROVE h[i] = IF i = 0 THEN 1 ELSE h[i - 1] * Size(i - 1)
  <2>1. CASE i = m
    BY <1>6, <2>1
  <2>2. CASE i # m
    <3>1. i \in 0..(m - 1) /\ (i # 0 => i - 1 \in 0..m /\ i - 1 # m)
      BY <1>6, <2>2
    <3>2. g[i] = IF i = 0 THEN 1 ELSE g[i - 1] * Size(i - 1)
      BY <1>7, <3>1 DEF SpanStep
    <3> QED BY <2>2, <3>1, <3>2
  <2> QED BY <2>1, <2>2
<1>11. h = SpanStep(h, m)
  BY <1>9, <1>10 DEF SpanStep
<1> QED BY <1>4, <1>9, <1>11

LEMMA SpanIs == Span = SpanStep(Span, Levels)
<1>1. Span = CHOOSE g : g = SpanStep(g, Levels)
  BY DEF Span, SpanStep
<1> QED BY <1>1, SpanExists, Zenon

LEMMA SpanType ==
    /\ Span[0] = 1
    /\ \A i \in Wheels : Span[i + 1] = Span[i] * Size(i)
    /\ \A i \in 0..Levels : Span[i] \in Nat \ {0}
<1>1. Levels \in Nat /\ Levels >= 2
  BY WheelSizes
<1>2. Span[0] = 1
  BY <1>1, SpanIs DEF SpanStep
<1>3. ASSUME NEW i \in Wheels PROVE Span[i + 1] = Span[i] * Size(i)
  <2>1. i + 1 \in 0..Levels /\ i + 1 # 0 /\ (i + 1) - 1 = i
    BY <1>1 DEF Wheels
  <2> QED BY <2>1, SpanIs DEF SpanStep
<1>4. ASSUME NEW i \in 0..Levels PROVE Span[i] \in Nat \ {0}
  <2> DEFINE T == {n \in 0..Levels : Span[n] \notin Nat \ {0}}
  <2>1. SUFFICES ASSUME T # {} PROVE FALSE
    OBVIOUS
  <2>2. PICK m \in T : \A k \in T : m <= k
    <3>1. T \in SUBSET Nat
      BY <1>1
    <3> HIDE DEF T
    <3> QED BY <2>1, <3>1, LeastOf
  <2>3. m # 0 /\ m \in 0..Levels
    BY <1>2, <2>2
  <2>4. m - 1 \in Wheels /\ m - 1 \in 0..Levels /\ ~(m <= m - 1) /\ (m - 1) + 1 = m
    BY <1>1, <2>3 DEF Wheels
  <2>5. Span[m - 1] \in Nat \ {0}
    BY <2>2, <2>4
  <2>6. Span[m] = Span[m - 1] * Size(m - 1) /\ Size(m - 1) \in Nat \ {0}
    BY <1>3, <2>4, SizeType
  <2>7. \A a, z \in Nat \ {0} : a * z \in Nat \ {0}
    OBVIOUS
  <2>8. Span[m] \in Nat \ {0}
    BY <2>5, <2>6, <2>7
  <2> QED BY <2>2, <2>8
<1> QED BY <1>2, <1>3, <1>4

-----------------------------------------------------------------------------
(* Values and their digits: the index of wheel i is the last digit of the  *)
(* turns of the wheels below.                                              *)

Turns(i, x) == x \div Span[i]

LEMMA DivUnique ==
    ASSUME NEW z \in Nat \ {0}, NEW a \in Nat, NEW r \in Nat, r < z, NEW x \in Nat, x = z * a + r
    PROVE  x \div z = a /\ x % z = r
OBVIOUS

LEMMA DivDiv ==
    ASSUME NEW x \in Nat, NEW s \in Nat \ {0}, NEW z \in Nat \ {0}
    PROVE  x \div (s * z) = (x \div s) \div z
OBVIOUS

LEMMA DivMonotonic ==
    ASSUME NEW x \in Nat, NEW y \in Nat, x <= y, NEW z \in Nat \ {0}
    PROVE  x \div z <= y \div z
OBVIOUS

LEMMA DivStep ==
    ASSUME NEW q \in Nat, NEW z \in Nat \ {0}
    PROVE  (q + 1) \div z = IF q % z = z - 1 THEN (q \div z) + 1 ELSE q \div z
OBVIOUS

LEMMA ModStep ==
    ASSUME NEW q \in Nat, NEW z \in Nat \ {0, 1}
    PROVE  (q + 1) % z = IF q % z = z - 1 THEN 0 ELSE (q % z) + 1
<1>1. PICK a \in Nat, r \in Nat : q = z * a + r /\ r < z /\ r = q % z
  BY DivMod
<1>2. CASE r = z - 1
  <2>1. q + 1 = z * (a + 1) + 0 /\ a + 1 \in Nat /\ 0 < z
    BY <1>1, <1>2
  <2>2. \A x \in Nat : x = z * (a + 1) + 0 => x % z = 0
    BY <2>1, DivUnique
  <2>3. (q + 1) % z = 0
    BY <2>1, <2>2
  <2> QED BY <1>1, <1>2, <2>3
<1>3. CASE r # z - 1
  <2>1. PICK p \in Nat, s \in Nat : p = q + 1 /\ s = r + 1
    BY <1>1
  <2>2. p = z * a + s /\ s < z
    <3>1. q = z * a + r /\ r < z /\ r # z - 1
      BY <1>1, <1>3
    <3>2. s < z
      BY <2>1, <3>1
    <3> QED BY <2>1, <3>1, <3>2
  <2>3. p % z = s
    BY <2>2, DivUnique
  <2> QED BY <1>1, <1>3, <2>1, <2>3
<1> QED BY <1>2, <1>3

\* The slot before an index, around the wheel.
LEMMA SlotBefore ==
    ASSUME NEW z \in Nat \ {0, 1}, NEW r \in Nat, r < z
    PROVE  (r + z - 1) % z = IF r = 0 THEN z - 1 ELSE r - 1
<1>1. CASE r = 0
  <2>1. r + z - 1 = z * 0 + (z - 1) /\ z - 1 \in Nat /\ z - 1 < z
    BY <1>1
  <2>2. (r + z - 1) % z = z - 1
    BY <2>1, DivUnique
  <2> QED BY <1>1, <2>2
<1>2. CASE r # 0
  <2>1. r + z - 1 = z * 1 + (r - 1) /\ r - 1 \in Nat /\ r - 1 < z /\ r + z - 1 \in Nat
    BY <1>2
  <2>2. (r + z - 1) % z = r - 1
    BY <2>1, DivUnique
  <2> QED BY <1>2, <2>2
<1> QED BY <1>1, <1>2

LEMMA TurnsType ==
    ASSUME NEW i \in 0..Levels, NEW x \in Nat
    PROVE  Turns(i, x) \in Nat /\ (i = 0 => Turns(i, x) = x)
<1>1. Span[i] \in Nat \ {0} /\ Span[0] = 1
  BY SpanType
<1>2. x \div 1 = x
  OBVIOUS
<1> QED BY <1>1, <1>2, DivMod DEF Turns

LEMMA Digits ==
    ASSUME NEW i \in Wheels, NEW x \in Nat
    PROVE  /\ i \in 0..Levels /\ i + 1 \in 0..Levels
           /\ Turns(i + 1, x) = Turns(i, x) \div Size(i)
           /\ Index(i, x) = Turns(i, x) % Size(i)
           /\ Index(i, x) \in Nat /\ Index(i, x) < Size(i)
           /\ Turns(i, x) = Size(i) * Turns(i + 1, x) + Index(i, x)
<1>1. i \in 0..Levels /\ i + 1 \in 0..Levels
  BY WheelSizes DEF Wheels
<1>2. Span[i] \in Nat \ {0} /\ Size(i) \in Nat \ {0} /\ Span[i + 1] = Span[i] * Size(i)
  BY <1>1, SpanType, SizeType
<1>3. Turns(i + 1, x) = Turns(i, x) \div Size(i)
  BY <1>2, DivDiv DEF Turns
<1>4. Index(i, x) = Turns(i, x) % Size(i)
  BY DEF Index, Turns
<1> QED BY ZenonT(30), <1>1, <1>2, <1>3, <1>4, TurnsType, DivMod

LEMMA TurnsMonotonic ==
    ASSUME NEW i \in 0..Levels, NEW x \in Nat, NEW y \in Nat, x <= y
    PROVE  Turns(i, x) <= Turns(i, y)
BY SpanType, DivMonotonic DEF Turns

\* The same digits and the same turns above them: the same turns below.
LEMMA SameTurns ==
    ASSUME NEW x \in Nat, NEW y \in Nat, NEW lo \in 0..Levels, NEW hi \in 0..Levels, lo <= hi,
           Turns(hi, x) = Turns(hi, y),
           \A k \in Wheels : lo <= k /\ k < hi => Index(k, x) = Index(k, y)
    PROVE  Turns(lo, x) = Turns(lo, y)
<1>1. Levels \in Nat
  BY WheelSizes
<1> DEFINE T == {k \in 0..Levels : lo <= k /\ k <= hi /\ Turns(k, x) = Turns(k, y)}
<1>2. PICK m \in T : \A k \in T : m <= k
  <2>1. T \in SUBSET Nat /\ hi \in T
    BY <1>1
  <2> HIDE DEF T
  <2> QED BY <2>1, LeastOf
<1>3. CASE m = lo
  BY <1>2, <1>3
<1>4. CASE m # lo
  <2>1. m - 1 \in Wheels /\ m - 1 \in 0..Levels /\ lo <= m - 1 /\ m - 1 < hi /\ ~(m <= m - 1) /\ (m - 1) + 1 = m
    BY <1>1, <1>2, <1>4 DEF Wheels
  <2>2. Index(m - 1, x) = Index(m - 1, y)
    BY <2>1
  <2>3. Turns(m - 1, x) = Size(m - 1) * Turns(m, x) + Index(m - 1, x)
    BY <2>1, Digits
  <2>4. Turns(m - 1, y) = Size(m - 1) * Turns(m, y) + Index(m - 1, y)
    BY <2>1, Digits
  <2>5. Turns(m - 1, x) = Turns(m - 1, y)
    BY <1>2, <2>2, <2>3, <2>4
  <2>6. m - 1 \in T
    BY <2>1, <2>5
  <2> QED BY <1>2, <2>1, <2>6
<1> QED BY <1>3, <1>4

\* A turn of the last wheel is a number of whole turns of every wheel.
LEMMA WholeTurns ==
    /\ Turn \in Nat \ {0}
    /\ \A i \in 0..Levels : Turn = Span[i] * Turns(i, Turn) /\ Turns(i, Turn) \in Nat
    /\ \A i \in Wheels : Turns(i, Turn) = Size(i) * Turns(i + 1, Turn)
<1>1. Levels \in Nat /\ Levels \in 0..Levels
  BY WheelSizes
<1>2. Turn \in Nat \ {0}
  BY <1>1, SpanType DEF Turn
<1>3. ASSUME NEW i \in Wheels, Turn = Span[i + 1] * Turns(i + 1, Turn)
      PROVE  Turn = Span[i] * Turns(i, Turn) /\ Turns(i, Turn) = Size(i) * Turns(i + 1, Turn)
  <2>1. i \in 0..Levels /\ i + 1 \in 0..Levels /\ Span[i + 1] = Span[i] * Size(i)
    BY Digits, SpanType, <1>2
  <2>2. PICK s \in Nat \ {0}, z \in Nat \ {0}, u \in Nat :
          s = Span[i] /\ z = Size(i) /\ u = Turns(i + 1, Turn)
    <3>1. Span[i] \in Nat \ {0} /\ Size(i) \in Nat \ {0} /\ Turns(i + 1, Turn) \in Nat
      BY <1>2, <2>1, SpanType, SizeType, TurnsType
    <3> QED BY <3>1
  <2>3. PICK a \in Nat, t \in Nat : a = z * u /\ t = Turn /\ 0 < s
    BY <1>2, <2>2
  <2>4. t = s * a + 0
    BY <1>3, <2>1, <2>2, <2>3
  <2>5. t \div s = a
    BY <2>2, <2>3, <2>4, DivUnique
  <2> QED BY <2>2, <2>3, <2>4, <2>5 DEF Turns
<1>4. Turn = Span[Levels] * Turns(Levels, Turn)
  <2>1. \A t \in Nat \ {0} : t = t * (t \div t)
    BY DivUnique
  <2> QED BY <1>2, <2>1 DEF Turns, Turn
<1>5. ASSUME NEW i \in 0..Levels PROVE Turn = Span[i] * Turns(i, Turn)
  <2> DEFINE T == {k \in 0..Levels : Turn # Span[k] * Turns(k, Turn)}
  <2>1. SUFFICES ASSUME T # {} PROVE FALSE
    OBVIOUS
  <2>2. PICK m \in T : \A k \in T : k <= m
    <3>1. T \in SUBSET Nat /\ \A k \in T : k <= Levels
      BY <1>1
    <3> HIDE DEF T
    <3>2. Max(T) \in T /\ \A k \in T : k <= Max(T)
      BY <1>1, <2>1, <3>1, GreatestOf
    <3> QED BY <3>2
  <2>3. m \in Wheels /\ ~(m + 1 <= m) /\ m + 1 \in 0..Levels
    BY <1>1, <1>4, <2>2 DEF Wheels
  <2>4. Turn = Span[m + 1] * Turns(m + 1, Turn)
    BY <2>2, <2>3
  <2> QED BY <1>3, <2>2, <2>3, <2>4
<1> QED
  <2>1. \A i \in Wheels : i + 1 \in 0..Levels
    BY <1>1 DEF Wheels
  <2> QED BY <1>2, <1>3, <1>5, <2>1, TurnsType

\* What whole turns of the last wheel add.
LEMMA TurnsShift ==
    ASSUME NEW i \in 0..Levels, NEW x \in Nat, NEW n \in Nat
    PROVE  Turns(i, x + n * Turn) = Turns(i, x) + n * Turns(i, Turn)
<1>1. PICK s \in Nat \ {0}, u \in Nat, t \in Nat :
        s = Span[i] /\ u = Turns(i, Turn) /\ t = Turn /\ t = s * u
  BY SpanType, WholeTurns
<1>2. PICK a \in Nat, r \in Nat : x = s * a + r /\ r < s /\ a = x \div s
  BY DivMod
<1>3. PICK y \in Nat, c \in Nat : y = x + n * t /\ c = a + n * u
  OBVIOUS
<1>4. y = s * c + r
  <2>1. x = s * a + r /\ y = x + n * t /\ c = a + n * u /\ t = s * u
    BY <1>1, <1>2, <1>3
  <2>2. n * t = s * (n * u)
    BY <2>1
  <2>3. s * c = s * a + s * (n * u)
    BY <2>1
  <2>4. PICK nt \in Nat, sc \in Nat, sa \in Nat : nt = n * t /\ sc = s * c /\ sa = s * a
    OBVIOUS
  <2>5. x = sa + r /\ y = x + nt /\ sc = sa + nt
    BY <2>1, <2>2, <2>3, <2>4
  <2> QED BY <2>4, <2>5
<1>5. y \div s = c
  BY <1>2, <1>4, DivUnique
<1> QED BY <1>1, <1>2, <1>3, <1>5 DEF Turns

LEMMA IndexShift ==
    ASSUME NEW i \in Wheels, NEW x \in Nat, NEW n \in Nat
    PROVE  Index(i, x + n * Turn) = Index(i, x)
<1>1. i \in 0..Levels /\ i + 1 \in 0..Levels /\ Turn \in Nat
  BY Digits, WholeTurns
<1>2. PICK z \in Nat \ {0}, u \in Nat, w \in Nat, y \in Nat :
        /\ z = Size(i) /\ u = Turns(i, Turn) /\ w = Turns(i + 1, Turn) /\ u = z * w
        /\ y = x + n * Turn
  BY <1>1, SizeType, WholeTurns
<1>3. PICK a \in Nat, b1 \in Nat, r \in Nat :
        a = Turns(i, x) /\ b1 = Turns(i + 1, x) /\ r = Index(i, x) /\ a = z * b1 + r
  <2>1. /\ Turns(i, x) \in Nat /\ Turns(i + 1, x) \in Nat /\ Index(i, x) \in Nat
        /\ Turns(i, x) = z * Turns(i + 1, x) + Index(i, x)
    BY <1>1, <1>2, Digits, TurnsType
  <2> QED BY <2>1
<1>4. PICK c \in Nat, d \in Nat, q \in Nat :
        c = Turns(i, y) /\ d = Turns(i + 1, y) /\ q = Index(i, y) /\ c = z * d + q
  <2>1. /\ Turns(i, y) \in Nat /\ Turns(i + 1, y) \in Nat /\ Index(i, y) \in Nat
        /\ Turns(i, y) = z * Turns(i + 1, y) + Index(i, y)
    BY <1>1, <1>2, Digits, TurnsType
  <2> QED BY <2>1
<1>5. c = a + n * u /\ d = b1 + n * w
  <2>1. /\ Turns(i, x + n * Turn) = Turns(i, x) + n * Turns(i, Turn)
        /\ Turns(i + 1, x + n * Turn) = Turns(i + 1, x) + n * Turns(i + 1, Turn)
    BY <1>1, TurnsShift
  <2> QED BY <1>2, <1>3, <1>4, <2>1
<1>6. z * d = z * b1 + n * u
  BY <1>2, <1>5
<1>7. q = r
  BY <1>3, <1>4, <1>5, <1>6
<1> QED BY <1>2, <1>3, <1>4, <1>7

LEMMA IndexOfRest ==
    ASSUME NEW i \in Wheels, NEW x \in Nat
    PROVE  x % Turn \in Nat /\ x % Turn < Turn /\ Index(i, x % Turn) = Index(i, x)
<1>1. PICK t \in Nat \ {0} : t = Turn
  BY WholeTurns
<1>2. PICK a \in Nat, r \in Nat : x = t * a + r /\ r < t /\ r = x % t
  BY DivMod
<1>3. x = r + a * t
  BY <1>2
<1> QED BY <1>1, <1>2, <1>3, IndexShift

\* Do all wheels below i turn over in the tick after v?
Full(i, v) == \A j \in Wheels : j < i => Index(j, v) = Size(j) - 1

\* A tick adds one to the turns of a wheel when all below turn over.
LEMMA Carry ==
    ASSUME NEW i \in 0..Levels, NEW v \in Nat
    PROVE  Turns(i, v + 1) = IF Full(i, v) THEN Turns(i, v) + 1 ELSE Turns(i, v)
<1>1. Levels \in Nat
  BY WheelSizes
<1> DEFINE Goes(k) == Turns(k, v + 1) = IF Full(k, v) THEN Turns(k, v) + 1 ELSE Turns(k, v)
           T == {k \in 0..Levels : ~Goes(k)}
<1>2. SUFFICES ASSUME T # {} PROVE FALSE
  OBVIOUS
<1>3. PICK m \in T : \A k \in T : m <= k
  <2>1. T \in SUBSET Nat
    BY <1>1
  <2> HIDE DEF T
  <2> QED BY <1>2, <2>1, LeastOf
<1>4. CASE m = 0
  <2>1. Full(0, v)
    BY DEF Full, Wheels
  <2>2. Turns(0, v + 1) = v + 1 /\ Turns(0, v) = v
    BY <1>3, <1>4, TurnsType
  <2> QED BY <1>3, <1>4, <2>1, <2>2
<1>5. CASE m # 0
  <2>1. PICK k \in Wheels : m = k + 1 /\ k \in 0..Levels /\ ~(m <= k)
    <3>1. m - 1 \in Wheels /\ m = (m - 1) + 1 /\ m - 1 \in 0..Levels /\ ~(m <= m - 1)
      BY <1>1, <1>3, <1>5 DEF Wheels
    <3> QED BY <3>1
  <2>2. Turns(k, v + 1) = IF Full(k, v) THEN Turns(k, v) + 1 ELSE Turns(k, v)
    BY <1>3, <2>1
  <2>3. Full(m, v) <=> Full(k, v) /\ Index(k, v) = Size(k) - 1
    <3>1. \A j \in Wheels : j < m <=> j < k \/ j = k
      BY <2>1, <1>1 DEF Wheels
    <3> QED BY <2>1, <3>1 DEF Full
  <2>4. PICK q \in Nat, z \in Nat \ {0} : q = Turns(k, v) /\ z = Size(k)
    BY <2>1, TurnsType, SizeType
  <2>5. /\ Turns(m, v + 1) = Turns(k, v + 1) \div z /\ Turns(m, v) = q \div z
        /\ Index(k, v) = q % z
    BY <2>1, <2>4, Digits
  <2>6. CASE Full(k, v)
    <3>1. Turns(k, v + 1) = q + 1
      BY <2>2, <2>4, <2>6
    <3>2. (q + 1) \div z = IF q % z = z - 1 THEN (q \div z) + 1 ELSE q \div z
      BY DivStep
    <3> QED BY <1>3, <2>3, <2>4, <2>5, <2>6, <3>1, <3>2
  <2>7. CASE ~Full(k, v)
    BY <1>3, <2>2, <2>3, <2>4, <2>5, <2>7
  <2> QED BY <2>6, <2>7
<1> QED BY <1>4, <1>5

-----------------------------------------------------------------------------
(* Where a value is at home                                                *)

Top == Levels - 1

\* Seen at v, the value x belongs to wheel i: wheel i has to turn before x is reached,
\* and the wheels above do not.
Near(i, v, x) ==
    /\ v <= x
    /\ i # 0 => Turns(i, v) < Turns(i, x)
    /\ i # Top => Turns(i + 1, x) = Turns(i + 1, v)
    /\ i = Top => Turns(i, x) <= Turns(i, v) + SizeN - 1

LEMMA TopType == Top \in Wheels /\ Top # 0 /\ Top \in Nat /\ Size(Top) = SizeN /\ SizeN \in Nat /\ SizeN >= 2
BY WheelSizes DEF Top, Wheels, Size

\* schedule() takes the wheel of the value, when it is not too far away.
LEMMA Schedules ==
    ASSUME NEW v \in Nat, NEW d \in Nat, d <= (SizeN - 1) * Span[Top], NEW i \in Wheels,
           i # 0 => Index(i, v + d) # Index(i, v),
           \A k \in Wheels : i < k => Index(k, v + d) = Index(k, v)
    PROVE  Near(i, v, v + d)
<1>1. PICK x \in Nat : x = v + d /\ v <= x
  OBVIOUS
<1>2. Levels \in Nat /\ Top \in 0..Levels /\ i \in Nat /\ i \in 0..Levels /\ i <= Top
  BY WheelSizes, TopType DEF Wheels, Top
<1>3. Turns(Top, x) \in Nat /\ Turns(Top, v) \in Nat /\ Turns(i, x) \in Nat /\ Turns(i, v) \in Nat
  BY <1>2, TurnsType
<1>4. Turns(Top, v) <= Turns(Top, x) /\ Turns(Top, x) <= Turns(Top, v) + SizeN - 1
  <2>1. PICK s \in Nat \ {0}, n \in Nat : s = Span[Top] /\ n = SizeN - 1
    BY <1>2, SpanType, TopType
  <2>2. PICK a \in Nat, r \in Nat : v = s * a + r /\ r < s /\ a = v \div s
    BY DivMod
  <2>3. PICK y \in Nat : y = v + n * s /\ x <= y
    BY <1>1, <2>1
  <2>4. y \div s = a + n
    <3>1. PICK an \in Nat : an = a + n
      OBVIOUS
    <3>2. s * an = s * a + n * s
      BY <3>1
    <3>3. y = s * an + r
      <4>1. PICK p \in Nat, q \in Nat, u \in Nat : p = s * a /\ q = n * s /\ u = s * an
        OBVIOUS
      <4>2. u = p + q /\ v = p + r /\ y = v + q
        BY <2>2, <2>3, <3>2, <4>1
      <4> QED BY <4>1, <4>2
    <3>4. r < s
      BY <2>2
    <3>5. y \div s = an
      BY SMTT(30), <3>3, <3>4, DivUnique
    <3> QED BY <3>1, <3>5
  <2>5. x \div s <= y \div s
    BY <2>3, DivMonotonic
  <2> QED BY <1>1, <1>2, <2>1, <2>2, <2>4, <2>5, TurnsMonotonic, TopType DEF Turns
<1>5. i # 0 => Turns(i, v) < Turns(i, x)
  <2>1. SUFFICES ASSUME i # 0 PROVE Turns(i, v) < Turns(i, x)
    OBVIOUS
  <2>2. Index(i, x) # Index(i, v) /\ Index(i, x) = Turns(i, x) % Size(i) /\ Index(i, v) = Turns(i, v) % Size(i)
    BY <1>1, <2>1, Digits
  <2>3. Turns(i, x) # Turns(i, v)
    BY <2>2
  <2> QED BY <1>1, <1>2, <1>3, <2>3, TurnsMonotonic
<1>6. CASE i = Top
  BY <1>1, <1>4, <1>5, <1>6 DEF Near
<1>7. CASE i # Top
  <2>1. Index(Top, x) = Index(Top, v)
    BY <1>1, <1>2, <1>7, TopType
  <2>2. Index(Top, x) = Turns(Top, x) % SizeN /\ Index(Top, v) = Turns(Top, v) % SizeN
    BY <1>1, TopType, Digits
  <2>3. SizeN \in Nat \ {0} /\ Turns(Top, x) < Turns(Top, v) + SizeN
    BY <1>3, <1>4, TopType
  <2>4. Turns(Top, v) = Turns(Top, x)
    BY <1>3, <1>4, <2>1, <2>2, <2>3, SameMod
  <2>5. i + 1 \in 0..Levels /\ i + 1 <= Top /\ \A k \in Wheels : i + 1 <= k => i < k
    BY <1>2, <1>7, TopType DEF Wheels
  <2>6. Turns(i + 1, x) = Turns(i + 1, v)
    BY <1>1, <1>2, <2>4, <2>5, SameTurns
  <2> QED BY <1>1, <1>5, <1>7, <2>6 DEF Near
<1> QED BY <1>6, <1>7

\* The turns between two values.
LEMMA Between ==
    ASSUME NEW v \in Nat, NEW x \in Nat, v + 1 <= x, NEW i \in 0..Levels, Turns(i, x) = Turns(i, v)
    PROVE  Turns(i, v + 1) = Turns(i, x)
<1>1. Turns(i, v) <= Turns(i, v + 1) /\ Turns(i, v + 1) <= Turns(i, x)
  BY TurnsMonotonic
<1> QED BY <1>1, TurnsType

LEMMA NearLater ==
    ASSUME NEW v \in Nat, NEW x \in Nat, NEW i \in Wheels, Near(i, v, x), i = 0 => v # x
    PROVE  v + 1 <= x
<1>1. CASE i = 0
  BY <1>1 DEF Near
<1>2. CASE i # 0
  <2>1. Turns(i, v) \in Nat /\ Turns(i, v) < Turns(i, x)
    BY <1>2, Digits, TurnsType DEF Near
  <2>2. v # x
    BY <2>1
  <2> QED BY <2>2 DEF Near
<1> QED BY <1>1, <1>2

\* A tick leaves a value where it is, unless it turns the wheel to it.
LEMMA Stays ==
    ASSUME NEW v \in Nat, NEW x \in Nat, NEW i \in Wheels, Near(i, v, x), i = 0 => v # x,
           i # 0 /\ Full(i, v) => Turns(i, x) # Turns(i, v) + 1
    PROVE  Near(i, v + 1, x)
<1>1. v + 1 <= x /\ i \in 0..Levels /\ i + 1 \in 0..Levels /\ v + 1 \in Nat
  BY NearLater, Digits
<1>2. PICK a \in Nat, c \in Nat, e \in Nat : a = Turns(i, v) /\ c = Turns(i, x) /\ e = Turns(i, v + 1)
  <2>1. Turns(i, v) \in Nat /\ Turns(i, x) \in Nat /\ Turns(i, v + 1) \in Nat
    BY <1>1, TurnsType
  <2> QED BY <2>1
<1>3. e = IF Full(i, v) THEN a + 1 ELSE a
  BY <1>1, <1>2, Carry
<1>4. i # 0 => e < c
  BY <1>2, <1>3 DEF Near
<1>5. i # Top => Turns(i + 1, v + 1) = Turns(i + 1, x)
  BY <1>1, Between DEF Near
<1>6. i = Top => c <= e + SizeN - 1
  BY <1>2, <1>3, TopType DEF Near
<1> QED BY <1>1, <1>2, <1>4, <1>5, <1>6 DEF Near

\* When the wheel turns to a value, that is in the turn that begins.
LEMMA TurnsTo ==
    ASSUME NEW v \in Nat, NEW x \in Nat, NEW i \in Wheels, i # 0, Near(i, v, x),
           Index(i, x) = (Turns(i, v) + 1) % Size(i)
    PROVE  Turns(i, x) = Turns(i, v) + 1
<1>1. i \in 0..Levels /\ i + 1 \in 0..Levels /\ (i = Top => Size(i) = SizeN)
  BY Digits, TopType
<1>2. PICK a \in Nat, c \in Nat, z \in Nat \ {0}, p \in Nat, q \in Nat :
        /\ a = Turns(i, v) /\ c = Turns(i, x) /\ z = Size(i)
        /\ p = Index(i, v) /\ q = Index(i, x)
  <2>1. /\ Turns(i, v) \in Nat /\ Turns(i, x) \in Nat /\ Size(i) \in Nat \ {0}
        /\ Index(i, v) \in Nat /\ Index(i, x) \in Nat
    BY <1>1, TurnsType, SizeType, Digits
  <2> QED BY <2>1
<1>3. c % z = (a + 1) % z /\ a + 1 <= c
  BY <1>2, Digits DEF Near
<1>4. c < (a + 1) + z
  <2>1. CASE i = Top
    BY <1>1, <1>2, <2>1 DEF Near
  <2>2. CASE i # Top
    <3>1. PICK u \in Nat : u = Turns(i + 1, v) /\ u = Turns(i + 1, x)
      BY <1>1, <2>2, TurnsType DEF Near
    <3>2. a = z * u + p /\ c = z * u + q /\ p < z /\ q < z
      BY <1>2, <3>1, Digits
    <3>3. PICK zu \in Nat : zu = z * u
      OBVIOUS
    <3>4. a = zu + p /\ c = zu + q /\ q < z
      BY <3>2, <3>3
    <3> QED BY <3>4
  <2> QED BY <2>1, <2>2
<1>5. a + 1 = c
  <2>1. PICK g \in Nat : g = a + 1
    OBVIOUS
  <2>2. g = c
    BY <1>3, <1>4, <2>1, SameMod
  <2> QED BY <2>1, <2>2
<1> QED BY <1>2, <1>5

\* It falls to the first wheel below where its digit is not that of w.
LEMMA Lands ==
    ASSUME NEW w \in Nat, NEW x \in Nat, w <= x, NEW i \in Wheels, NEW j \in Wheels, j < i,
           Turns(i, x) = Turns(i, w),
           \A k \in Wheels : j < k /\ k < i => Index(k, x) = Index(k, w),
           j # 0 => Index(j, x) # Index(j, w)
    PROVE  Near(j, w, x)
<1>1. i \in 0..Levels /\ j \in 0..Levels /\ j + 1 \in 0..Levels /\ j + 1 <= i /\ j # Top /\ i \in Nat /\ j \in Nat
  BY WheelSizes DEF Wheels, Top
<1>2. Turns(j + 1, x) = Turns(j + 1, w)
  <2>1. \A k \in Wheels : j + 1 <= k => j < k
    BY <1>1 DEF Wheels
  <2> QED BY <1>1, <2>1, SameTurns
<1>3. j # 0 => Turns(j, w) < Turns(j, x)
  <2>1. SUFFICES ASSUME j # 0 PROVE Turns(j, w) < Turns(j, x)
    OBVIOUS
  <2>2. Index(j, x) = Turns(j, x) % Size(j) /\ Index(j, w) = Turns(j, w) % Size(j)
    BY Digits
  <2>3. Turns(j, x) # Turns(j, w) /\ Turns(j, w) <= Turns(j, x) /\ Turns(j, x) \in Nat /\ Turns(j, w) \in Nat
    BY <1>1, <2>1, <2>2, TurnsMonotonic, TurnsType
  <2> QED BY <2>3
<1> QED BY <1>1, <1>2, <1>3 DEF Near

\* wheels_value_ may start again from 0.
LEMMA NearShift ==
    ASSUME NEW w \in Nat, NEW x \in Nat, NEW i \in Wheels, Near(i, w + Turn, x + Turn)
    PROVE  Near(i, w, x)
<1>1. Turn \in Nat /\ i \in 0..Levels /\ i + 1 \in 0..Levels /\ 1 * Turn = Turn
  BY WholeTurns, Digits
<1>2. \A k \in 0..Levels, y \in Nat : Turns(k, y + Turn) = Turns(k, y) + Turns(k, Turn)
  <2>1. ASSUME NEW k \in 0..Levels, NEW y \in Nat PROVE Turns(k, y + Turn) = Turns(k, y) + Turns(k, Turn)
    <3>1. Turns(k, y + 1 * Turn) = Turns(k, y) + 1 * Turns(k, Turn) /\ Turns(k, Turn) \in Nat
      BY <1>1, TurnsShift, WholeTurns
    <3> QED BY <1>1, <3>1
  <2> QED BY <2>1
<1>3. /\ Turns(i, w) \in Nat /\ Turns(i, x) \in Nat /\ Turns(i, Turn) \in Nat
      /\ Turns(i + 1, w) \in Nat /\ Turns(i + 1, x) \in Nat /\ Turns(i + 1, Turn) \in Nat
  BY <1>1, TurnsType
<1>4. /\ Turns(i, w + Turn) = Turns(i, w) + Turns(i, Turn) /\ Turns(i, x + Turn) = Turns(i, x) + Turns(i, Turn)
      /\ Turns(i + 1, w + Turn) = Turns(i + 1, w) + Turns(i + 1, Turn)
      /\ Turns(i + 1, x + Turn) = Turns(i + 1, x) + Turns(i + 1, Turn)
  BY <1>1, <1>2
<1>5. w <= x
  BY <1>1 DEF Near
<1>6. i # 0 => Turns(i, w) < Turns(i, x)
  BY <1>3, <1>4 DEF Near
<1>7. i # Top => Turns(i + 1, x) = Turns(i + 1, w)
  BY <1>3, <1>4 DEF Near
<1>8. i = Top => Turns(i, x) <= Turns(i, w) + SizeN - 1
  BY <1>3, <1>4, TopType DEF Near
<1> QED BY <1>5, <1>6, <1>7, <1>8 DEF Near

-----------------------------------------------------------------------------
(* The nodes are at home *)

Farthest == (SizeN - 1) * Span[Top]

Homed(n) ==
    /\ at[n] \in Slots
    /\ left[n] \in Nat
    /\ node_val[n] = (wheels_value + left[n]) % Turn
    /\ \E i \in Wheels : at[n] = SlotOf(i, node_val[n]) /\ Near(i, wheels_value, wheels_value + left[n])

ClockInv ==
    /\ wheels_value \in Nat /\ wheels_value < Turn
    /\ pc # "gone" => cur_idx = [i \in Wheels |-> Index(i, wheels_value)]
    /\ pc \in {"callback", "reschedule"} => node \in Nodes
    /\ DOMAIN at = Nodes /\ DOMAIN node_val = Nodes /\ DOMAIN left = Nodes
    /\ node_duration \in [Nodes -> 0..Farthest]
    /\ \A n \in Nodes : at[n] = Unlinked \/ (at[n] = Active /\ left[n] = 0) \/ Homed(n)

LEMMA SlotFacts ==
    ASSUME NEW i \in Wheels, NEW val \in Nat
    PROVE  /\ SlotOf(i, val) \in Slots /\ SlotOf(i, val)[1] = i
           /\ SlotOf(0, val) = <<0, Index(0, val)>>
           /\ \A v \in Nat : i # 0 =>
                (SlotOf(i, val) = <<i, Index(i, v)>> <=> Index(i, val) = (Turns(i, v) + 1) % Size(i))
<1>1. /\ Size0 \in Nat \ {0, 1} /\ SizeN \in Nat \ {0, 1} /\ Levels \in Nat /\ i \in Nat
      /\ Size(i) = IF i = 0 THEN Size0 ELSE SizeN
  BY WheelSizes DEF Size, Wheels
<1>2. Index(i, val) \in Nat /\ Index(i, val) < Size(i)
  BY Digits
<1>3. PICK s : SlotOf(i, val) = <<i, s>> /\ s = IF i = 0 THEN Index(0, val) ELSE (Index(i, val) + SizeN - 1) % SizeN
  BY DEF SlotOf
<1>4. i # 0 => s = IF Index(i, val) = 0 THEN SizeN - 1 ELSE Index(i, val) - 1
  BY <1>1, <1>2, <1>3, SlotBefore
<1>5. s \in Nat /\ s < Size(i)
  BY <1>1, <1>2, <1>3, <1>4
<1>6. <<i, s>> \in Wheels \X (0..(Size0 + SizeN))
  BY <1>1, <1>5
<1>7. SlotOf(i, val) \in Slots
  BY <1>3, <1>5, <1>6 DEF Slots
<1>8. ASSUME NEW v \in Nat, i # 0
      PROVE  SlotOf(i, val) = <<i, Index(i, v)>> <=> Index(i, val) = (Turns(i, v) + 1) % Size(i)
  <2>1. PICK p \in Nat, q \in Nat, a \in Nat :
          p = Index(i, v) /\ q = Index(i, val) /\ a = Turns(i, v) /\ p = a % SizeN /\ p < SizeN /\ q < SizeN
    <3>1. Index(i, v) \in Nat /\ Index(i, val) \in Nat /\ Turns(i, v) \in Nat
      BY Digits, TurnsType
    <3> QED BY <1>1, <1>8, <3>1, Digits
  <2>2. (a + 1) % SizeN = IF p = SizeN - 1 THEN 0 ELSE p + 1
    BY ZenonT(30), <1>1, <2>1, ModStep
  <2>3. SlotOf(i, val) = <<i, Index(i, v)>> <=> s = p
    BY <1>3, <2>1
  <2>4. s = IF q = 0 THEN SizeN - 1 ELSE q - 1
    BY <1>4, <1>8, <2>1
  <2>5. s = p <=> q = IF p = SizeN - 1 THEN 0 ELSE p + 1
    BY <1>1, <2>1, <2>4
  <2> QED BY <1>1, <1>8, <2>1, <2>2, <2>3, <2>5
<1> QED BY <1>3, <1>7, <1>8 DEF SlotOf

LEMMA SlotsAreSlots == Unlinked \notin Slots /\ Active \notin Slots /\ Unlinked # Active
<1>1. \A p \in Slots : \E i \in Wheels : \E s \in 0..(Size0 + SizeN) : p = <<i, s>>
  BY DEF Slots
<1> QED BY <1>1 DEF Unlinked, Active

\* A node that is linked is at home.
LEMMA LinkHomes ==
    ASSUME ClockInv, pc # "gone", NEW n \in Nodes, NEW d \in 0..Farthest, Link(n, d), wheels_value' = wheels_value
    PROVE  Homed(n)'
<1>1. PICK v \in Nat, val \in Nat : v = wheels_value /\ val = (d + v) % Turn /\ v < Turn
  BY WholeTurns DEF ClockInv
<1>2. d \in Nat /\ d <= Farthest /\ v + d \in Nat /\ v + d = d + v
  BY <1>1, TopType, SpanType, WheelSizes DEF Farthest
<1>3. \A k \in Wheels : Index(k, val) = Index(k, v + d)
  BY <1>1, <1>2, IndexOfRest
<1>4. \A k \in Wheels : cur_idx[k] = Index(k, v)
  BY <1>1 DEF ClockInv
<1> DEFINE D == {i \in Wheels \ {0} : Index(i, val) # cur_idx[i]}
<1>5. PICK i \in Wheels :
        /\ WheelFor(val) = i
        /\ i # 0 => Index(i, v + d) # Index(i, v)
        /\ \A k \in Wheels : i < k => Index(k, v + d) = Index(k, v)
  <2>1. WheelFor(val) = IF D = {} THEN 0 ELSE Max(D)
    BY DEF WheelFor
  <2>2. CASE D = {}
    <3>1. 0 \in Wheels /\ \A k \in Wheels : 0 < k => k # 0
      BY WheelSizes DEF Wheels
    <3> QED BY <1>3, <1>4, <2>1, <2>2, <3>1
  <2>3. CASE D # {}
    <3>1. D \in SUBSET Nat /\ Levels \in Nat /\ \A k \in D : k <= Levels
      BY WheelSizes DEF Wheels
    <3> HIDE DEF D
    <3>2. Max(D) \in D /\ \A k \in D : k <= Max(D)
      BY <2>3, <3>1, GreatestOf
    <3>3. Max(D) \in Wheels /\ Max(D) \in Nat /\ Index(Max(D), val) # cur_idx[Max(D)]
      BY <3>1, <3>2 DEF D
    <3>4. \A k \in Wheels : Max(D) < k => Index(k, val) = cur_idx[k]
      <4>1. ASSUME NEW k \in Wheels, Max(D) < k PROVE Index(k, val) = cur_idx[k]
        <5>1. k \in Nat /\ 0 <= Max(D)
          BY <3>3, <4>1, WheelSizes DEF Wheels
        <5>2. ~(k <= Max(D)) /\ k # 0
          BY <3>3, <4>1, <5>1
        <5>3. k \notin D
          BY <3>2, <5>2
        <5> QED BY <5>2, <5>3 DEF D
      <4> QED BY <4>1
    <3> QED BY <1>3, <1>4, <2>1, <2>3, <3>3, <3>4
  <2> QED BY <2>2, <2>3
<1>6. Near(i, v, v + d)
  BY <1>2, <1>5, Schedules DEF Farthest
<1>7. /\ at'[n] = SlotOf(i, val) /\ node_val'[n] = val /\ left'[n] = d
  BY <1>1, <1>5 DEF Link, ClockInv
<1>8. at'[n] \in Slots
  BY <1>7, SlotFacts
<1> QED BY <1>1, <1>2, <1>6, <1>7, <1>8 DEF Homed

\* The wheels that turn are those below which all are full.
LEMMA TopWheelIs ==
    ASSUME ClockInv, pc # "gone"
    PROVE  TopWheel \in Wheels /\ \A i \in Wheels : i <= TopWheel <=> Full(i, wheels_value)
<1> DEFINE S == {i \in Wheels : \A j \in 0..(i - 1) : Wraps(j)}
<1>1. wheels_value \in Nat /\ \A k \in Wheels : cur_idx[k] = Index(k, wheels_value)
  BY DEF ClockInv
<1>2. Levels \in Nat /\ Levels >= 2 /\ S \in SUBSET Nat /\ \A k \in S : k <= Levels
  BY WheelSizes DEF Wheels
<1>3. ASSUME NEW j \in Wheels PROVE Wraps(j) <=> Index(j, wheels_value) = Size(j) - 1
  <2>1. PICK r \in Nat, z \in Nat \ {0, 1} : r = Index(j, wheels_value) /\ z = Size(j) /\ r < z
    BY <1>1, Digits, SizeType
  <2>2. r % z = r
    BY <2>1
  <2>3. (r + 1) % z = IF r = z - 1 THEN 0 ELSE r + 1
    BY <2>2, ModStep
  <2> QED BY <1>1, <2>1, <2>3 DEF Wraps
<1>4. ASSUME NEW i \in Wheels PROVE i \in S <=> Full(i, wheels_value)
  <2>1. \A j : j \in 0..(i - 1) <=> j \in Wheels /\ j < i
    BY <1>2 DEF Wheels
  <2> QED BY <1>3, <2>1 DEF Full
<1>5. TopWheel \in S /\ \A k \in S : k <= TopWheel
  <2>1. 0 \in S
    BY <1>2 DEF Wheels
  <2>2. TopWheel = Max(S)
    BY DEF TopWheel
  <2> HIDE DEF S
  <2> QED BY <1>2, <2>1, <2>2, GreatestOf
<1>6. TopWheel \in Wheels /\ TopWheel \in Nat
  BY <1>2, <1>5
<1>7. ASSUME NEW i \in Wheels PROVE i <= TopWheel <=> Full(i, wheels_value)
  <2>1. i <= TopWheel => Full(i, wheels_value)
    <3>1. SUFFICES ASSUME i <= TopWheel PROVE Full(i, wheels_value)
      OBVIOUS
    <3>2. Full(TopWheel, wheels_value)
      BY <1>4, <1>5, <1>6
    <3>3. \A j \in Wheels : j < i => j < TopWheel
      BY <1>6, <3>1, <1>2 DEF Wheels
    <3> QED BY <3>2, <3>3 DEF Full
  <2>2. Full(i, wheels_value) => i <= TopWheel
    BY <1>4, <1>5
  <2> QED BY <2>1, <2>2
<1> QED BY <1>6, <1>7

\* After Index wraps, one tick later.
LEMMA NextIndex ==
    ASSUME NEW i \in Wheels, NEW v \in Nat
    PROVE  Index(i, v + 1) = IF Full(i, v) THEN (Index(i, v) + 1) % Size(i) ELSE Index(i, v)
<1>1. PICK q \in Nat, z \in Nat \ {0, 1} : q = Turns(i, v) /\ z = Size(i) /\ Index(i, v) = q % z
  <2>1. Turns(i, v) \in Nat /\ Size(i) \in Nat \ {0, 1} /\ Index(i, v) = Turns(i, v) % Size(i)
    BY Digits, TurnsType, SizeType
  <2> QED BY <2>1
<1>2. Turns(i, v + 1) = IF Full(i, v) THEN q + 1 ELSE q
  BY <1>1, Digits, Carry
<1>3. Index(i, v + 1) = Turns(i, v + 1) % z
  BY <1>1, Digits
<1>4. (q + 1) % z = ((q % z) + 1) % z
  <2>1. PICK r \in Nat : r = q % z /\ r < z /\ r % z = r
    BY SMTT(30), DivMod, <1>1
  <2>2. (q + 1) % z = (IF r = z - 1 THEN 0 ELSE r + 1) /\ (r + 1) % z = (IF r = z - 1 THEN 0 ELSE r + 1)
    BY <2>1, ModStep
  <2> QED BY <2>1, <2>2
<1> QED BY <1>1, <1>2, <1>3, <1>4

\* The node falls to where its value is at home in the tick that begins.
LEMMA FallHomes ==
    ASSUME NEW n \in Nodes, NEW v \in Nat, NEW x \in Nat, NEW i \in Wheels, i # 0,
           node_val[n] = x % Turn, Near(i, v, x), Full(i, v),
           \A k \in Wheels : cur_idx[k] = Index(k, v),
           SlotOf(i, node_val[n]) = <<i, cur_idx[i]>>
    PROVE  \E j \in Wheels : Fall(n, i) = SlotOf(j, node_val[n]) /\ Near(j, v + 1, x)
<1>1. PICK val \in Nat : val = node_val[n] /\ val < Turn /\ \A k \in Wheels : Index(k, val) = Index(k, x)
  <2>1. x % Turn \in Nat /\ x % Turn < Turn /\ \A k \in Wheels : Index(k, x % Turn) = Index(k, x)
    BY IndexOfRest, WholeTurns, TopType
  <2> QED BY <2>1
<1>2. Turns(i, x) = Turns(i, v) + 1
  <2>1. Index(i, x) = (Turns(i, v) + 1) % Size(i)
    BY <1>1, SlotFacts
  <2> QED BY <2>1, TurnsTo
<1>3. Turns(i, x) = Turns(i, v + 1) /\ i \in 0..Levels
  BY <1>2, Carry, Digits
<1>4. v + 1 <= x
  BY NearLater
<1> DEFINE S == {j \in 0..(i - 1) : j = 0 \/ SlotOf(j, val) # <<j, cur_idx[j]>>}
<1>5. Levels \in Nat /\ i \in Nat /\ i >= 1 /\ 0..(i - 1) \subseteq Wheels /\ 0..(i - 1) \subseteq Nat
  BY WheelSizes DEF Wheels
<1>6. PICK j \in Wheels : j < i /\ Fall(n, i) = SlotOf(j, val) /\ j \in S /\ \A k \in S : k <= j
  <2>1. S \in SUBSET Nat /\ 0 \in S /\ \A k \in S : k <= i
    BY <1>5
  <2>2. Fall(n, i) = SlotOf(Max(S), val)
    BY <1>1 DEF Fall
  <2>3. \A k \in S : k \in Wheels /\ k < i
    BY <1>5
  <2> HIDE DEF S
  <2>4. Max(S) \in S /\ \A k \in S : k <= Max(S)
    BY <1>5, <2>1, GreatestOf
  <2> QED BY <2>2, <2>3, <2>4
\* A wheel below i turns over, so that its index is 0 after the tick.
<1>7. ASSUME NEW k \in Wheels, k # 0, k < i
      PROVE  SlotOf(k, val) = <<k, cur_idx[k]>> <=> Index(k, x) = Index(k, v + 1)
  <2>1. SlotOf(k, val) = <<k, Index(k, v)>> <=> Index(k, val) = (Turns(k, v) + 1) % Size(k)
    BY <1>1, <1>7, SlotFacts
  <2>2. Full(k, v)
    <3>1. \A m \in Wheels : m < k => m < i
      BY <1>5, <1>7 DEF Wheels
    <3> QED BY <3>1 DEF Full
  <2>3. Turns(k, v + 1) = Turns(k, v) + 1 /\ Index(k, v + 1) = Turns(k, v + 1) % Size(k)
    BY <2>2, Carry, Digits
  <2> QED BY <1>1, <2>1, <2>3
<1>8. \A k \in Wheels : j < k /\ k < i => Index(k, x) = Index(k, v + 1)
  <2>1. ASSUME NEW k \in Wheels, j < k, k < i PROVE Index(k, x) = Index(k, v + 1)
    <3>1. j \in Nat /\ k \in Nat /\ k \in 0..(i - 1) /\ k # 0 /\ ~(k <= j)
      BY <1>5, <2>1 DEF Wheels
    <3>2. k \notin S
      BY <1>6, <3>1
    <3> QED BY <1>7, <2>1, <3>1, <3>2
  <2> QED BY <2>1
<1>9. j # 0 => Index(j, x) # Index(j, v + 1)
  BY <1>6, <1>7
<1>10. Near(j, v + 1, x)
  BY <1>3, <1>4, <1>6, <1>8, <1>9, Lands
<1> QED BY <1>1, <1>6, <1>10

\* A node that is not due is at home after the tick.
LEMMA TickHomes ==
    ASSUME ClockInv, pc # "gone", Tick, NEW n \in Nodes, Homed(n), n \notin Due
    PROVE  Homed(n)'
<1>1. PICK v \in Nat, l \in Nat, x \in Nat, i \in Wheels :
        /\ v = wheels_value /\ l = left[n] /\ x = v + l /\ v < Turn
        /\ node_val[n] = x % Turn
        /\ at[n] = SlotOf(i, node_val[n]) /\ Near(i, v, x)
  <2>1. wheels_value \in Nat /\ left[n] \in Nat /\ wheels_value < Turn
    BY DEF ClockInv, Homed
  <2> QED BY <2>1 DEF Homed
<1>2. PICK val \in Nat : val = node_val[n] /\ val < Turn /\ \A k \in Wheels : Index(k, val) = Index(k, x)
  <2>1. x % Turn \in Nat /\ x % Turn < Turn /\ \A k \in Wheels : Index(k, x % Turn) = Index(k, x)
    BY IndexOfRest, WholeTurns, TopType
  <2> QED BY <1>1, <2>1
<1>3. \A k \in Wheels : cur_idx[k] = Index(k, v)
  BY <1>1 DEF ClockInv
<1>4. i = 0 => v # x
  <2>1. SUFFICES ASSUME i = 0, v = x PROVE FALSE
    OBVIOUS
  <2>2. at[n] = <<0, cur_idx[0]>>
    BY <1>1, <1>2, <1>3, <2>1, SlotFacts
  <2> QED BY <2>2 DEF Due
<1>5. v + 1 <= x /\ l >= 1
  BY <1>1, <1>4, NearLater
<1>6. TopWheel \in Wheels /\ \A k \in Wheels : k <= TopWheel <=> Full(k, v)
  BY <1>1, TopWheelIs
<1>7. i \in Nat /\ TopWheel \in Nat /\ at[n][1] = i /\ \A k : k \in 1..TopWheel => k \in Wheels
  BY <1>1, <1>2, <1>6, SlotFacts, WheelSizes DEF Wheels
<1>8. \E j \in Wheels : at'[n] = SlotOf(j, val) /\ Near(j, v + 1, x)
  <2>1. CASE \E k \in 1..TopWheel : at[n] = <<k, cur_idx[k]>>
    <3>1. i \in 1..TopWheel /\ at[n] = <<i, cur_idx[i]>> /\ i # 0
      BY <1>7, <2>1
    <3>2. at'[n] = Fall(n, i)
      BY <1>7, <2>1 DEF Tick
    <3>3. Full(i, v)
      BY <1>6, <3>1
    <3>4. \E j \in Wheels : Fall(n, i) = SlotOf(j, node_val[n]) /\ Near(j, v + 1, x)
      <4>1. node_val[n] = x % Turn /\ Near(i, v, x) /\ SlotOf(i, node_val[n]) = <<i, cur_idx[i]>>
        BY <1>1, <3>1
      <4> QED BY <1>3, <3>1, <3>3, <4>1, FallHomes
    <3> QED BY <1>2, <3>2, <3>4
  <2>2. CASE ~ \E k \in 1..TopWheel : at[n] = <<k, cur_idx[k]>>
    <3>1. at'[n] = at[n]
      BY <2>2 DEF Tick
    <3>2. i # 0 /\ Full(i, v) => Turns(i, x) # Turns(i, v) + 1
      <4>1. SUFFICES ASSUME i # 0, Full(i, v), Turns(i, x) = Turns(i, v) + 1 PROVE FALSE
        OBVIOUS
      <4>2. Index(i, val) = (Turns(i, v) + 1) % Size(i)
        BY <1>1, <1>2, <4>1, Digits
      <4>3. at[n] = <<i, cur_idx[i]>>
        BY <1>1, <1>2, <1>3, <4>1, <4>2, SlotFacts
      <4>4. i \in 1..TopWheel
        BY <1>6, <1>7, <4>1
      <4> QED BY <2>2, <4>3, <4>4
    <3>3. Near(i, v + 1, x)
      BY <1>1, <1>4, <3>2, Stays
    <3> QED BY <1>1, <1>2, <3>1, <3>3
  <2> QED BY <2>1, <2>2
<1>9. PICK j \in Wheels : at'[n] = SlotOf(j, val) /\ Near(j, v + 1, x)
  BY <1>8
<1>10. at'[n] \in Slots
  BY <1>2, <1>9, SlotFacts
<1>11. node_val'[n] = val
  BY <1>2 DEF Tick
<1>12. left'[n] = l - 1 /\ l - 1 \in Nat
  <2>1. left'[n] = Max({l - 1, -1})
    BY <1>1, Zenon DEF Tick, Scheduled, Homed
  <2>2. Max({l - 1, -1}) = l - 1
    <3>1. PICK m \in Nat : m = l - 1
      BY <1>5
    <3>2. \A y \in {m, -1} : m >= y
      BY <3>1
    <3>3. \A y \in {m, -1} : (\A u \in {m, -1} : y >= u) => y = m
      BY <3>1
    <3> QED BY <3>1, <3>2, <3>3 DEF Max
  <2> QED BY <1>5, <2>1, <2>2
<1>13. PICK t \in Nat \ {0} : t = Turn
  BY WholeTurns
<1>14. wheels_value' = (v + 1) % t
  BY <1>1, <1>13 DEF Tick
<1>15. CASE v + 1 < t
  <2>1. wheels_value' = v + 1
    BY <1>14, <1>15
  <2>2. wheels_value' + left'[n] = x
    BY <1>1, <1>12, <2>1
  <2> QED BY <1>1, <1>2, <1>9, <1>10, <1>11, <1>12, <2>1, <2>2 DEF Homed
<1>16. CASE v + 1 = t
  <2>1. wheels_value' = 0
    <3>1. t % t = 0
      OBVIOUS
    <3> QED BY <1>14, <1>16, <3>1
  <2>2. PICK y \in Nat : y = l - 1 /\ x = y + t /\ v + 1 = 0 + t
    BY <1>1, <1>12, <1>16
  <2>3. Near(j, 0, y)
    BY <1>9, <1>13, <2>2, NearShift
  <2>4. x % t = y % t
    <3>1. PICK a \in Nat, r \in Nat : y = t * a + r /\ r < t /\ r = y % t
      BY DivMod
    <3>2. PICK c \in Nat : c = a + 1
      OBVIOUS
    <3>3. x = t * c + r
      BY <2>2, <3>1, <3>2
    <3>4. r < t
      BY <3>1
    <3>5. x % t = r
      BY <3>3, <3>4, DivUnique
    <3> QED BY <3>1, <3>5
  <2>5. wheels_value' + left'[n] = y
    BY <1>12, <2>1, <2>2
  <2> QED BY <1>1, <1>2, <1>9, <1>10, <1>11, <1>12, <1>13, <2>1, <2>2, <2>3, <2>4, <2>5 DEF Homed
<1> QED BY <1>1, <1>13, <1>15, <1>16

\* Nothing happens to the clock, and each node stays where it is or is unlinked or linked.
LEMMA ClockStays ==
    ASSUME ClockInv, UNCHANGED <<wheels_value, cur_idx>>, pc = "gone" => pc' = "gone",
           pc' \in {"callback", "reschedule"} => node' \in Nodes,
           DOMAIN at' = Nodes, DOMAIN node_val' = Nodes, DOMAIN left' = Nodes,
           node_duration' \in [Nodes -> 0..Farthest],
           \A n \in Nodes : \/ at'[n] = at[n] /\ node_val'[n] = node_val[n] /\ left'[n] = left[n]
                            \/ at'[n] = Unlinked
                            \/ Homed(n)'
    PROVE  ClockInv'
<1>1. wheels_value' = wheels_value /\ cur_idx' = cur_idx
  OBVIOUS
<1>2. ASSUME NEW n \in Nodes, at'[n] = at[n], node_val'[n] = node_val[n], left'[n] = left[n], Homed(n)
      PROVE  Homed(n)'
  BY <1>1, <1>2 DEF Homed
<1>3. ASSUME NEW n \in Nodes PROVE at'[n] = Unlinked \/ (at'[n] = Active /\ left'[n] = 0) \/ Homed(n)'
  BY <1>2 DEF ClockInv
<1>4. pc' # "gone" => cur_idx' = [i \in Wheels |-> Index(i, wheels_value')]
  BY <1>1 DEF ClockInv
<1>5. wheels_value' \in Nat /\ wheels_value' < Turn
  BY <1>1 DEF ClockInv
<1> QED BY <1>3, <1>4, <1>5 DEF ClockInv

LEMMA ScheduleClock ==
    ASSUME ClockInv, pc # "gone", NEW n \in Nodes, NEW d \in 0..Farthest, Schedule(n, d),
           UNCHANGED <<wheels_value, cur_idx>>, pc' # "gone", pc' \in {"callback", "reschedule"} => node' \in Nodes
    PROVE  ClockInv'
<1>1. node_duration' \in [Nodes -> 0..Farthest]
  BY DEF Schedule, ClockInv
<1>2. CASE UNCHANGED <<at, node_val, left>>
  BY <1>1, <1>2, ClockStays DEF ClockInv
<1>3. CASE Link(n, d)
  <2>1. Homed(n)'
    BY <1>3, LinkHomes
  <2>2. /\ DOMAIN at' = Nodes /\ DOMAIN node_val' = Nodes /\ DOMAIN left' = Nodes
        /\ \A m \in Nodes : m # n => at'[m] = at[m] /\ node_val'[m] = node_val[m] /\ left'[m] = left[m]
    BY <1>3 DEF Link, ClockInv
  <2> QED BY <1>1, <2>1, <2>2, ClockStays
<1> QED BY <1>2, <1>3 DEF Schedule

LEMMA DurationsInReach == Durations \subseteq 0..Farthest
BY DurationsFit DEF Farthest, Top

LEMMA TickClock == ASSUME ClockInv, Tick PROVE ClockInv'
<1>1. pc # "gone" /\ pc' = "pop" /\ wheels_value \in Nat /\ Turn \in Nat \ {0}
  BY WholeTurns DEF Tick, ClockInv
<1>2. PICK v \in Nat, t \in Nat \ {0} : v = wheels_value /\ t = Turn /\ v < t
  BY <1>1 DEF ClockInv
<1>3. wheels_value' = (v + 1) % t /\ wheels_value' \in Nat /\ wheels_value' < t
  <2>1. \A y \in Nat : y % t \in Nat /\ y % t < t
    BY DivMod
  <2> QED BY <1>2, <2>1 DEF Tick
<1>4. cur_idx' = [i \in Wheels |-> Index(i, wheels_value')]
  <2>1. ASSUME NEW i \in Wheels
        PROVE  (IF i <= TopWheel THEN (cur_idx[i] + 1) % Size(i) ELSE cur_idx[i]) = Index(i, wheels_value')
    <3>1. cur_idx[i] = Index(i, v) /\ (i <= TopWheel <=> Full(i, v))
      BY <1>1, <1>2, TopWheelIs DEF ClockInv
    <3>2. Index(i, v + 1) = IF Full(i, v) THEN (Index(i, v) + 1) % Size(i) ELSE Index(i, v)
      BY NextIndex
    <3>3. Index(i, (v + 1) % Turn) = Index(i, v + 1)
      BY IndexOfRest
    <3> QED BY <1>2, <1>3, <3>1, <3>2, <3>3
  <2>2. cur_idx' = [i \in Wheels |-> IF i <= TopWheel THEN (cur_idx[i] + 1) % Size(i) ELSE cur_idx[i]]
    BY DEF Tick
  <2> QED BY <2>1, <2>2
<1>5. DOMAIN at' = Nodes /\ node_val' = node_val /\ DOMAIN left' = Nodes /\ node_duration' = node_duration
  BY DEF Tick
<1>6. ASSUME NEW n \in Nodes PROVE at'[n] = Unlinked \/ (at'[n] = Active /\ left'[n] = 0) \/ Homed(n)'
  <2>1. CASE n \in Due
    <3>1. at'[n] = Active /\ left'[n] = left[n]
      BY <2>1 DEF Tick
    <3>2. at[n] = <<0, cur_idx[0]>>
      BY <2>1 DEF Due
    <3>3. Homed(n)
      BY <3>2 DEF ClockInv, Unlinked, Active
    <3>4. PICK l \in Nat, x \in Nat, i \in Wheels :
            l = left[n] /\ x = v + l /\ at[n] = SlotOf(i, node_val[n]) /\ Near(i, v, x) /\ node_val[n] = x % Turn
      BY <1>2, <3>3 DEF Homed
    <3>5. node_val[n] \in Nat /\ \A k \in Wheels : Index(k, node_val[n]) = Index(k, x)
      BY <3>4, IndexOfRest
    <3>6. i = 0
      BY <3>2, <3>4, <3>5, SlotFacts
    <3>7. 0 \in Wheels /\ 1 \in 0..Levels /\ 0 + 1 = 1
      BY WheelSizes DEF Wheels
    <3>8. Index(0, x) = Index(0, v)
      BY <1>1, <1>2, <3>2, <3>4, <3>5, <3>6, <3>7, SlotFacts DEF ClockInv
    <3>9. Turns(1, x) = Turns(1, v)
      BY <3>4, <3>6, <3>7, TopType DEF Near
    <3>10. Turns(0, x) = Turns(0, v)
      <4>1. Turns(0, x) = Size(0) * Turns(1, x) + Index(0, x) /\ Turns(0, v) = Size(0) * Turns(1, v) + Index(0, v)
        BY <3>7, Digits
      <4> QED BY <3>8, <3>9, <4>1
    <3>11. x = v
      BY <3>7, <3>10, TurnsType, Digits
    <3> QED BY <3>1, <3>4, <3>11
  <2>2. CASE Homed(n) /\ n \notin Due
    BY <1>1, <2>2, TickHomes
  <2>3. CASE ~Homed(n) /\ n \notin Due
    <3>1. at[n] = Unlinked \/ (at[n] = Active /\ left[n] = 0)
      BY <2>3 DEF ClockInv
    <3>2. n \notin Scheduled /\ \A i, s : at[n] # <<i, s>>
      BY <3>1, SlotsAreSlots DEF Scheduled, Unlinked, Active
    <3>3. at'[n] = at[n]
      BY <2>3, <3>2 DEF Tick
    <3>4. left'[n] = left[n]
      BY <3>2 DEF Tick
    <3> QED BY <3>1, <3>3, <3>4
  <2> QED BY <2>1, <2>2, <2>3
<1> QED BY <1>1, <1>2, <1>3, <1>4, <1>5, <1>6 DEF ClockInv

LEMMA InitClock == Init => ClockInv
<1> SUFFICES ASSUME Init PROVE ClockInv
  OBVIOUS
<1>1. Levels \in Nat /\ Farthest \in Nat
  <2>1. PICK s \in Nat, z \in Nat : s = Span[Top] /\ z = SizeN - 1
    BY SpanType, TopType, WheelSizes DEF Wheels
  <2>2. z * s \in Nat
    OBVIOUS
  <2> QED BY <2>1, <2>2, WheelSizes DEF Farthest
<1>2. ASSUME NEW i \in Wheels PROVE Index(i, 0) = 0
  <2>1. PICK s \in Nat \ {0}, z \in Nat \ {0} : s = Span[i] /\ z = Size(i)
    BY Digits, SpanType, SizeType
  <2>2. 0 \div s = 0 /\ 0 % z = 0
    OBVIOUS
  <2> QED BY <2>1, <2>2 DEF Index
<1>3. cur_idx = [i \in Wheels |-> Index(i, 0)]
  BY <1>2 DEF Init
<1> QED BY <1>1, <1>3, WholeTurns DEF Init, ClockInv

LEMMA NextClock == ClockInv /\ [Next]_vars => ClockInv'
<1> SUFFICES ASSUME ClockInv, [Next]_vars PROVE ClockInv'
  OBVIOUS
<1>1. ASSUME pc # "gone", NEW n \in Nodes, NEW d \in Durations, AppSchedule(n, d) PROVE ClockInv'
  <2>1. /\ Schedule(n, d) /\ d \in 0..Farthest /\ UNCHANGED <<wheels_value, cur_idx>> /\ pc' # "gone"
        /\ pc' \in {"callback", "reschedule"} => node' \in Nodes
    BY <1>1, DurationsInReach DEF AppSchedule, ClockInv
  <2> QED BY <1>1, <2>1, ScheduleClock
<1>2. ASSUME pc # "gone", NEW n \in Nodes, Remove(n) PROVE ClockInv'
  <2>1. UNCHANGED <<wheels_value, cur_idx, pc, node, node_duration>>
    BY <1>2 DEF Remove
  <2>2. UNCHANGED <<at, node_val, left>> \/ Unlink(n)
    BY <1>2 DEF Remove, RemoveNode
  <2>3. /\ DOMAIN at' = Nodes /\ DOMAIN node_val' = Nodes /\ DOMAIN left' = Nodes
        /\ \A m \in Nodes : \/ at'[m] = at[m] /\ node_val'[m] = node_val[m] /\ left'[m] = left[m]
                            \/ at'[m] = Unlinked
    BY <2>2 DEF Unlink, ClockInv
  <2> QED BY <2>1, <2>3, ClockStays DEF ClockInv
<1>3. ASSUME NEW n \in Nodes, Fire(n) PROVE ClockInv'
  <2>1. UNCHANGED <<wheels_value, cur_idx, node_duration>> /\ pc' = "callback" /\ node' = n /\ pc = "pop"
    BY <1>3 DEF Fire
  <2>2. /\ DOMAIN at' = Nodes /\ DOMAIN node_val' = Nodes /\ DOMAIN left' = Nodes
        /\ \A m \in Nodes : \/ at'[m] = at[m] /\ node_val'[m] = node_val[m] /\ left'[m] = left[m]
                            \/ at'[m] = Unlinked
    BY <1>3 DEF Fire, Unlink, ClockInv
  <2> QED BY <2>1, <2>2, ClockStays DEF ClockInv
<1>4. CASE Reschedule
  <2>1. node \in Nodes /\ node_duration[node] \in 0..Farthest
    BY <1>4 DEF Reschedule, ClockInv
  <2>2. /\ Schedule(node, node_duration[node]) /\ UNCHANGED <<wheels_value, cur_idx>>
        /\ pc # "gone" /\ pc' = "pop"
    BY <1>4 DEF Reschedule, Schedule, Link
  <2> QED BY <2>1, <2>2, ScheduleClock
<1>5. CASE CallbackDone \/ TickDone \/ ThreadEnds \/ Exit \/ UNCHANGED vars
  <2>1. UNCHANGED <<at, node_val, left, wheels_value, cur_idx, node_duration>>
    BY <1>5 DEF CallbackDone, TickDone, ThreadEnds, Exit, vars, code
  <2>2. (pc = "gone" => pc' = "gone") /\ (pc' \in {"callback", "reschedule"} => node' \in Nodes)
    BY <1>5 DEF CallbackDone, TickDone, ThreadEnds, Exit, vars, code, ClockInv
  <2> QED BY <2>1, <2>2, ClockStays DEF ClockInv
<1>6. CASE Destruct
  <2>1. /\ at' = [n \in Nodes |-> Unlinked] /\ DOMAIN node_val' = Nodes /\ DOMAIN left' = Nodes
        /\ pc' = "gone" /\ UNCHANGED <<wheels_value, node_duration>>
    BY <1>6 DEF Destruct
  <2> QED BY <2>1 DEF ClockInv
<1> QED
  BY <1>1, <1>2, <1>3, <1>4, <1>5, <1>6, TickClock DEF Next, Application, TimerThread

\* The whole execution keeps the nodes at home, also where the application is careless.
LEMMA ClockIsOnTime == ClockInv => OnTime
BY SlotsAreSlots DEF ClockInv, Homed, OnTime, Scheduled

\* OnTime: for any number and sizes of wheels and any duration they can hold, a
\* timer is taken in the very tick its duration is over, however often it falls
\* from wheel to wheel on the way (schedule, reposit and step of timer_wheel.cpp).
THEOREM TakenOnTime == Spec => []OnTime
BY InitClock, NextClock, ClockIsOnTime, PTL DEF Spec

==============================================================================
