------------------------- MODULE TradesManager_proofs -------------------------
(***************************************************************************)
(* Theorems about TradesManager for any positions, balances and sizes, and *)
(* any number of changes and failures.  For every key, either a message on *)
(* its way says last what the exchange holds, or none speaks of the key    *)
(* and what is shown is right, up to the excuses the properties allow.     *)
(***************************************************************************)
EXTENDS TradesManager, SequenceTheorems, FiniteSetTheorems, TLAPS

TypeInv ==
    /\ held \in [Keys -> Sizes]
    /\ subscribed \in BOOLEAN /\ requested \in BOOLEAN /\ session \in {"down", "up"}
    /\ pushed \in Seq(Seq(Items))
    /\ todo \in Seq(Items)
    /\ DOMAIN shown = Keys
    /\ spoilt \subseteq Keys /\ unseen \subseteq Positions

\* Nothing arrives before the exchange has taken the subscriptions.
QuietBefore ==
    /\ session = "down" => ~subscribed
    /\ requested => ~subscribed /\ session = "up"
    /\ ~subscribed => pushed = << >> /\ todo = << >>

Silent(m, k) == \A j \in DOMAIN m : m[j].key # k

\* The last item of message m about key k says what the exchange holds.
Tells(m, k) == \E j \in DOMAIN m : /\ m[j] = Item(k)
                                   /\ \A l \in DOMAIN m : m[l].key = k => l <= j

AllSilent(k) == \A i \in DOMAIN pushed : Silent(pushed[i], k)
LastTells(k) == \E i \in DOMAIN pushed : /\ Tells(pushed[i], k)
                                         /\ \A l \in DOMAIN pushed : l > i => Silent(pushed[l], k)

\* What is shown of a key of which no message on its way speaks.
Shown(k) == IF Closed(k) THEN shown[k] = Absent \/ k \in unseen
                         ELSE subscribed => shown[k] = held[k] \/ k \in spoilt

KeyInv(k) == \/ AllSilent(k) /\ Silent(todo, k) /\ Shown(k)
             \/ AllSilent(k) /\ Tells(todo, k)
             \/ LastTells(k)

Inv == TypeInv /\ QuietBefore /\ \A k \in Keys : KeyInv(k)

-----------------------------------------------------------------------------
(* Types *)

LEMMA SnapshotSeq ==
    ASSUME NEW S, IsFiniteSet(S)
    PROVE  /\ SetToSeq(S) \in [1..Cardinality(S) -> S] /\ Cardinality(S) \in Nat
           /\ IsInjective(SetToSeq(S))
           /\ \A x \in S : \E i \in 1..Cardinality(S) : SetToSeq(S)[i] = x
<1> DEFINE D == 1..Cardinality(S)
<1>1. Cardinality(S) \in Nat /\ ExistsBijection(D, S)
  BY FS_CardinalityType
<1>2. PICK g : g \in Bijection(D, S)
  BY <1>1 DEF ExistsBijection
<1>3. g \in [D -> S] /\ IsInjective(g)
  BY <1>2 DEF Bijection, Injection
<1>4. SetToSeq(S) \in [D -> S] /\ IsInjective(SetToSeq(S))
  <2>1. SetToSeq(S) = CHOOSE f \in [D -> S] : IsInjective(f)
    BY DEF SetToSeq
  <2> HIDE DEF D
  <2> QED
    BY <1>3, <2>1
<1>5. SetToSeq(S) \in Injection(D, S)
  BY <1>4 DEF Injection
<1>6. IsFiniteSet(D) /\ Cardinality(D) = Cardinality(S)
  BY <1>1, FS_Interval
<1>7. SetToSeq(S) \in Surjection(D, S)
  BY <1>5, <1>6, FS_Injection
<1> QED
  BY <1>1, <1>4, <1>7 DEF Surjection

There == Currencies \cup {p \in Positions : held[p] # 0}

LEMMA ThereFinite == IsFiniteSet(There) /\ There \subseteq Keys
<1>1. There \subseteq Keys
  BY DEF There, Keys
<1> QED
  BY <1>1, KeysFinite, FS_Subset

LEMMA SnapshotItems ==
    ASSUME TypeInv
    PROVE  LET m == [i \in DOMAIN SetToSeq(There) |-> Item(SetToSeq(There)[i])]
           IN  /\ m \in Seq(Items)
               /\ \A k \in Keys : IF k \in There THEN Tells(m, k) ELSE Silent(m, k)
<1> DEFINE s == SetToSeq(There)
           n == Cardinality(There)
           m == [i \in DOMAIN s |-> Item(s[i])]
<1>1. s \in [1..n -> There] /\ n \in Nat /\ IsInjective(s)
      /\ \A x \in There : \E i \in 1..n : s[i] = x
  BY ThereFinite, SnapshotSeq
<1> HIDE DEF s, n
<1>2. m = [i \in 1..n |-> Item(s[i])]
  BY <1>1
<1>3. \A i \in 1..n : Item(s[i]) \in Items /\ Item(s[i]).key = s[i]
  BY <1>1, ThereFinite DEF Item, Items, TypeInv
<1>4. m \in Seq(Items)
  BY <1>1, <1>2, <1>3, IsASeq
<1>5. DOMAIN m = 1..n /\ \A i \in 1..n : m[i] = Item(s[i]) /\ m[i].key = s[i]
  BY <1>2, <1>3
<1> HIDE DEF m
<1>6. ASSUME NEW k \in There PROVE Tells(m, k)
  <2>1. PICK i \in 1..n : s[i] = k
    BY <1>1
  <2>2. \A l \in 1..n : s[l] = k => l = i
    BY <1>1, <2>1 DEF IsInjective
  <2> QED
    BY <1>1, <1>5, <2>1, <2>2 DEF Tells
<1>7. ASSUME NEW k \in Keys, k \notin There PROVE Silent(m, k)
  BY <1>1, <1>5, <1>7 DEF Silent
<1> QED
  BY <1>4, <1>6, <1>7 DEF m, s

LEMMA NextType == TypeInv /\ [Next]_vars => TypeInv'
<1> SUFFICES ASSUME TypeInv, [Next]_vars PROVE TypeInv'
  OBVIOUS
<1> USE DEF TypeInv
<1>1. ASSUME NEW k \in Keys, NEW size \in Sizes, Change(k, size) PROVE TypeInv'
  <2>1. <<[key |-> k, size |-> size]>> \in Seq(Items)
    BY DEF Items
  <2>2. Append(pushed, <<[key |-> k, size |-> size]>>) \in Seq(Seq(Items))
    BY <2>1, AppendProperties
  <2>3. pushed' \in Seq(Seq(Items))
    BY <1>1, <2>2 DEF Change
  <2> QED
    BY <1>1, <2>3 DEF Change
<1>2. CASE Snapshot
  <2>1. pushed' \in Seq(Seq(Items))
    BY <1>2, SnapshotItems, AppendProperties DEF Snapshot, There
  <2> QED
    BY <1>2, <2>1 DEF Snapshot
<1>3. CASE OnConnected
  BY <1>3 DEF OnConnected
<1>4. CASE SessionLost
  <2>1. pushed' \in Seq(Seq(Items))
    BY <1>4, EmptySeq DEF SessionLost
  <2> QED
    BY <1>4, <2>1 DEF SessionLost
<1>5. CASE NextMessage
  <2>1. todo' \in Seq(Items) /\ pushed' \in Seq(Seq(Items))
    BY <1>5, HeadTailProperties DEF NextMessage
  <2> QED
    BY <1>5, <2>1 DEF NextMessage
<1>6. CASE ApplyItem
  <2>1. todo' \in Seq(Items)
    BY <1>6, HeadTailProperties DEF ApplyItem
  <2>2. DOMAIN shown' = Keys
    BY <1>6 DEF ApplyItem, Update
  <2> QED
    BY <1>6, <2>1, <2>2 DEF ApplyItem
<1>7. CASE ParseThrows
  <2>1. todo' \in Seq(Items)
    BY <1>7, EmptySeq DEF ParseThrows
  <2>2. KeysOf(todo) \subseteq Keys
    <3>1. \A i \in DOMAIN todo : todo[i] \in Items
      BY ElementOfSeq, LenProperties
    <3> QED
      BY <3>1 DEF KeysOf, Items
  <2> QED
    BY <1>7, <2>1, <2>2 DEF ParseThrows
<1>8. CASE UNCHANGED vars
  BY <1>8 DEF vars
<1> QED
  BY <1>1, <1>2, <1>3, <1>4, <1>5, <1>6, <1>7, <1>8 DEF Next

LEMMA NextQuiet == TypeInv /\ QuietBefore /\ [Next]_vars => QuietBefore'
<1> SUFFICES ASSUME TypeInv, QuietBefore, [Next]_vars PROVE QuietBefore'
  OBVIOUS
<1> USE DEF QuietBefore, TypeInv
<1>1. ASSUME NEW k \in Keys, NEW size \in Sizes, Change(k, size) PROVE QuietBefore'
  BY <1>1 DEF Change
<1>2. CASE Snapshot
  <2>1. ~requested' /\ subscribed' /\ requested /\ UNCHANGED session
    BY <1>2 DEF Snapshot
  <2> QED
    BY <2>1
<1>6. CASE OnConnected \/ UNCHANGED vars
  BY <1>6 DEF OnConnected, vars
<1>3. CASE SessionLost
  BY <1>3 DEF SessionLost
<1>4. CASE NextMessage
  BY <1>4 DEF NextMessage
<1>5. CASE ApplyItem \/ ParseThrows
  BY <1>5 DEF ApplyItem, ParseThrows
<1> QED
  BY <1>1, <1>2, <1>3, <1>4, <1>5, <1>6 DEF Next

-----------------------------------------------------------------------------
(* The last word on a key *)

LEMMA PendingMeans ==
    ASSUME NEW k
    PROVE  ~Pending(k) <=> AllSilent(k) /\ Silent(todo, k)
BY DEF Pending, AllSilent, Silent, KeysOf, Range

LEMMA TellsMeans ==
    ASSUME NEW m, NEW k, Tells(m, k)
    PROVE  ~Silent(m, k)
BY DEF Tells, Silent, Item

\* A message is appended that speaks last of key k, or does not speak of it.
LEMMA AppendTells ==
    ASSUME TypeInv, NEW k, NEW m \in Seq(Items), pushed' = Append(pushed, m), Tells(m, k)'
    PROVE  LastTells(k)'
<1>1. /\ Len(pushed) \in Nat /\ DOMAIN pushed' = 1..(Len(pushed) + 1)
      /\ pushed'[Len(pushed) + 1] = m
  BY AppendProperties, LenProperties DEF TypeInv
<1> QED
  BY <1>1 DEF LastTells

LEMMA AppendSilent ==
    ASSUME TypeInv, NEW k, NEW m \in Seq(Items), pushed' = Append(pushed, m), Silent(m, k)
    PROVE  /\ AllSilent(k) => AllSilent(k)'
           /\ LastTells(k) /\ Item(k)' = Item(k) => LastTells(k)'
<1>1. /\ Len(pushed) \in Nat /\ DOMAIN pushed = 1..Len(pushed)
      /\ DOMAIN pushed' = 1..(Len(pushed) + 1)
      /\ \A i \in 1..Len(pushed) : pushed'[i] = pushed[i]
      /\ pushed'[Len(pushed) + 1] = m
  BY AppendProperties, LenProperties DEF TypeInv
<1>2. \A i \in DOMAIN pushed' : i \in DOMAIN pushed \/ i = Len(pushed) + 1
  BY <1>1
<1>3. AllSilent(k) => AllSilent(k)'
  BY <1>1, <1>2 DEF AllSilent, Silent
<1>4. ASSUME LastTells(k), Item(k)' = Item(k) PROVE LastTells(k)'
  <2>1. PICK i \in DOMAIN pushed : /\ Tells(pushed[i], k)
                                   /\ \A l \in DOMAIN pushed : l > i => Silent(pushed[l], k)
    BY <1>4 DEF LastTells
  <2>2. i \in DOMAIN pushed' /\ pushed'[i] = pushed[i]
    BY <1>1
  <2>3. Tells(pushed[i], k)'
    BY <1>4, <2>1, <2>2 DEF Tells
  <2>4. \A l \in DOMAIN pushed' : l > i => Silent(pushed'[l], k)
    BY <1>1, <1>2, <2>1
  <2> QED
    BY <2>2, <2>3, <2>4 DEF LastTells, Silent
<1> QED
  BY <1>3, <1>4

LEMMA ChangeKeeps ==
    ASSUME Inv, NEW c \in Keys, NEW size \in Sizes, Change(c, size), NEW k \in Keys
    PROVE  KeyInv(k)'
<1> DEFINE m == <<[key |-> c, size |-> size]>>
<1>0. TypeInv /\ QuietBefore /\ KeyInv(k)
  BY DEF Inv
<1>1. /\ held' = [held EXCEPT ![c] = size] /\ UNCHANGED <<subscribed, todo, shown, spoilt>>
      /\ unseen \subseteq unseen'
  BY DEF Change
<1>2. m \in Seq(Items) /\ DOMAIN m = {1} /\ m[1] = [key |-> c, size |-> size]
  BY DEF Items
<1> HIDE DEF m
<1>3. CASE subscribed
  <2>1. pushed' = Append(pushed, m)
    BY <1>3 DEF Change, m
  <2>2. CASE k = c
    <3>1. Item(k)' = [key |-> c, size |-> size]
      BY <1>0, <1>1, <2>2 DEF Item, TypeInv
    <3>2. Tells(m, k)'
      <4>1. 1 \in DOMAIN m /\ m[1] = Item(k)' /\ \A l \in DOMAIN m : l <= 1
        BY <1>2, <3>1
      <4> QED
        BY <4>1 DEF Tells, m
    <3> QED
      BY <1>0, <1>2, <2>1, <3>2, AppendTells DEF KeyInv
  <2>3. CASE k # c
    <3>1. Item(k)' = Item(k) /\ held'[k] = held[k]
      BY <1>0, <1>1, <2>3 DEF Item, TypeInv
    <3>2. Silent(m, k)
      BY <1>2, <2>3 DEF Silent
    <3>3. AllSilent(k) => AllSilent(k)'
      BY <1>0, <1>2, <2>1, <3>2, AppendSilent
    <3>4. LastTells(k) => LastTells(k)'
      BY <1>0, <1>2, <2>1, <3>1, <3>2, AppendSilent
    <3>5. Silent(todo, k) => Silent(todo, k)'
      BY <1>1 DEF Silent
    <3>6. Tells(todo, k) => Tells(todo, k)'
      BY <1>1, <3>1 DEF Tells
    <3>7. Shown(k) => Shown(k)'
      BY <1>1, <3>1 DEF Shown, Closed
    <3> QED
      BY <1>0, <3>3, <3>4, <3>5, <3>6, <3>7 DEF KeyInv
  <2> QED
    BY <2>2, <2>3
<1>4. CASE ~subscribed
  <2>1. pushed' = << >> /\ todo' = << >> /\ pushed = << >> /\ todo = << >>
    BY <1>0, <1>4 DEF Change, QuietBefore
  <2>2. AllSilent(k)' /\ Silent(todo, k)' /\ AllSilent(k) /\ Silent(todo, k)
    BY <2>1 DEF AllSilent, Silent
  <2>3. Shown(k)
    BY <1>0, <2>1 DEF KeyInv, LastTells, Tells
  <2>4. Shown(k)'
    <3>1. CASE k = c
      <4>1. Closed(k)' => k \in unseen'
        BY <1>0, <1>4, <3>1 DEF Change, Closed, TypeInv
      <4> QED
        BY <1>1, <1>4, <4>1 DEF Shown
    <3>2. CASE k # c
      <4>1. held'[k] = held[k]
        BY <1>0, <1>1, <3>2 DEF TypeInv
      <4> QED
        BY <1>1, <2>3, <4>1 DEF Shown, Closed
    <3> QED
      BY <3>1, <3>2
  <2> QED
    BY <2>2, <2>4 DEF KeyInv
<1> QED
  BY <1>0, <1>3, <1>4 DEF TypeInv

LEMMA SnapshotKeeps ==
    ASSUME Inv, Snapshot, NEW k \in Keys
    PROVE  KeyInv(k)'
<1>0. TypeInv /\ QuietBefore /\ KeyInv(k)
  BY DEF Inv
<1> DEFINE m == [i \in DOMAIN SetToSeq(There) |-> Item(SetToSeq(There)[i])]
<1>1. /\ pushed = << >> /\ todo = << >> /\ pushed' = Append(pushed, m)
      /\ UNCHANGED <<held, todo, shown, spoilt, unseen>>
  BY <1>0 DEF Snapshot, There, QuietBefore
<1>2. m \in Seq(Items) /\ IF k \in There THEN Tells(m, k) ELSE Silent(m, k)
  BY <1>0, SnapshotItems
<1>m. PICK w : w = m
  OBVIOUS
<1> HIDE DEF m
<1>3. CASE k \in There
  <2>1. Tells(w, k)'
    BY <1>1, <1>2, <1>3, <1>m DEF Tells, Item
  <2>2. LastTells(k)'
    BY <1>0, <1>1, <1>2, <1>m, <2>1, AppendTells
  <2> QED
    BY <2>2 DEF KeyInv
<1>4. CASE k \notin There
  <2>1. AllSilent(k)
    BY <1>1 DEF AllSilent
  <2>2. AllSilent(k)'
    BY <1>0, <1>1, <1>2, <1>4, <2>1, AppendSilent
  <2>3. Silent(todo, k)'
    BY <1>1 DEF Silent
  <2>4. Closed(k)
    BY <1>4 DEF There, Closed, Keys
  <2>5. Shown(k)
    BY <1>0, <1>1 DEF KeyInv, LastTells, Tells
  <2>6. Shown(k)'
    BY <1>1, <2>4, <2>5 DEF Shown, Closed
  <2> QED
    BY <2>2, <2>3, <2>6 DEF KeyInv
<1> QED
  BY <1>3, <1>4

LEMMA ConnectionKeeps ==
    ASSUME Inv, OnConnected \/ SessionLost, NEW k \in Keys
    PROVE  KeyInv(k)'
<1>0. TypeInv /\ QuietBefore /\ KeyInv(k)
  BY DEF Inv
<1>1. CASE OnConnected
  <2>1. pushed' = << >> /\ todo' = << >> /\ pushed = << >> /\ todo = << >> /\ ~subscribed'
        /\ UNCHANGED <<held, shown, unseen>>
    BY <1>0, <1>1 DEF OnConnected, QuietBefore
  <2>2. Shown(k)
    BY <1>0, <2>1 DEF KeyInv, LastTells, Tells
  <2>3. Shown(k)'
    BY <2>1, <2>2 DEF Shown, Closed
  <2> QED
    BY <2>1, <2>3 DEF KeyInv, AllSilent, Silent
<1>2. CASE SessionLost
  <2>1. pushed' = << >> /\ todo' = << >> /\ ~subscribed' /\ UNCHANGED <<held, shown>>
        /\ unseen' = unseen \cup {p \in Positions : Pending(p) /\ held[p] = 0}
    BY <1>2 DEF SessionLost
  <2>2. Closed(k) => Shown(k) \/ Pending(k)
    BY <1>0, PendingMeans DEF KeyInv, TellsMeans, LastTells, Tells, AllSilent, Silent, Item
  <2>3. Shown(k)'
    BY <2>1, <2>2 DEF Shown, Closed
  <2> QED
    BY <2>1, <2>3 DEF KeyInv, AllSilent, Silent
<1> QED
  BY <1>1, <1>2

LEMMA NextMessageKeeps ==
    ASSUME Inv, NextMessage, NEW k \in Keys
    PROVE  KeyInv(k)'
<1>0. TypeInv /\ KeyInv(k)
  BY DEF Inv
<1>1. /\ todo = << >> /\ pushed # << >> /\ todo' = Head(pushed) /\ pushed' = Tail(pushed)
      /\ UNCHANGED <<held, subscribed, shown, spoilt, unseen>>
  BY DEF NextMessage
<1>2. /\ Len(pushed) \in Nat /\ Len(pushed) >= 1 /\ DOMAIN pushed = 1..Len(pushed)
      /\ DOMAIN pushed' = 1..(Len(pushed) - 1)
      /\ \A i \in 1..(Len(pushed) - 1) : pushed'[i] = pushed[i + 1]
      /\ todo' = pushed[1]
  BY <1>0, <1>1, HeadTailProperties, LenProperties, EmptySeq DEF TypeInv
<1>3. \A i \in DOMAIN pushed' : i + 1 \in DOMAIN pushed /\ i + 1 > 1 /\ pushed'[i] = pushed[i + 1]
  BY <1>2
<1>4. CASE AllSilent(k) /\ Silent(todo, k) /\ Shown(k)
  <2>1. AllSilent(k)' /\ Silent(todo, k)'
    BY <1>2, <1>3, <1>4 DEF AllSilent, Silent
  <2>2. Shown(k)'
    BY <1>1, <1>4 DEF Shown, Closed
  <2> QED
    BY <2>1, <2>2 DEF KeyInv
<1>5. CASE LastTells(k)
  <2>1. PICK i \in DOMAIN pushed : /\ Tells(pushed[i], k)
                                   /\ \A l \in DOMAIN pushed : l > i => Silent(pushed[l], k)
    BY <1>5 DEF LastTells
  <2>2. CASE i = 1
    <3>1. AllSilent(k)'
      <4>1. \A l \in DOMAIN pushed' : Silent(pushed'[l], k)
        BY <1>3, <2>1, <2>2
      <4> QED
        BY <4>1 DEF AllSilent, Silent
    <3>2. Tells(todo, k)'
      BY <1>1, <1>2, <2>1, <2>2 DEF Tells, Item
    <3> QED
      BY <3>1, <3>2 DEF KeyInv
  <2>3. CASE i > 1
    <3>w. PICK w : w = pushed[i]
      OBVIOUS
    <3>1. i - 1 \in DOMAIN pushed' /\ pushed'[i - 1] = w
      BY <1>2, <2>1, <2>3, <3>w
    <3>2. Tells(w, k)'
      BY <1>1, <2>1, <3>w DEF Tells, Item
    <3>3. \A l \in DOMAIN pushed' : l > i - 1 => Silent(pushed'[l], k)
      BY <1>2, <1>3, <2>1
    <3>4. LastTells(k)'
      BY <3>1, <3>2, <3>3 DEF LastTells, Silent
    <3> QED
      BY <3>4 DEF KeyInv
  <2> QED
    BY <1>2, <2>1, <2>2, <2>3
<1>6. ~Tells(todo, k)
  BY <1>1 DEF Tells
<1> QED
  BY <1>0, <1>4, <1>5, <1>6 DEF KeyInv

LEMMA ApplyKeeps ==
    ASSUME Inv, ApplyItem, NEW k \in Keys
    PROVE  KeyInv(k)'
<1>h. PICK h : h = Head(todo)
  OBVIOUS
<1>0. TypeInv /\ KeyInv(k)
  BY DEF Inv
<1>1. /\ todo # << >> /\ todo' = Tail(todo) /\ Update(h)
      /\ spoilt' = spoilt \ {h.key} /\ unseen' = unseen \ {h.key}
      /\ UNCHANGED <<held, subscribed, pushed>>
  BY <1>h DEF ApplyItem
<1>2. /\ Len(todo) \in Nat /\ Len(todo) >= 1 /\ DOMAIN todo = 1..Len(todo)
      /\ DOMAIN todo' = 1..(Len(todo) - 1)
      /\ \A i \in 1..(Len(todo) - 1) : todo'[i] = todo[i + 1]
      /\ h = todo[1] /\ h \in Items
  BY <1>h, <1>0, <1>1, HeadTailProperties, LenProperties, EmptySeq DEF TypeInv
<1>3. \A i \in DOMAIN todo' : i + 1 \in DOMAIN todo /\ i + 1 > 1 /\ todo'[i] = todo[i + 1]
  BY <1>2
<1>4. h.key # k => shown'[k] = shown[k] /\ (k \in spoilt => k \in spoilt')
                   /\ (k \in unseen => k \in unseen')
  BY <1>0, <1>1 DEF Update, TypeInv
<1>5. AllSilent(k) => AllSilent(k)'
  BY <1>1 DEF AllSilent, Silent
<1>6. LastTells(k) => LastTells(k)'
  BY <1>1 DEF LastTells, Tells, Silent, Item
<1>7. CASE AllSilent(k) /\ Silent(todo, k) /\ Shown(k)
  <2>1. h.key # k /\ Silent(todo, k)'
    BY <1>2, <1>3, <1>7 DEF Silent
  <2>2. Shown(k)'
    BY <1>1, <1>4, <1>7, <2>1 DEF Shown, Closed
  <2> QED
    BY <1>5, <1>7, <2>1, <2>2 DEF KeyInv
<1>8. CASE AllSilent(k) /\ Tells(todo, k)
  <2>1. PICK j \in DOMAIN todo : todo[j] = Item(k) /\ \A l \in DOMAIN todo : todo[l].key = k => l <= j
    BY <1>8 DEF Tells
  <2>2. CASE j = 1
    <3>1. h = Item(k)
      BY <1>2, <2>1, <2>2
    <3>2. Silent(todo, k)'
      BY <1>2, <1>3, <2>1, <2>2 DEF Silent
    <3>3. shown'[k] = IF Closed(k) THEN Absent ELSE held[k]
      BY <1>0, <1>1, <3>1 DEF Update, Item, Closed, TypeInv
    <3>4. Shown(k)'
      BY <1>1, <3>3 DEF Shown, Closed
    <3> QED
      BY <1>5, <1>8, <3>2, <3>4 DEF KeyInv
  <2>3. CASE j > 1
    <3>1. j - 1 \in DOMAIN todo' /\ todo'[j - 1] = Item(k)'
      BY <1>1, <1>2, <2>1, <2>3 DEF Item
    <3>2. \A l \in DOMAIN todo' : todo'[l].key = k => l <= j - 1
      BY <1>2, <1>3, <2>1
    <3>3. Tells(todo, k)'
      BY <3>1, <3>2 DEF Tells
    <3> QED
      BY <1>5, <1>8, <3>3 DEF KeyInv
  <2> QED
    BY <1>2, <2>1, <2>2, <2>3
<1>9. CASE LastTells(k)
  BY <1>6, <1>9 DEF KeyInv
<1> QED
  BY <1>0, <1>7, <1>8, <1>9 DEF KeyInv

LEMMA ThrowKeeps ==
    ASSUME Inv, ParseThrows, NEW k \in Keys
    PROVE  KeyInv(k)'
<1>0. TypeInv /\ KeyInv(k)
  BY DEF Inv
<1>1. /\ todo' = << >> /\ spoilt' = spoilt \cup KeysOf(todo)
      /\ unseen' = unseen \cup {p \in Positions : p \in KeysOf(todo) /\ held[p] = 0}
      /\ UNCHANGED <<held, subscribed, pushed, shown>>
  BY DEF ParseThrows
<1>2. (AllSilent(k) => AllSilent(k)') /\ Silent(todo, k)'
  BY <1>1 DEF AllSilent, Silent
<1>3. LastTells(k) => LastTells(k)'
  BY <1>1 DEF LastTells, Tells, Silent, Item
<1>4. Tells(todo, k) => k \in KeysOf(todo)
  BY DEF Tells, KeysOf, Item
<1>5. Shown(k) \/ Tells(todo, k) => Shown(k)'
  BY <1>1, <1>4 DEF Shown, Closed
<1> QED
  BY <1>0, <1>2, <1>3, <1>5 DEF KeyInv

-----------------------------------------------------------------------------

LEMMA InitInv == Init => Inv
<1> SUFFICES ASSUME Init PROVE Inv
  OBVIOUS
<1>1. TypeInv
  BY EmptySeq, SizesAreNat DEF Init, TypeInv
<1>2. QuietBefore
  BY DEF Init, QuietBefore
<1>3. \A k \in Keys : KeyInv(k)
  BY DEF Init, KeyInv, AllSilent, Silent, Shown, Closed
<1> QED
  BY <1>1, <1>2, <1>3 DEF Inv

LEMMA NextInv == Inv /\ [Next]_vars => Inv'
<1> SUFFICES ASSUME Inv, [Next]_vars PROVE Inv'
  OBVIOUS
<1>1. TypeInv' /\ QuietBefore'
  BY NextType, NextQuiet DEF Inv
<1>2. ASSUME NEW k \in Keys PROVE KeyInv(k)'
  <2>1. CASE UNCHANGED vars
    BY <2>1 DEF vars, Inv, KeyInv, AllSilent, LastTells, Silent, Tells, Item, Shown, Closed
  <2>2. CASE Next
    BY <2>2, ChangeKeeps, SnapshotKeeps, ConnectionKeeps, NextMessageKeeps, ApplyKeeps, ThrowKeeps
       DEF Next
  <2> QED
    BY <2>1, <2>2
<1> QED
  BY <1>1, <1>2 DEF Inv

\* What the invariant says of a key of which nothing more will be said.
LEMMA SettledShown ==
    ASSUME Inv, NEW k \in Keys, Settled(k)
    PROVE  IF Closed(k) THEN Current(k) \/ k \in unseen ELSE Current(k)
<1>1. AllSilent(k) /\ Silent(todo, k) /\ subscribed /\ k \notin spoilt
  BY PendingMeans DEF Settled
<1>2. ~Tells(todo, k) /\ ~LastTells(k)
  BY <1>1, TellsMeans DEF AllSilent, LastTells
<1>3. Shown(k)
  BY <1>2 DEF Inv, KeyInv
<1> QED
  BY <1>1, <1>3 DEF Shown, Current

\* OpenIsCurrent: whatever a lost connection or an exception dropped, once the
\* messages of a session are parsed balances and open positions are right.
THEOREM OpenPositionsAreRight == Spec => []OpenIsCurrent
<1>1. Inv => OpenIsCurrent
  BY SettledShown DEF OpenIsCurrent
<1> QED
  BY <1>1, InitInv, NextInv, PTL DEF Spec

\* StaleOnlyIfUnseen: a position that is shown although it is closed was closed
\* while nobody was told, or its message was lost.
THEOREM StaleHasAnExcuse == Spec => []StaleOnlyIfUnseen
<1>1. Inv => StaleOnlyIfUnseen
  BY SettledShown DEF StaleOnlyIfUnseen
<1> QED
  BY <1>1, InitInv, NextInv, PTL DEF Spec
==============================================================================
