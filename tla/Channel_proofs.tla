---------------------------- MODULE Channel_proofs ---------------------------
(***************************************************************************)
(* Theorems about Channel for any orders, subscriptions and number of      *)
(* failures.                                                               *)
(***************************************************************************)
EXTENDS Channel, SequenceTheorems, FiniteSetTheorems, TLAPS

-----------------------------------------------------------------------------
(* Sequences: what an append, a Tail and a RemoveAt do to their elements.  *)

LEMMA RemoveAtProperties ==
    ASSUME NEW S, NEW s \in Seq(S), NEW i \in 1..Len(s)
    PROVE  /\ RemoveAt(s, i) \in Seq(S)
           /\ Len(RemoveAt(s, i)) = Len(s) - 1
           /\ \A j \in 1..(Len(s) - 1) :
                 RemoveAt(s, i)[j] = IF j < i THEN s[j] ELSE s[j + 1]
<1> DEFINE a == SubSeq(s, 1, i - 1)
           b == SubSeq(s, i + 1, Len(s))
<1>0. Len(s) \in Nat /\ i \in Nat
  BY LenProperties
<1>1. /\ a \in Seq(S) /\ Len(a) = i - 1
      /\ \A j \in 1..(i - 1) : a[j] = s[j]
  <2>1. \A j \in 1..(i - 1) : s[j] \in S
    BY <1>0, ElementOfSeq
  <2>2. /\ SubSeq(s, 1, i - 1) \in Seq(S)
        /\ Len(SubSeq(s, 1, i - 1)) = IF 1 <= i - 1 THEN (i - 1) - 1 + 1 ELSE 0
        /\ \A j \in 1..((i - 1) - 1 + 1) : SubSeq(s, 1, i - 1)[j] = s[1 + j - 1]
    BY <1>0, <2>1, SubSeqProperties
  <2> QED
    BY <1>0, <2>2
<1>2. /\ b \in Seq(S) /\ Len(b) = Len(s) - i
      /\ \A j \in 1..(Len(s) - i) : b[j] = s[i + j]
  <2>1. \A j \in (i + 1)..Len(s) : s[j] \in S
    BY <1>0, ElementOfSeq
  <2>2. /\ SubSeq(s, i + 1, Len(s)) \in Seq(S)
        /\ Len(SubSeq(s, i + 1, Len(s))) = IF i + 1 <= Len(s) THEN Len(s) - (i + 1) + 1 ELSE 0
        /\ \A j \in 1..(Len(s) - (i + 1) + 1) :
              SubSeq(s, i + 1, Len(s))[j] = s[(i + 1) + j - 1]
    BY <1>0, <2>1, SubSeqProperties
  <2> QED
    BY <1>0, <2>2
<1> HIDE DEF a, b
<1>3. /\ a \o b \in Seq(S) /\ Len(a \o b) = Len(a) + Len(b)
      /\ \A j \in 1..(Len(a) + Len(b)) :
            (a \o b)[j] = IF j <= Len(a) THEN a[j] ELSE b[j - Len(a)]
  BY <1>1, <1>2, ConcatProperties
<1>4. RemoveAt(s, i) = a \o b
  BY DEF RemoveAt, a, b
<1>5. \A j \in 1..(Len(s) - 1) : (a \o b)[j] = IF j < i THEN s[j] ELSE s[j + 1]
  <2> SUFFICES ASSUME NEW j \in 1..(Len(s) - 1)
               PROVE  (a \o b)[j] = IF j < i THEN s[j] ELSE s[j + 1]
    OBVIOUS
  <2>1. j \in 1..(Len(a) + Len(b))
    BY <1>0, <1>1, <1>2
  <2>2. CASE j < i
    BY <1>0, <1>1, <1>3, <2>1, <2>2
  <2>3. CASE ~(j < i)
    <3>1. j - Len(a) \in 1..(Len(s) - i) /\ i + (j - Len(a)) = j + 1 /\ ~(j <= Len(a))
      BY <1>0, <1>1, <2>3
    <3> QED
      BY <1>2, <1>3, <2>1, <2>3, <3>1
  <2> QED
    BY <2>2, <2>3
<1>6. Len(a \o b) = Len(s) - 1
  BY <1>0, <1>1, <1>2, <1>3
<1> QED
  BY <1>3, <1>4, <1>5, <1>6

-----------------------------------------------------------------------------
(* Type correctness.  The loops over Subscriptions and waiting_resp_q      *)
(* start at 1, which their indexing depends on.                            *)

LoopIndex == pc \in {"login", "onConnected", "resend"} => k >= 1

TypeInv == TypeOK /\ LoopIndex

LEMMA SubscriptionTypes ==
    /\ Len(Subscriptions) \in Nat
    /\ \A i \in 1..Len(Subscriptions) : Subscriptions[i] \in Commands
BY SubscriptionsSeq, ElementOfSeq, LenProperties DEF Commands, Requests

LEMMA ReplyTypes ==
    ASSUME TypeOK
    PROVE  /\ Closed \in Messages
           /\ \A c \in Requests, v \in Verdicts : Reply(c, v) \in Replies
           /\ \A m \in Replies : Spoilt(m) \in Replies /\ Clobber(m) \subseteq Messages
           /\ Replies \subseteq Messages
           /\ \A m \in Messages : m.verdict # "closed" => m \in Replies
BY DEF TypeOK, Closed, Reply, Messages, Replies, Verdicts, OrderVerdicts, Clobber, Spoilt

LEMMA InHandTypes ==
    ASSUME TypeOK, in_hand # << >>
    PROVE  in_hand[1] \in Messages
BY ElementOfSeq, EmptySeq DEF TypeOK

LEMMA SingletonSeq ==
    ASSUME NEW S, NEW e \in S
    PROVE  << e >> \in Seq(S) /\ Len(<< e >>) = 1
OBVIOUS

LEMMA DropTypes ==
    ASSUME TypeOK, DropSession
    PROVE  /\ pc' \in RunStates /\ link' \in {"none", "up", "reset", "silent"}
           /\ orphans' \subseteq Nat \X Orders
           /\ to_server' \in Seq(Requests) /\ to_client' \in Seq(Replies)
           /\ stale' \in Seq(Messages)
           /\ in_hand' \in Seq(Messages) /\ Len(in_hand') <= 1
           /\ async_read_called' \in BOOLEAN /\ clobbered' \in BOOLEAN
           /\ LoopIndex'
<1>1. stale \o in_hand \in Seq(Messages)
  BY ConcatProperties DEF TypeOK
<1>2. (IF async_read_called THEN <<Closed>> ELSE << >>) \in Seq(Messages)
  BY ReplyTypes, SingletonSeq, EmptySeq
<1>3. stale' \in Seq(Messages)
  <2>1. stale \in Seq(Messages) /\ in_hand \in Seq(Messages)
    BY DEF TypeOK
  <2> QED
    BY <1>1, <1>2, <2>1, ConcatProperties, ConcatAssociative DEF DropSession
<1>4. {<<sid, r>> : r \in Orders \cap Range(to_server)} \subseteq Nat \X Orders
  BY DEF TypeOK
<1> QED
  <2>1. orphans' \subseteq Nat \X Orders
    BY <1>4 DEF DropSession, TypeOK
  <2>2. in_hand' \in Seq(Messages) /\ Len(in_hand') <= 1
    BY EmptySeq DEF DropSession
  <2>3. to_server' \in Seq(Requests) /\ to_client' \in Seq(Replies)
    BY EmptySeq DEF DropSession
  <2> QED
    BY <1>3, <2>1, <2>2, <2>3 DEF DropSession, TypeOK, RunStates, LoopIndex

LEMMA InitType == Init => TypeInv
<1> SUFFICES ASSUME Init PROVE TypeInv
  OBVIOUS
<1>1. \A S : << >> \in Seq(S)
  BY EmptySeq
<1>2. Len(<< >>) = 0
  BY EmptySeq
<1>3. /\ outq \in Seq(Commands) /\ inq \in Seq(Messages) /\ waiting_resp_q \in Seq(Requests)
      /\ cb_q \in Seq([cb : Requests, resp : Replies])
      /\ in_hand \in Seq(Messages) /\ Len(in_hand) <= 1 /\ stale \in Seq(Messages)
      /\ to_server \in Seq(Requests) /\ to_client \in Seq(Replies)
  BY <1>1, <1>2 DEF Init
<1>4. answers \in [Orders -> Seq(Verdicts)] /\ executed \in [Orders -> Seq(Nat)]
  BY <1>1 DEF Init
<1> QED
  BY <1>3, <1>4 DEF Init, TypeInv, TypeOK, LoopIndex, RunStates

LEMMA AppType ==
    ASSUME TypeInv, RunCallback \/ \E r \in Orders : SendCmd(r)
    PROVE  TypeInv'
<1> USE DEF TypeInv, TypeOK, LoopIndex, app, run, io, net, exchange
<1>1. ASSUME NEW r \in Orders, SendCmd(r) PROVE TypeInv'
  <2>1. outq' \in Seq(Commands)
    BY <1>1, AppendProperties DEF SendCmd, Commands, Requests
  <2> QED
    BY <1>1, <2>1 DEF SendCmd
<1>2. CASE RunCallback
  <2>1. /\ cb_q' \in Seq([cb : Requests, resp : Replies])
        /\ Head(cb_q) \in [cb : Requests, resp : Replies]
    BY <1>2, HeadTailProperties DEF RunCallback
  <2>2. Head(cb_q).resp.verdict \in Verdicts
    BY <2>1 DEF Replies
  <2>3. \A r \in Orders : Append(answers[r], Head(cb_q).resp.verdict) \in Seq(Verdicts)
    BY <2>2, AppendProperties
  <2>4. answers' \in [Orders -> Seq(Verdicts)]
    BY <1>2, <2>3 DEF RunCallback
  <2> QED
    BY <1>2, <2>1, <2>4 DEF RunCallback
<1> QED
  BY <1>1, <1>2

LEMMA ConnectType ==
    ASSUME TypeInv, \/ NewSession \/ Connected \/ ConnectFailed \/ LoggedIn \/ LoginFailed
                    \/ Subscribe \/ ClearInq \/ Resend \/ ResendDone
    PROVE  TypeInv'
<1> USE DEF TypeInv, TypeOK, LoopIndex, RunStates, app, run, io, net, exchange
<1>1. CASE NewSession
  BY <1>1 DEF NewSession
<1>2. CASE Connected
  BY <1>2 DEF Connected
<1>3. CASE ConnectFailed
  BY <1>3 DEF ConnectFailed, Fault
<1>4. CASE LoggedIn
  BY <1>4 DEF LoggedIn
<1>5. CASE LoginFailed
  BY SMTT(30), <1>5, DropTypes DEF LoginFailed, Fault
<1>6. CASE Subscribe
  <2>1. k \in 1..Len(Subscriptions)
    BY <1>6, SubscriptionTypes DEF Subscribe
  <2>2. outq' \in Seq(Commands)
    BY <1>6, <2>1, SubscriptionTypes, AppendProperties DEF Subscribe
  <2> QED
    BY SMTT(30), <1>6, <2>2 DEF Subscribe
<1>7. CASE ClearInq
  <2>1. inq' \in Seq(Messages)
    BY <1>7, EmptySeq DEF ClearInq
  <2> QED
    BY <1>7, <2>1 DEF ClearInq
<1>8. CASE Resend
  <2>1. waiting_resp_q[k] \in Requests
    BY <1>8, ElementOfSeq, LenProperties DEF Resend
  <2>2. CASE Written(waiting_resp_q[k]) /\ k' = k + 1 /\ UNCHANGED pc
    <3>1. to_server' \in Seq(Requests)
      BY <2>1, <2>2, AppendProperties DEF Written
    <3> QED
      BY <1>8, <2>2, <3>1 DEF Resend, Written
  <2>3. CASE WriteThrows /\ UNCHANGED k
    BY <1>8, <2>3, DropTypes DEF Resend, WriteThrows
  <2> QED
    BY <1>8, <2>2, <2>3 DEF Resend
<1>9. CASE ResendDone
  BY <1>9 DEF ResendDone
<1> QED
  BY <1>1, <1>2, <1>3, <1>4, <1>5, <1>6, <1>7, <1>8, <1>9

LEMMA EraseType ==
    ASSUME TypeOK, NEW m \in Replies, NEW i \in DOMAIN waiting_resp_q, Erase(m, i)
    PROVE  /\ outq' \in Seq(Commands)
           /\ waiting_resp_q' \in Seq(Requests)
           /\ cb_q' \in Seq([cb : Requests, resp : Replies])
<1>1. i \in 1..Len(waiting_resp_q) /\ waiting_resp_q \in Seq(Requests)
  BY LenProperties DEF TypeOK
<1>2. waiting_resp_q[i] \in Requests
  BY <1>1, ElementOfSeq
<1>3. waiting_resp_q' \in Seq(Requests)
  BY <1>1, RemoveAtProperties DEF Erase
<1>4. outq' \in Seq(Commands)
  <2>1. waiting_resp_q[i] \in Commands
    BY <1>2 DEF Commands
  <2>2. Append(outq, waiting_resp_q[i]) \in Seq(Commands)
    BY <2>1, AppendProperties DEF TypeOK
  <2> QED
    BY <2>2 DEF Erase, TypeOK
<1>5. cb_q' \in Seq([cb : Requests, resp : Replies])
  <2>1. [cb |-> waiting_resp_q[i], resp |-> m] \in [cb : Requests, resp : Replies]
    BY <1>2
  <2>2. \A e \in [cb : Requests, resp : Replies] :
           Append(cb_q, e) \in Seq([cb : Requests, resp : Replies])
    BY AppendProperties DEF TypeOK
  <2>3. Append(cb_q, [cb |-> waiting_resp_q[i], resp |-> m])
           \in Seq([cb : Requests, resp : Replies])
    BY <2>1, <2>2
  <2> QED
    BY <2>3 DEF Erase, TypeOK
<1> QED
  BY <1>3, <1>4, <1>5

LEMMA LoopType ==
    ASSUME TypeInv, \/ StartRead \/ SendNext \/ CloseCommand \/ OutqEmpty
                    \/ ConnectionClosed \/ ParseIncomeData \/ KeepAlive \/ PingFailed
    PROVE  TypeInv'
<1> USE DEF TypeInv, TypeOK, LoopIndex, RunStates, app, run, io, net, exchange
<1>1. CASE StartRead
  <2>1. CASE UNCHANGED <<in_hand, clobbered, unread, faults>>
    BY <1>1, <2>1 DEF StartRead
  <2>2. CASE /\ in_hand # << >> /\ Fault /\ clobbered' = TRUE
             /\ UNCHANGED <<in_hand, unread>>
    BY <1>1, <2>2 DEF StartRead, Fault
  <2>3. CASE /\ in_hand # << >> /\ Fault /\ clobbered' = TRUE
             /\ in_hand[1].verdict # "closed"
             /\ in_hand' = <<Spoilt(in_hand[1])>>
             /\ unread' = unread \cup {in_hand[1].to}
    <3>1. in_hand[1] \in Replies
      BY <2>3, InHandTypes, ReplyTypes
    <3>2. Spoilt(in_hand[1]) \in Messages
      BY <3>1, ReplyTypes
    <3>3. in_hand' \in Seq(Messages) /\ Len(in_hand') <= 1
      BY <2>3, <3>2, SingletonSeq
    <3>4. in_hand[1].to \in Requests
      BY <3>1 DEF Replies
    <3> QED
      BY <1>1, <2>3, <3>3, <3>4 DEF StartRead, Fault
  <2> QED
    BY <1>1, <2>1, <2>2, <2>3 DEF StartRead
<1>2. CASE SendNext
  <2>1. /\ Head(outq) \in Requests
        /\ outq' \in Seq(Commands)
    BY <1>2, HeadTailProperties DEF SendNext, Commands
  <2>2. waiting_resp_q' \in Seq(Requests)
    BY <1>2, <2>1, AppendProperties DEF SendNext
  <2>3. CASE Written(Head(outq)) /\ UNCHANGED pc
    <3>1. to_server' \in Seq(Requests)
      BY <2>1, <2>3, AppendProperties DEF Written
    <3> QED
      BY <1>2, <2>1, <2>2, <2>3, <3>1 DEF SendNext, Written
  <2>4. CASE WriteThrows
    BY <1>2, <2>1, <2>2, <2>4, DropTypes DEF SendNext, WriteThrows
  <2> QED
    BY <1>2, <2>3, <2>4 DEF SendNext
<1>3. CASE CloseCommand
  <2>1. outq' \in Seq(Commands)
    BY <1>3, HeadTailProperties DEF CloseCommand
  <2> QED
    BY <1>3, <2>1, DropTypes DEF CloseCommand
<1>4. CASE OutqEmpty
  BY <1>4 DEF OutqEmpty
<1>5. CASE ConnectionClosed
  <2>1. inq' \in Seq(Messages)
    BY <1>5, HeadTailProperties DEF ConnectionClosed
  <2> QED
    BY <1>5, <2>1, DropTypes DEF ConnectionClosed
<1>6. CASE ParseIncomeData
  <2>1. inq' \in Seq(Messages) /\ Head(inq) \in Replies
    BY <1>6, HeadTailProperties, ReplyTypes DEF ParseIncomeData
  <2>2. Append(outq, Close) \in Seq(Commands)
    BY AppendProperties DEF Commands
  <2>3. /\ outq' \in Seq(Commands)
        /\ waiting_resp_q' \in Seq(Requests)
        /\ cb_q' \in Seq([cb : Requests, resp : Replies])
    BY <1>6, <2>1, <2>2, EraseType DEF ParseIncomeData
  <2> QED
    BY <1>6, <2>1, <2>3 DEF ParseIncomeData
<1>7. CASE KeepAlive
  BY <1>7 DEF KeepAlive
<1>8. CASE PingFailed
  BY SMTT(30), <1>8, DropTypes DEF PingFailed, Fault
<1> QED
  BY <1>1, <1>2, <1>3, <1>4, <1>5, <1>6, <1>7, <1>8

LEMMA IoType ==
    ASSUME TypeInv, IoThread
    PROVE  TypeInv'
<1> USE DEF TypeInv, TypeOK, LoopIndex, app, run, io, net, exchange
<1>1. CASE ReadDone
  <2>1. CASE /\ to_client # << >>
             /\ to_client' = Tail(to_client)
             /\ \E n \in (IF clobbered THEN Clobber(Head(to_client)) ELSE {Head(to_client)}) :
                  /\ in_hand' = <<n>>
                  /\ unread' = IF n # Head(to_client) /\ n # Closed
                               THEN unread \cup {Head(to_client).to} ELSE unread
    <3>1. Head(to_client) \in Replies /\ to_client' \in Seq(Replies)
      BY <2>1, HeadTailProperties
    <3>2. Head(to_client).to \in Requests /\ Head(to_client) \in Messages
      BY <3>1, ReplyTypes DEF Replies
    <3>3. in_hand' \in Seq(Messages) /\ Len(in_hand') <= 1
      BY <2>1, <3>1, <3>2, ReplyTypes, SingletonSeq
    <3>4. unread' \subseteq Requests
      BY <2>1, <3>2
    <3> QED
      BY <1>1, <3>1, <3>3, <3>4 DEF ReadDone
  <2>2. CASE /\ link = "reset"
             /\ in_hand' = <<Closed>>
             /\ UNCHANGED <<to_client, unread>>
    <3>1. in_hand' \in Seq(Messages) /\ Len(in_hand') <= 1
      BY <2>2, ReplyTypes, SingletonSeq
    <3> QED
      BY <1>1, <2>2, <3>1 DEF ReadDone
  <2> QED
    BY <1>1, <2>1, <2>2 DEF ReadDone
<1>2. CASE ReadCallback
  <2>1. inq' \in Seq(Messages)
    BY <1>2, InHandTypes, AppendProperties DEF ReadCallback
  <2>2. in_hand' \in Seq(Messages) /\ Len(in_hand') <= 1
    BY <1>2, EmptySeq DEF ReadCallback
  <2> QED
    BY <1>2, <2>1, <2>2 DEF ReadCallback
<1>3. CASE StaleCallback
  <2>1. Head(stale) \in Messages /\ stale' \in Seq(Messages)
    BY <1>3, HeadTailProperties DEF StaleCallback
  <2>2. Append(inq, Head(stale)) \in Seq(Messages)
    BY <2>1, AppendProperties
  <2>3. inq' \in Seq(Messages)
    BY <1>3, <2>2 DEF StaleCallback
  <2> QED
    BY <1>3, <2>1, <2>3 DEF StaleCallback
<1> QED
  BY <1>1, <1>2, <1>3 DEF IoThread

LEMMA ServerType ==
    ASSUME TypeInv, ServerReplies
    PROVE  TypeInv'
<1> USE DEF TypeInv, TypeOK, LoopIndex, app, run, io, net, exchange
<1>1. Head(to_server) \in Requests /\ to_server' \in Seq(Requests)
  BY HeadTailProperties DEF ServerReplies
<1>2. PICK v \in VerdictsFor(Head(to_server)) :
        /\ to_client' = Append(to_client, Reply(Head(to_server), v))
        /\ IF v \in {"ok", "error"} THEN UNCHANGED faults ELSE Fault
        /\ executed' = [r \in Orders |-> IF r = Head(to_server) /\ Executes(v)
                                         THEN Append(executed[r], sid) ELSE executed[r]]
        /\ settled' = IF Head(to_server) \in Subs /\ v \in {"ok", "error"}
                      THEN settled \cup {Head(to_server)} ELSE settled
        /\ unread' = IF v \in {"relogin", "unreadable", "rejected"}
                     THEN unread \cup {Head(to_server)} ELSE unread
  BY DEF ServerReplies
<1>3. v \in Verdicts
  BY DEF VerdictsFor, Verdicts, OrderVerdicts, SubVerdicts
<1>4. to_client' \in Seq(Replies)
  BY <1>1, <1>2, <1>3, ReplyTypes, AppendProperties
<1>5. executed' \in [Orders -> Seq(Nat)]
  <2>1. \A r \in Orders : Append(executed[r], sid) \in Seq(Nat)
    BY AppendProperties
  <2> QED
    BY <1>2, <2>1
<1>6. faults' \in Nat
  BY <1>2 DEF Fault
<1>7. settled' \subseteq Subs /\ unread' \subseteq Requests
  BY <1>1, <1>2
<1> QED
  BY <1>1, <1>4, <1>5, <1>6, <1>7 DEF ServerReplies

LEMMA NetworkType ==
    ASSUME TypeInv, OrphanExecuted \/ LinkLost
    PROVE  TypeInv'
<1> USE DEF TypeInv, TypeOK, LoopIndex, app, run, io, net, exchange
<1>1. CASE OrphanExecuted
  <2>1. PICK o \in orphans : /\ orphans' = orphans \ {o}
                            /\ executed' = [executed EXCEPT ![o[2]] = Append(@, o[1])]
    BY <1>1 DEF OrphanExecuted
  <2>2. o[1] \in Nat /\ o[2] \in Orders
    OBVIOUS
  <2>3. Append(executed[o[2]], o[1]) \in Seq(Nat)
    BY <2>2, AppendProperties
  <2>4. executed' \in [Orders -> Seq(Nat)]
    BY <2>1, <2>3
  <2> QED
    BY <1>1, <2>1, <2>4 DEF OrphanExecuted
<1>2. CASE LinkLost
  <2>1. orphans' \subseteq Nat \X Orders
    BY <1>2 DEF LinkLost
  <2>2. to_server' \in Seq(Requests)
    BY <1>2, EmptySeq DEF LinkLost
  <2> QED
    BY <1>2, <2>1, <2>2 DEF LinkLost, Fault
<1> QED
  BY <1>1, <1>2

LEMMA NextType == TypeInv /\ [Next]_vars => TypeInv'
<1> SUFFICES ASSUME TypeInv, [Next]_vars PROVE TypeInv'
  OBVIOUS
<1>1. CASE UNCHANGED vars
  BY <1>1 DEF vars, app, run, io, net, exchange, TypeInv, TypeOK, LoopIndex
<1>2. CASE Next
  BY <1>2, AppType, ConnectType, LoopType, IoType, ServerType, NetworkType
     DEF Next, RunThread
<1> QED
  BY <1>1, <1>2

\* Every variable of the channel keeps its type, and the loops that index
\* Subscriptions and waiting_resp_q_ never start before the first entry.
THEOREM TypeCorrect == Spec => []TypeOK
<1>1. TypeInv => TypeOK
  BY DEF TypeInv
<1> QED
  BY <1>1, InitType, NextType, PTL DEF Spec

-----------------------------------------------------------------------------
(* Conservation of orders.  An order is in exactly one of five conditions, *)
(* which say of every queue whether it holds the order once or not at all; *)
(* the proof follows the order from one to the next.                       *)

Absent(s, r) == \A i \in DOMAIN s : s[i] # r
Once(s, r) == \E i \in DOMAIN s : s[i] = r /\ \A j \in DOMAIN s : s[j] = r => j = i

\* The requests whose callbacks wait in cb_q.
Called == [i \in DOMAIN cb_q |-> cb_q[i].cb]

Unsent(r) == /\ r \notin submitted
             /\ Absent(outq, r) /\ Absent(waiting_resp_q, r) /\ Absent(Called, r)
             /\ answers[r] = << >>
Queued(r) == /\ r \in submitted
             /\ Once(outq, r) /\ Absent(waiting_resp_q, r) /\ Absent(Called, r)
             /\ answers[r] = << >>
Waits(r) == /\ r \in submitted
            /\ Absent(outq, r) /\ Once(waiting_resp_q, r) /\ Absent(Called, r)
            /\ answers[r] = << >>
Returning(r) == /\ r \in submitted
                /\ Absent(outq, r) /\ Absent(waiting_resp_q, r) /\ Once(Called, r)
                /\ answers[r] = << >>
Answered(r) == /\ r \in submitted
               /\ Absent(outq, r) /\ Absent(waiting_resp_q, r) /\ Absent(Called, r)
               /\ Len(answers[r]) = 1

Conserved(r) == Unsent(r) \/ Queued(r) \/ Waits(r) \/ Returning(r) \/ Answered(r)

ConservedInv == TypeInv /\ \A r \in Orders : Conserved(r)

LEMMA AppendOccurs ==
    ASSUME NEW S, NEW s \in Seq(S), NEW e \in S, NEW r
    PROVE  /\ Absent(s, r) /\ e = r => Once(Append(s, e), r)
           /\ Absent(s, r) /\ e # r => Absent(Append(s, e), r)
           /\ Once(s, r) /\ e # r => Once(Append(s, e), r)
<1> DEFINE t == Append(s, e)
<1>1. /\ Len(s) \in Nat /\ DOMAIN s = 1..Len(s)
      /\ t \in Seq(S) /\ Len(t) = Len(s) + 1 /\ DOMAIN t = 1..(Len(s) + 1)
      /\ \A i \in 1..Len(s) : t[i] = s[i]
      /\ t[Len(s) + 1] = e
  BY AppendProperties, LenProperties
<1> HIDE DEF t
<1>2. \A i \in DOMAIN t : i \in DOMAIN s \/ i = Len(s) + 1
  BY <1>1
<1>3. \A i \in DOMAIN s : i \in DOMAIN t /\ i # Len(s) + 1
  BY <1>1
<1>4. Len(s) + 1 \in DOMAIN t
  BY <1>1
<1>5. /\ Absent(s, r) /\ e = r => Once(t, r)
      /\ Absent(s, r) /\ e # r => Absent(t, r)
      /\ Once(s, r) /\ e # r => Once(t, r)
  BY <1>1, <1>2, <1>3, <1>4 DEF Absent, Once
<1> QED
  BY <1>5 DEF t

LEMMA TailOccurs ==
    ASSUME NEW S, NEW s \in Seq(S), s # << >>, NEW r
    PROVE  /\ Absent(s, r) => Head(s) # r /\ Absent(Tail(s), r)
           /\ Once(s, r) /\ Head(s) = r => Absent(Tail(s), r)
           /\ Once(s, r) /\ Head(s) # r => Once(Tail(s), r)
<1> DEFINE t == Tail(s)
<1>1. /\ Len(s) \in Nat /\ Len(s) >= 1 /\ DOMAIN s = 1..Len(s)
      /\ DOMAIN t = 1..(Len(s) - 1)
      /\ \A i \in 1..(Len(s) - 1) : t[i] = s[i + 1]
  BY HeadTailProperties, LenProperties, EmptySeq
<1>2. Head(s) = s[1] /\ 1 \in DOMAIN s
  BY <1>1
<1> HIDE DEF t
<1>3. \A i \in DOMAIN t : i + 1 \in DOMAIN s /\ i + 1 # 1 /\ t[i] = s[i + 1]
  BY <1>1
<1>4. \A i \in DOMAIN s : i # 1 => i - 1 \in DOMAIN t /\ t[i - 1] = s[i]
  BY <1>1
<1>5. \A i \in DOMAIN t, j \in DOMAIN s : i + 1 = j => i = j - 1
  BY <1>1
<1>6. /\ Absent(s, r) => Head(s) # r /\ Absent(t, r)
      /\ Once(s, r) /\ Head(s) = r => Absent(t, r)
  BY <1>2, <1>3 DEF Absent, Once
<1>7. Once(s, r) /\ Head(s) # r => Once(t, r)
  BY <1>2, <1>3, <1>4, <1>5 DEF Once
<1> QED
  BY <1>6, <1>7 DEF t

LEMMA RemoveAtOccurs ==
    ASSUME NEW S, NEW s \in Seq(S), NEW i \in DOMAIN s, NEW r
    PROVE  /\ Absent(s, r) => s[i] # r /\ Absent(RemoveAt(s, i), r)
           /\ Once(s, r) /\ s[i] = r => Absent(RemoveAt(s, i), r)
           /\ Once(s, r) /\ s[i] # r => Once(RemoveAt(s, i), r)
<1> DEFINE t == RemoveAt(s, i)
           Old(j) == IF j < i THEN j ELSE j + 1
           New(j) == IF j < i THEN j ELSE j - 1
<1>1. /\ Len(s) \in Nat /\ DOMAIN s = 1..Len(s) /\ i \in 1..Len(s)
      /\ t \in Seq(S) /\ Len(t) = Len(s) - 1
      /\ \A j \in 1..(Len(s) - 1) : t[j] = IF j < i THEN s[j] ELSE s[j + 1]
  BY RemoveAtProperties, LenProperties
<1>2. DOMAIN t = 1..(Len(s) - 1)
  BY <1>1, LenProperties
<1> HIDE DEF t
<1>3. \A j \in DOMAIN t : Old(j) \in DOMAIN s /\ Old(j) # i /\ t[j] = s[Old(j)]
  BY <1>1, <1>2
<1>4. \A j \in DOMAIN s : j # i => New(j) \in DOMAIN t /\ t[New(j)] = s[j]
  BY <1>1, <1>2
<1>5. \A j \in DOMAIN t, l \in DOMAIN s : Old(j) = l => j = New(l)
  BY <1>1, <1>2
<1> HIDE DEF Old, New
<1>6. /\ Absent(s, r) => s[i] # r /\ Absent(t, r)
      /\ Once(s, r) /\ s[i] = r => Absent(t, r)
  BY <1>3 DEF Absent, Once
<1>7. Once(s, r) /\ s[i] # r => Once(t, r)
  BY <1>3, <1>4, <1>5 DEF Once
<1> QED
  BY <1>6, <1>7 DEF t

\* Called follows cb_q.
LEMMA CalledType ==
    ASSUME TypeOK
    PROVE  /\ Called \in Seq(Requests) /\ Len(Called) = Len(cb_q)
           /\ \A i \in 1..Len(cb_q) : Called[i] = cb_q[i].cb
<1>1. /\ cb_q \in Seq([cb : Requests, resp : Replies])
      /\ Len(cb_q) \in Nat /\ DOMAIN cb_q = 1..Len(cb_q)
  BY LenProperties DEF TypeOK
<1>2. \A i \in 1..Len(cb_q) : cb_q[i].cb \in Requests
  <2>1. \A i \in 1..Len(cb_q) : cb_q[i] \in [cb : Requests, resp : Replies]
    BY <1>1, ElementOfSeq
  <2> QED
    BY <2>1
<1>3. Called = [i \in 1..Len(cb_q) |-> cb_q[i].cb]
  BY <1>1 DEF Called
<1>4. Called \in Seq(Requests)
  BY <1>1, <1>2, <1>3, IsASeq
<1> QED
  BY <1>1, <1>3, <1>4, LenProperties

LEMMA CalledAppend ==
    ASSUME TypeOK, TypeOK', NEW e \in [cb : Requests, resp : Replies],
           cb_q' = Append(cb_q, e)
    PROVE  Called' = Append(Called, e.cb)
<1>1. /\ Called \in Seq(Requests) /\ Called' \in Seq(Requests)
      /\ Len(Called) = Len(cb_q) /\ Len(Called') = Len(cb_q')
      /\ \A i \in 1..Len(cb_q) : Called[i] = cb_q[i].cb
      /\ \A i \in 1..Len(cb_q') : Called'[i] = cb_q'[i].cb
  <2>1. TypeOK' => (/\ Called \in Seq(Requests) /\ Len(Called) = Len(cb_q)
                    /\ \A i \in 1..Len(cb_q) : Called[i] = cb_q[i].cb)'
    BY CalledType, PTL
  <2> QED
    BY <2>1, CalledType
<1>2. /\ Len(cb_q) \in Nat /\ Len(cb_q') = Len(cb_q) + 1
      /\ \A i \in 1..Len(cb_q) : cb_q'[i] = cb_q[i]
      /\ cb_q'[Len(cb_q) + 1] = e
  BY AppendProperties, LenProperties DEF TypeOK
<1>3. e.cb \in Requests
  OBVIOUS
<1>4. /\ Append(Called, e.cb) \in Seq(Requests)
      /\ Len(Append(Called, e.cb)) = Len(Called) + 1
      /\ \A i \in 1..Len(Called) : Append(Called, e.cb)[i] = Called[i]
      /\ Append(Called, e.cb)[Len(Called) + 1] = e.cb
  BY <1>1, <1>3, AppendProperties
<1>5. \A i \in 1..Len(Called') : Called'[i] = Append(Called, e.cb)[i]
  BY <1>1, <1>2, <1>4
<1> QED
  BY <1>1, <1>2, <1>4, <1>5, SeqEqual

LEMMA CalledTail ==
    ASSUME TypeOK, TypeOK', cb_q # << >>, cb_q' = Tail(cb_q)
    PROVE  Called # << >> /\ Head(Called) = Head(cb_q).cb /\ Called' = Tail(Called)
<1>1. /\ Called \in Seq(Requests) /\ Called' \in Seq(Requests)
      /\ Len(Called) = Len(cb_q) /\ Len(Called') = Len(cb_q')
      /\ \A i \in 1..Len(cb_q) : Called[i] = cb_q[i].cb
      /\ \A i \in 1..Len(cb_q') : Called'[i] = cb_q'[i].cb
  <2>1. TypeOK' => (/\ Called \in Seq(Requests) /\ Len(Called) = Len(cb_q)
                    /\ \A i \in 1..Len(cb_q) : Called[i] = cb_q[i].cb)'
    BY CalledType, PTL
  <2> QED
    BY <2>1, CalledType
<1>2. /\ Len(cb_q) \in Nat /\ Len(cb_q) >= 1 /\ Len(cb_q') = Len(cb_q) - 1
      /\ \A i \in 1..(Len(cb_q) - 1) : cb_q'[i] = cb_q[i + 1]
  BY HeadTailProperties, LenProperties, EmptySeq DEF TypeOK
<1>3. Called # << >> /\ Head(cb_q) = cb_q[1] /\ Head(Called) = Called[1]
  BY <1>1, <1>2, EmptySeq
<1>4. /\ Tail(Called) \in Seq(Requests) /\ Len(Tail(Called)) = Len(Called) - 1
      /\ \A i \in 1..(Len(Called) - 1) : Tail(Called)[i] = Called[i + 1]
  BY <1>1, <1>3, HeadTailProperties
<1>5. \A i \in 1..Len(Called') : Called'[i] = Tail(Called)[i]
  BY <1>1, <1>2, <1>4
<1>6. Called' = Tail(Called)
  BY <1>1, <1>2, <1>4, <1>5, SeqEqual
<1> QED
  BY <1>1, <1>2, <1>3, <1>6

\* Most actions move no order.
LEMMA Untouched ==
    ASSUME NEW r \in Orders, Conserved(r),
           UNCHANGED <<submitted, answers, outq, waiting_resp_q, cb_q>>
    PROVE  Conserved(r)'
BY DEF Conserved, Unsent, Queued, Waits, Returning, Answered, Called

\* sendCmd takes an order from Unsent to Queued; other orders stay.
LEMMA SendCmdConserves ==
    ASSUME TypeOK, NEW r \in Orders, Conserved(r), NEW o \in Orders, SendCmd(o)
    PROVE  Conserved(r)'
<1>1. /\ Absent(outq, r) /\ o = r => Once(outq', r)
      /\ Absent(outq, r) /\ o # r => Absent(outq', r)
      /\ Once(outq, r) /\ o # r => Once(outq', r)
  <2>1. outq \in Seq(Commands)
    BY DEF TypeOK
  <2>2. o \in Commands
    BY DEF Commands, Requests
  <2>3. outq' = Append(outq, o)
    BY DEF SendCmd
  <2> QED
    BY <2>1, <2>2, <2>3, AppendOccurs
<1>2. /\ o \notin submitted /\ submitted' = submitted \cup {o}
      /\ UNCHANGED <<answers, waiting_resp_q, Called>>
  BY DEF SendCmd, Called
<1> QED
  BY <1>1, <1>2 DEF Conserved, Unsent, Queued, Waits, Returning, Answered

\* The callback thread takes an order from Returning to Answered.
LEMMA RunCallbackConserves ==
    ASSUME TypeOK, TypeOK', NEW r \in Orders, Conserved(r), RunCallback
    PROVE  Conserved(r)'
<1>1. Called # << >> /\ Head(Called) = Head(cb_q).cb /\ Called' = Tail(Called)
  BY CalledTail DEF RunCallback
<1>2. Called \in Seq(Requests)
  BY CalledType
<1>3. /\ Absent(Called, r) => Head(Called) # r /\ Absent(Called', r)
      /\ Once(Called, r) /\ Head(Called) = r => Absent(Called', r)
      /\ Once(Called, r) /\ Head(Called) # r => Once(Called', r)
  BY <1>1, <1>2, TailOccurs
<1>4. /\ Head(Called) # r => answers'[r] = answers[r]
      /\ Head(Called) = r => answers'[r] = Append(answers[r], Head(cb_q).resp.verdict)
  BY <1>1 DEF RunCallback
<1>5. answers[r] = << >> => Len(Append(answers[r], Head(cb_q).resp.verdict)) = 1
  BY DEF TypeOK
<1>6. UNCHANGED <<submitted, outq, waiting_resp_q>>
  BY DEF RunCallback
<1> QED
  BY <1>3, <1>4, <1>5, <1>6 DEF Conserved, Unsent, Queued, Waits, Returning, Answered

\* SendNext takes an order from Queued to Waits, whether or not the write throws.
LEMMA SendNextConserves ==
    ASSUME TypeOK, NEW r \in Orders, Conserved(r), SendNext
    PROVE  Conserved(r)'
<1>1. /\ Absent(outq, r) => Head(outq) # r /\ Absent(outq', r)
      /\ Once(outq, r) /\ Head(outq) = r => Absent(outq', r)
      /\ Once(outq, r) /\ Head(outq) # r => Once(outq', r)
  BY TailOccurs DEF SendNext, TypeOK
<1>2. Head(outq) \in Requests
  BY HeadTailProperties DEF SendNext, TypeOK, Commands
<1>3. /\ Absent(waiting_resp_q, r) /\ Head(outq) = r => Once(waiting_resp_q', r)
      /\ Absent(waiting_resp_q, r) /\ Head(outq) # r => Absent(waiting_resp_q', r)
      /\ Once(waiting_resp_q, r) /\ Head(outq) # r => Once(waiting_resp_q', r)
  BY <1>2, AppendOccurs DEF SendNext, TypeOK
<1>4. UNCHANGED <<submitted, answers, Called>>
  BY DEF SendNext, app, Called
<1> QED
  BY <1>1, <1>3, <1>4 DEF Conserved, Unsent, Queued, Waits, Returning, Answered

\* What is queued or taken from outq_ beside the orders moves none of them.
LEMMA OutqConserves ==
    ASSUME TypeOK, NEW r \in Orders, Conserved(r), UNCHANGED <<app, waiting_resp_q, cb_q>>,
           \/ \E c \in Commands \ Orders : outq' = Append(outq, c)
           \/ outq # << >> /\ Head(outq) \notin Orders /\ outq' = Tail(outq)
    PROVE  Conserved(r)'
<1>0. outq \in Seq(Commands)
  BY DEF TypeOK
<1>1. (Absent(outq, r) => Absent(outq', r)) /\ (Once(outq, r) => Once(outq', r))
  <2>1. CASE \E c \in Commands \ Orders : outq' = Append(outq, c)
    <3>1. PICK c \in Commands : c \notin Orders /\ outq' = Append(outq, c)
      BY <2>1
    <3>2. c # r
      BY <3>1
    <3> QED
      BY <1>0, <3>1, <3>2, AppendOccurs
  <2>2. CASE outq # << >> /\ Head(outq) \notin Orders /\ outq' = Tail(outq)
    <3>1. Head(outq) # r
      BY <2>2
    <3> QED
      BY <1>0, <2>2, <3>1, TailOccurs
  <2> QED
    BY <2>1, <2>2
<1>2. UNCHANGED <<submitted, answers, Called>>
  BY DEF app, Called
<1> QED
  BY <1>1, <1>2 DEF Conserved, Unsent, Queued, Waits, Returning, Answered

\* The erase takes an order from Waits to Queued (busy) or Returning.
LEMMA EraseConserves ==
    ASSUME TypeOK, TypeOK', NEW r \in Orders, Conserved(r), UNCHANGED app,
           NEW m \in Replies, NEW i \in DOMAIN waiting_resp_q, Erase(m, i)
    PROVE  Conserved(r)'
<1> DEFINE c == waiting_resp_q[i]
<1>1. c \in Requests
  BY ElementOfSeq, LenProperties DEF TypeOK
<1>2. /\ Absent(waiting_resp_q, r) => c # r /\ Absent(waiting_resp_q', r)
      /\ Once(waiting_resp_q, r) /\ c = r => Absent(waiting_resp_q', r)
      /\ Once(waiting_resp_q, r) /\ c # r => Once(waiting_resp_q', r)
  BY RemoveAtOccurs DEF Erase, TypeOK
<1> HIDE DEF c
<1>3. UNCHANGED <<submitted, answers>>
  BY DEF app
<1>4. CASE outq' = Append(outq, c) /\ UNCHANGED cb_q
  <2>1. /\ Absent(outq, r) /\ c = r => Once(outq', r)
        /\ Absent(outq, r) /\ c # r => Absent(outq', r)
        /\ Once(outq, r) /\ c # r => Once(outq', r)
    <3>1. outq \in Seq(Commands)
      BY DEF TypeOK
    <3>2. c \in Commands
      BY <1>1 DEF Commands
    <3> QED
      BY <1>4, <3>1, <3>2, AppendOccurs
  <2>2. UNCHANGED Called
    BY <1>4 DEF Called
  <2> QED
    BY <1>2, <1>3, <2>1, <2>2 DEF Conserved, Unsent, Queued, Waits, Returning, Answered
<1>5. CASE cb_q' = Append(cb_q, [cb |-> c, resp |-> m]) /\ UNCHANGED outq
  <2>1. [cb |-> c, resp |-> m] \in [cb : Requests, resp : Replies]
    BY <1>1
  <2>2. Called' = Append(Called, [cb |-> c, resp |-> m].cb)
    BY <1>5, <2>1, CalledAppend
  <2>3. Called' = Append(Called, c) /\ Called \in Seq(Requests)
    BY <2>2, CalledType
  <2>4. /\ Absent(Called, r) /\ c = r => Once(Called', r)
        /\ Absent(Called, r) /\ c # r => Absent(Called', r)
        /\ Once(Called, r) /\ c # r => Once(Called', r)
    BY <1>1, <2>3, AppendOccurs
  <2> QED
    BY <1>2, <1>3, <1>5, <2>4 DEF Conserved, Unsent, Queued, Waits, Returning, Answered
<1> QED
  BY <1>4, <1>5 DEF Erase, c

\* parseIncomeData moves an order only by the erase: a demand to log in again
\* queues Close.
LEMMA ParseConserves ==
    ASSUME TypeOK, TypeOK', NEW r \in Orders, Conserved(r), ParseIncomeData
    PROVE  Conserved(r)'
<1> DEFINE m == Head(inq)
<1>1. inq # << >> /\ m.verdict # "closed" /\ UNCHANGED app
  BY DEF ParseIncomeData
<1>2. m \in Replies
  <2>1. m \in Messages
    BY <1>1, HeadTailProperties DEF TypeOK
  <2> QED
    BY <1>1, <2>1 DEF Messages
<1>3. \/ outq' = Append(outq, Close) /\ UNCHANGED <<waiting_resp_q, cb_q>>
      \/ UNCHANGED <<outq, waiting_resp_q, cb_q>>
      \/ \E i \in DOMAIN waiting_resp_q : Erase(m, i)
  BY DEF ParseIncomeData
<1> HIDE DEF m
<1>4. CASE outq' = Append(outq, Close) /\ UNCHANGED <<waiting_resp_q, cb_q>>
  <2>1. Close \in Commands \ Orders
    BY CommandsApart DEF Commands, Requests
  <2> QED
    BY <1>1, <1>4, <2>1, OutqConserves
<1>5. CASE UNCHANGED <<outq, waiting_resp_q, cb_q>>
  BY <1>1, <1>5, Untouched DEF app
<1>6. CASE \E i \in DOMAIN waiting_resp_q : Erase(m, i)
  BY <1>1, <1>2, <1>6, EraseConserves
<1> QED
  BY <1>3, <1>4, <1>5, <1>6

\* onConnected queues subscriptions, which are no orders.
LEMMA SubscribeConserves ==
    ASSUME TypeInv, NEW r \in Orders, Conserved(r), Subscribe
    PROVE  Conserved(r)'
<1> DEFINE c == Subscriptions[k]
<1>1. outq' = Append(outq, c) /\ UNCHANGED <<app, waiting_resp_q, cb_q>> /\ TypeOK
  BY DEF Subscribe, TypeInv
<1>2. c \in Subs
  <2>1. k \in Nat /\ k >= 1 /\ k <= Len(Subscriptions)
    BY DEF Subscribe, TypeInv, TypeOK, LoopIndex
  <2> QED
    BY <2>1, SubscriptionsSeq, ElementOfSeq
<1>3. c \in Commands \ Orders
  BY <1>2, CommandsApart DEF Commands, Requests
<1> QED
  BY <1>1, <1>3, OutqConserves

LEMMA InitConserved == Init => \A r \in Orders : Conserved(r)
<1> SUFFICES ASSUME Init, NEW r \in Orders
             PROVE  Unsent(r)
  BY DEF Conserved
<1>1. \A e : Absent(<< >>, e)
  BY DEF Absent
<1>2. Called = << >>
  BY DEF Init, Called
<1> QED
  BY <1>1, <1>2 DEF Init, Unsent

LEMMA NextConserved == ConservedInv /\ [Next]_vars => ConservedInv'
<1> SUFFICES ASSUME ConservedInv, [Next]_vars
             PROVE  ConservedInv'
  OBVIOUS
<1>1. TypeInv /\ TypeInv' /\ TypeOK /\ TypeOK'
  BY NextType DEF ConservedInv, TypeInv
<1>2. ASSUME NEW r \in Orders
      PROVE  Conserved(r)'
  <2>1. Conserved(r)
    BY DEF ConservedInv
  <2>2. ASSUME NEW o \in Orders, SendCmd(o) PROVE Conserved(r)'
    BY <1>1, <2>1, <2>2, SendCmdConserves
  <2>3. CASE RunCallback
    BY <1>1, <2>1, <2>3, RunCallbackConserves
  <2>4. CASE Subscribe
    BY <1>1, <2>1, <2>4, SubscribeConserves
  <2>5. CASE SendNext
    BY <1>1, <2>1, <2>5, SendNextConserves
  <2>6. CASE CloseCommand
    <3>1. outq # << >> /\ Head(outq) \notin Orders /\ outq' = Tail(outq)
      BY <2>6, CommandsApart DEF CloseCommand, Requests
    <3> QED
      BY <1>1, <2>1, <2>6, <3>1, OutqConserves DEF CloseCommand
  <2>7. CASE ParseIncomeData
    BY <1>1, <2>1, <2>7, ParseConserves
  <2>8. CASE NewSession \/ Connected \/ ConnectFailed \/ LoggedIn \/ LoginFailed
    BY <2>1, <2>8, Untouched
       DEF NewSession, Connected, ConnectFailed, LoggedIn, LoginFailed, app
  <2>9. CASE ClearInq \/ Resend \/ ResendDone
    BY <2>1, <2>9, Untouched DEF ClearInq, Resend, ResendDone, app
  <2>10. CASE StartRead \/ OutqEmpty \/ ConnectionClosed \/ KeepAlive \/ PingFailed
    BY <2>1, <2>10, Untouched
       DEF StartRead, OutqEmpty, ConnectionClosed, KeepAlive, PingFailed, app
  <2>11. CASE IoThread
    BY <2>1, <2>11, Untouched DEF IoThread, ReadDone, ReadCallback, StaleCallback, app
  <2>12. CASE ServerReplies \/ OrphanExecuted \/ LinkLost
    BY <2>1, <2>12, Untouched DEF ServerReplies, OrphanExecuted, LinkLost, app
  <2>13. CASE UNCHANGED vars
    BY <2>1, <2>13, Untouched DEF vars, app
  <2> QED
    BY <2>2, <2>3, <2>4, <2>5, <2>6, <2>7, <2>8, <2>9, <2>10, <2>11, <2>12, <2>13
       DEF Next, RunThread
<1> QED
  BY <1>1, <1>2 DEF ConservedInv

\* The places with tag t of a set of positions.
Places(t, D) == {<<t, i>> : i \in D}

LEMMA NoPlace ==
    ASSUME NEW t, NEW D, D = {}
    PROVE  Places(t, D) = {}
BY DEF Places

LEMMA OnePlace ==
    ASSUME NEW t, NEW D, \E x : D = {x}
    PROVE  \E p : Places(t, D) = {p}
<1>1. PICK x : D = {x}
  OBVIOUS
<1>2. Places(t, D) = {<<t, x>>}
  BY <1>1 DEF Places
<1> QED
  BY <1>2

\* Each condition fixes the places of the order.
LEMMA PlacesConserved == ConservedInv => RequestConserved
<1> SUFFICES ASSUME ConservedInv, NEW r \in Orders
             PROVE  IF r \in submitted THEN \E p \in PlacesOf(r) : PlacesOf(r) = {p}
                                       ELSE PlacesOf(r) = {}
  BY DEF RequestConserved
<1> DEFINE OutAt == {j \in DOMAIN outq : outq[j] = r}
           WaitAt == {j \in DOMAIN waiting_resp_q : waiting_resp_q[j] = r}
           BackAt == {j \in DOMAIN cb_q : cb_q[j].cb = r}
           Out == Places("outq", OutAt)
           Wait == Places("waiting", WaitAt)
           Back == Places("callback", BackAt)
           Done == Places("answered", DOMAIN answers[r])
<1>1. PlacesOf(r) = Out \cup Wait \cup Back \cup Done
  BY DEF PlacesOf, Places
<1>2. /\ Absent(outq, r) => Out = {}
      /\ Once(outq, r) => \E p : Out = {p}
  <2>1. /\ Absent(outq, r) => OutAt = {}
        /\ Once(outq, r) => \E x : OutAt = {x}
    BY DEF Absent, Once
  <2> HIDE DEF OutAt
  <2> QED
    BY <2>1, NoPlace, OnePlace
<1>3. /\ Absent(waiting_resp_q, r) => Wait = {}
      /\ Once(waiting_resp_q, r) => \E p : Wait = {p}
  <2>1. /\ Absent(waiting_resp_q, r) => WaitAt = {}
        /\ Once(waiting_resp_q, r) => \E x : WaitAt = {x}
    BY DEF Absent, Once
  <2> HIDE DEF WaitAt
  <2> QED
    BY <2>1, NoPlace, OnePlace
<1>4. /\ Absent(Called, r) => Back = {}
      /\ Once(Called, r) => \E p : Back = {p}
  <2>1. /\ Absent(Called, r) => BackAt = {}
        /\ Once(Called, r) => \E x : BackAt = {x}
    BY DEF Absent, Once, Called
  <2> HIDE DEF BackAt
  <2> QED
    BY <2>1, NoPlace, OnePlace
<1>5. /\ answers[r] = << >> => Done = {}
      /\ Len(answers[r]) = 1 => \E p : Done = {p}
  <2>1. answers[r] \in Seq(Verdicts)
    BY DEF ConservedInv, TypeInv, TypeOK
  <2>2. DOMAIN answers[r] = 1..Len(answers[r])
    BY <2>1, LenProperties
  <2>3. Len(answers[r]) = 1 => \E x : DOMAIN answers[r] = {x}
    <3>1. Len(answers[r]) = 1 => DOMAIN answers[r] = {1}
      BY <2>2
    <3> QED
      BY <3>1
  <2>4. answers[r] = << >> => DOMAIN answers[r] = {}
    BY <2>2
  <2> QED
    BY <2>3, <2>4, NoPlace, OnePlace
<1> HIDE DEF Out, Wait, Back, Done
<1>6. Conserved(r)
  BY DEF ConservedInv
<1> QED
  BY <1>1, <1>2, <1>3, <1>4, <1>5, <1>6
     DEF Conserved, Unsent, Queued, Waits, Returning, Answered

\* RequestConserved: for any number of orders, subscriptions and failures, no order
\* handed to sendCmd is lost, doubled in the queues, or answered more than once.
THEOREM OrdersConserved == Spec => []RequestConserved
<1>1. Init => ConservedInv
  BY InitType, InitConserved DEF ConservedInv
<1> QED
  BY <1>1, NextConserved, PlacesConserved, PTL DEF Spec

-----------------------------------------------------------------------------
(* Truth of the answers.  No message anywhere between the exchange and the *)
(* callbacks says "ok" of an order that was not executed, and a callback   *)
(* gets a reply to its own order: the id is compared.                      *)

Truths == {m \in Messages : m.to \in Orders /\ m.verdict = "ok" => executed[m.to] # << >>}

\* What parseIncomeData hands to the callback thread.
Calls == {e \in [cb : Requests, resp : Replies] :
              e.cb \in Orders => /\ e.resp.to = e.cb /\ e.resp.verdict \in {"ok", "error"}
                                 /\ e.resp \in Truths}

AnswersTo(r) == {v \in {"ok", "error"} : v = "ok" => executed[r] # << >>}

TruthInv ==
    /\ inq \in Seq(Truths) /\ in_hand \in Seq(Truths) /\ stale \in Seq(Truths)
    /\ to_client \in Seq(Truths)
    /\ cb_q \in Seq(Calls)
    /\ \A r \in Orders : answers[r] \in Seq(AnswersTo(r))

\* What was executed stays executed.
ExecutedGrows == \A r \in Orders : executed[r] # << >> => executed'[r] # << >>

LEMMA NextGrows ==
    ASSUME TypeInv, [Next]_vars
    PROVE  ExecutedGrows
<1>1. \A r \in Orders, n \in Nat : Append(executed[r], n) # << >>
  <2> SUFFICES ASSUME NEW r \in Orders, NEW n \in Nat PROVE Append(executed[r], n) # << >>
    OBVIOUS
  <2>1. executed[r] \in Seq(Nat)
    BY DEF TypeInv, TypeOK
  <2> QED
    BY <2>1, AppendProperties, LenProperties, EmptySeq
<1>2. CASE ServerReplies
  <2>1. PICK v \in VerdictsFor(Head(to_server)) :
          executed' = [r \in Orders |-> IF r = Head(to_server) /\ Executes(v)
                                        THEN Append(executed[r], sid) ELSE executed[r]]
    BY <1>2 DEF ServerReplies
  <2> QED
    BY <1>1, <2>1 DEF ExecutedGrows, TypeInv, TypeOK
<1>3. CASE OrphanExecuted
  <2>1. PICK o \in orphans : executed' = [executed EXCEPT ![o[2]] = Append(@, o[1])]
    BY <1>3 DEF OrphanExecuted
  <2>2. o[1] \in Nat /\ o[2] \in Orders /\ executed \in [Orders -> Seq(Nat)]
    BY DEF TypeInv, TypeOK
  <2> QED
    BY <1>1, <2>1, <2>2 DEF ExecutedGrows
<1>4. CASE UNCHANGED executed
  BY <1>4 DEF ExecutedGrows
<1>5. CASE RunCallback \/ LinkLost \/ (\E r \in Orders : SendCmd(r)) \/ UNCHANGED vars
  BY <1>4, <1>5 DEF RunCallback, LinkLost, SendCmd, vars, exchange
<1>6. CASE IoThread
  BY <1>4, <1>6 DEF IoThread, ReadDone, ReadCallback, StaleCallback, exchange
<1>7. CASE NewSession \/ Connected \/ ConnectFailed \/ LoggedIn \/ LoginFailed
           \/ Subscribe \/ ClearInq \/ Resend \/ ResendDone
  BY <1>4, <1>7 DEF NewSession, Connected, ConnectFailed, LoggedIn, LoginFailed,
                    Subscribe, ClearInq, Resend, ResendDone, exchange
<1>8. CASE StartRead \/ SendNext \/ CloseCommand \/ OutqEmpty
           \/ ConnectionClosed \/ ParseIncomeData \/ KeepAlive \/ PingFailed
  BY <1>4, <1>8 DEF StartRead, SendNext, CloseCommand, OutqEmpty,
                    ConnectionClosed, ParseIncomeData, KeepAlive, PingFailed, exchange
<1> QED
  BY <1>2, <1>3, <1>5, <1>6, <1>7, <1>8 DEF Next, RunThread

\* What is true stays true.
LEMMA TruthsKept ==
    ASSUME TruthInv, ExecutedGrows
    PROVE  /\ Truths \subseteq Truths'
           /\ inq \in Seq(Truths') /\ in_hand \in Seq(Truths') /\ stale \in Seq(Truths')
           /\ to_client \in Seq(Truths')
           /\ cb_q \in Seq(Calls')
           /\ \A r \in Orders : answers[r] \in Seq(AnswersTo(r)')
<1>1. Truths \subseteq Truths'
  BY DEF Truths, ExecutedGrows
<1>2. Calls \subseteq Calls'
  BY <1>1 DEF Calls
<1>3. \A r \in Orders : AnswersTo(r) \subseteq AnswersTo(r)'
  BY DEF AnswersTo, ExecutedGrows
<1>4. /\ inq \in Seq(Truths') /\ in_hand \in Seq(Truths') /\ stale \in Seq(Truths')
      /\ to_client \in Seq(Truths')
  BY <1>1, SeqMonotonic DEF TruthInv
<1>5. cb_q \in Seq(Calls')
  BY <1>2, SeqMonotonic DEF TruthInv
<1>6. \A r \in Orders : answers[r] \in Seq(AnswersTo(r)')
  <2> SUFFICES ASSUME NEW r \in Orders PROVE answers[r] \in Seq(AnswersTo(r)')
    OBVIOUS
  <2>1. answers[r] \in Seq(AnswersTo(r)) /\ AnswersTo(r) \subseteq AnswersTo(r)'
    BY <1>3 DEF TruthInv
  <2> QED
    BY <2>1, SeqMonotonic
<1> QED
  BY <1>1, <1>4, <1>5, <1>6

\* A failed or garbled read makes nothing true of an order.
LEMMA HarmlessMessages ==
    ASSUME TypeOK
    PROVE  /\ Closed \in Truths
           /\ \A m \in Replies : Spoilt(m) \in Truths
           /\ \A m \in Replies \cap Truths : Clobber(m) \subseteq Truths
<1>1. Closed \in Truths
  BY ReplyTypes DEF Truths, Closed
<1>2. \A m \in Replies : Spoilt(m) \in Truths
  BY ReplyTypes DEF Truths, Spoilt
<1> QED
  BY <1>1, <1>2 DEF Clobber

\* Between the exchange and inq_ messages are moved, spoilt or dropped.
LEMMA MessagesKept ==
    ASSUME TypeInv, NEW T, Closed \in T, \A m \in Replies \cap T : Spoilt(m) \in T,
           in_hand \in Seq(T), to_client \in Seq(T), [Next]_vars
    PROVE  /\ in_hand' \in Seq(T)
           /\ ~ServerReplies => to_client' \in Seq(T)
           /\ stale \in Seq(T) => stale' \in Seq(T)
           /\ stale \in Seq(T) /\ inq \in Seq(T) => inq' \in Seq(T)
<1>0. << >> \in Seq(T)
  BY EmptySeq
<1>1. DropSession => /\ in_hand' \in Seq(T) /\ to_client' \in Seq(T)
                     /\ stale \in Seq(T) => stale' \in Seq(T)
  <2> SUFFICES ASSUME DropSession
               PROVE  /\ in_hand' \in Seq(T) /\ to_client' \in Seq(T)
                      /\ stale \in Seq(T) => stale' \in Seq(T)
    OBVIOUS
  <2>1. (IF async_read_called THEN <<Closed>> ELSE << >>) \in Seq(T)
    BY <1>0, SingletonSeq
  <2>2. stale \in Seq(T) => stale \o in_hand \in Seq(T)
    BY ConcatProperties
  <2>3. stale \in Seq(T) => stale' \in Seq(T)
    BY <2>1, <2>2, ConcatProperties, ConcatAssociative DEF DropSession
  <2> QED
    BY <1>0, <2>3 DEF DropSession
<1>2. CASE UNCHANGED <<inq, in_hand, stale, to_client>>
  BY <1>2
<1>3. CASE DropSession /\ UNCHANGED inq
  BY <1>1, <1>3
<1>4. CASE UNCHANGED vars \/ RunCallback \/ (\E r \in Orders : SendCmd(r)) \/ OrphanExecuted \/ LinkLost
  <2>1. UNCHANGED <<inq, in_hand, stale, to_client>>
    BY <1>4 DEF vars, io, net, RunCallback, SendCmd, OrphanExecuted, LinkLost
  <2> QED
    BY <1>2, <2>1
<1>5. CASE NewSession \/ Connected \/ ConnectFailed \/ LoggedIn \/ Subscribe \/ ResendDone
  <2>1. UNCHANGED <<inq, in_hand, stale, to_client>>
    BY <1>5 DEF io, net, NewSession, Connected, ConnectFailed, LoggedIn, Subscribe, ResendDone
  <2> QED
    BY <1>2, <2>1
<1>6. CASE OutqEmpty \/ KeepAlive
  <2>1. UNCHANGED <<inq, in_hand, stale, to_client>>
    BY <1>6 DEF io, net, OutqEmpty, KeepAlive
  <2> QED
    BY <1>2, <2>1
<1>7. CASE LoginFailed \/ CloseCommand \/ PingFailed
  BY <1>3, <1>7 DEF LoginFailed, CloseCommand, PingFailed
<1>8. CASE Resend \/ SendNext
  <2>1. (DropSession /\ UNCHANGED inq) \/ UNCHANGED <<inq, in_hand, stale, to_client>>
    BY <1>8 DEF Resend, SendNext, Written, WriteThrows, io
  <2> QED
    BY <1>2, <1>3, <2>1
<1>9. CASE ClearInq
  <2>1. UNCHANGED <<in_hand, stale, to_client>> /\ inq' = << >>
    BY <1>9 DEF ClearInq, io, net
  <2> QED
    BY <1>0, <2>1
<1>10. CASE StartRead
  <2>1. UNCHANGED <<inq, stale, to_client>>
    BY <1>10 DEF StartRead, net
  <2>2. \/ UNCHANGED in_hand
        \/ in_hand # << >> /\ in_hand[1].verdict # "closed" /\ in_hand' = <<Spoilt(in_hand[1])>>
    BY <1>10 DEF StartRead
  <2>3. in_hand # << >> /\ in_hand[1].verdict # "closed" => in_hand[1] \in Replies \cap T
    <3>1. in_hand # << >> => in_hand[1] \in T
      BY ElementOfSeq, EmptySeq
    <3> QED
      BY <3>1, InHandTypes, ReplyTypes DEF TypeInv
  <2>4. in_hand' \in Seq(T)
    BY <2>2, <2>3, SingletonSeq
  <2> QED
    BY <2>1, <2>4
<1>11. CASE ConnectionClosed \/ ParseIncomeData
  <2>1. inq # << >> /\ inq' = Tail(inq)
    BY <1>11 DEF ConnectionClosed, ParseIncomeData
  <2>2. inq \in Seq(T) => inq' \in Seq(T)
    BY <2>1, HeadTailProperties
  <2>3. DropSession \/ UNCHANGED <<in_hand, stale, to_client>>
    BY <1>11 DEF ConnectionClosed, ParseIncomeData, io, net
  <2> QED
    BY <1>1, <2>2, <2>3
<1>12. CASE ReadDone
  <2>1. UNCHANGED <<inq, stale>>
    BY <1>12 DEF ReadDone
  <2>2. CASE /\ to_client # << >>
             /\ to_client' = Tail(to_client)
             /\ \E n \in (IF clobbered THEN Clobber(Head(to_client)) ELSE {Head(to_client)}) :
                  in_hand' = <<n>>
    <3>1. Head(to_client) \in T /\ to_client' \in Seq(T)
      BY <2>2, HeadTailProperties
    <3>2. Head(to_client) \in Replies
      BY <2>2, HeadTailProperties DEF TypeInv, TypeOK
    <3>3. in_hand' \in Seq(T)
      BY <2>2, <3>1, <3>2, SingletonSeq DEF Clobber
    <3> QED
      BY <2>1, <3>1, <3>3
  <2>3. CASE in_hand' = <<Closed>> /\ UNCHANGED to_client
    BY <2>1, <2>3, SingletonSeq
  <2> QED
    BY <1>12, <2>2, <2>3 DEF ReadDone
<1>13. CASE ReadCallback
  <2>1. in_hand # << >> /\ inq' = Append(inq, in_hand[1]) /\ in_hand' = << >>
        /\ UNCHANGED <<stale, to_client>>
    BY <1>13 DEF ReadCallback, net
  <2>2. in_hand[1] \in T
    BY <2>1, ElementOfSeq, EmptySeq
  <2>3. inq \in Seq(T) => inq' \in Seq(T)
    BY <2>1, <2>2, AppendProperties
  <2> QED
    BY <1>0, <2>1, <2>3
<1>14. CASE StaleCallback
  <2>1. /\ stale # << >> /\ stale' = Tail(stale)
        /\ inq' = Append(inq, Head(stale)) \/ UNCHANGED inq
        /\ UNCHANGED <<in_hand, to_client>>
    BY <1>14 DEF StaleCallback, net
  <2>2. stale \in Seq(T) => Head(stale) \in T /\ stale' \in Seq(T)
    BY <2>1, HeadTailProperties
  <2>3. stale \in Seq(T) /\ inq \in Seq(T) => Append(inq, Head(stale)) \in Seq(T)
    BY <2>2, AppendProperties
  <2> QED
    BY <2>1, <2>2, <2>3
<1>15. CASE ServerReplies
  BY <1>15 DEF ServerReplies, io
<1> QED
  BY <1>4, <1>5, <1>6, <1>7, <1>8, <1>9, <1>10, <1>11, <1>12, <1>13, <1>14, <1>15
     DEF Next, RunThread, IoThread

LEMMA NextMessages ==
    ASSUME TypeInv, TruthInv, [Next]_vars, ExecutedGrows
    PROVE  /\ inq' \in Seq(Truths') /\ in_hand' \in Seq(Truths') /\ stale' \in Seq(Truths')
           /\ to_client' \in Seq(Truths')
<1>1. Closed \in Truths' /\ \A m \in Replies : Spoilt(m) \in Truths'
  BY HarmlessMessages, TruthsKept DEF TypeInv
<1>2. /\ inq \in Seq(Truths') /\ in_hand \in Seq(Truths') /\ stale \in Seq(Truths')
      /\ to_client \in Seq(Truths')
  BY TruthsKept
<1> DEFINE T == Truths'
<1> HIDE DEF T
<1>3. /\ inq' \in Seq(T) /\ in_hand' \in Seq(T) /\ stale' \in Seq(T)
      /\ ~ServerReplies => to_client' \in Seq(T)
  <2>1. /\ Closed \in T /\ \A m \in Replies \cap T : Spoilt(m) \in T
        /\ inq \in Seq(T) /\ in_hand \in Seq(T) /\ stale \in Seq(T) /\ to_client \in Seq(T)
    BY <1>1, <1>2 DEF T
  <2> QED
    BY <2>1, MessagesKept
<1>4. ASSUME ServerReplies PROVE to_client' \in Seq(T)
  <2> DEFINE c == Head(to_server)
  <2>1. PICK v \in VerdictsFor(c) :
          /\ to_client' = Append(to_client, Reply(c, v))
          /\ executed' = [r \in Orders |-> IF r = c /\ Executes(v)
                                           THEN Append(executed[r], sid) ELSE executed[r]]
    BY <1>4 DEF ServerReplies
  <2>2. v \in Verdicts
    BY DEF VerdictsFor, Verdicts, OrderVerdicts, SubVerdicts
  <2>3. c \in Requests
    BY <1>4, HeadTailProperties DEF ServerReplies, TypeInv, TypeOK
  <2> HIDE DEF c
  <2>4. Reply(c, v) \in Messages
    BY <2>2, <2>3, ReplyTypes DEF TypeInv
  <2>5. c \in Orders /\ v = "ok" => executed'[c] # << >>
    <3> SUFFICES ASSUME c \in Orders, v = "ok" PROVE executed'[c] # << >>
      OBVIOUS
    <3>1. executed[c] \in Seq(Nat) /\ sid \in Nat
      BY DEF TypeInv, TypeOK
    <3>2. Append(executed[c], sid) # << >>
      BY <3>1, AppendProperties, LenProperties, EmptySeq
    <3> QED
      BY <2>1, <3>2 DEF Executes
  <2>6. Reply(c, v) \in T
    BY <2>4, <2>5 DEF T, Truths, Reply
  <2>7. to_client \in Seq(T)
    BY <1>2 DEF T
  <2> QED
    BY <2>1, <2>6, <2>7, AppendProperties
<1> QED
  BY <1>3, <1>4 DEF T

\* A reply that fits an order that waits, and is neither busy nor a demand to log
\* in again, is the reply to that order and answers it.
LEMMA MatchIsOwn ==
    ASSUME NEW m \in Replies, NEW c \in Orders, Matches(m, c), Ret(m) = 1
    PROVE  m.to = c /\ m.verdict \in {"ok", "error"}
<1>1. m.verdict # "rejected" /\ m.to = c
  BY NoIdIsNoOrder DEF Matches, RespId, RequestId
<1>2. m.verdict \notin {"relogin", "busy", "partial", "unreadable"}
  BY DEF Ret
<1> QED
  BY <1>1, <1>2 DEF Replies, Verdicts, OrderVerdicts

LEMMA NextCalls ==
    ASSUME TypeInv, TruthInv, [Next]_vars, ExecutedGrows
    PROVE  cb_q' \in Seq(Calls')
<1>0. cb_q \in Seq(Calls')
  BY TruthsKept
<1>1. CASE RunCallback
  BY <1>0, <1>1, HeadTailProperties DEF RunCallback
<1>2. CASE ParseIncomeData
  <2> DEFINE m == Head(inq)
  <2>1. m \in Truths /\ m \in Replies
    <3>1. inq # << >> /\ m.verdict # "closed"
      BY <1>2 DEF ParseIncomeData
    <3>2. m \in Truths /\ m \in Messages
      BY <3>1, HeadTailProperties DEF TruthInv, TypeInv, TypeOK
    <3> QED
      BY <3>1, <3>2, ReplyTypes DEF TypeInv
  <2>2. \/ UNCHANGED cb_q
        \/ /\ Ret(m) \in {1, -2}
           /\ \E i \in DOMAIN waiting_resp_q : FirstMatch(m, i) /\ Erase(m, i)
    BY <1>2 DEF ParseIncomeData
  <2> HIDE DEF m
  <2>3. ASSUME NEW i \in DOMAIN waiting_resp_q, FirstMatch(m, i), Ret(m) = 1
        PROVE  [cb |-> waiting_resp_q[i], resp |-> m] \in Calls'
    <3>1. waiting_resp_q[i] \in Requests
      BY ElementOfSeq, LenProperties DEF TypeInv, TypeOK
    <3>2. Matches(m, waiting_resp_q[i])
      BY <2>3 DEF FirstMatch
    <3>3. waiting_resp_q[i] \in Orders => /\ m.to = waiting_resp_q[i]
                                          /\ m.verdict \in {"ok", "error"}
      BY <2>1, <2>3, <3>2, MatchIsOwn
    <3>4. m \in Truths'
      BY <2>1, TruthsKept
    <3> QED
      BY <2>1, <3>1, <3>3, <3>4 DEF Calls
  <2>4. ASSUME NEW i \in DOMAIN waiting_resp_q, FirstMatch(m, i), Erase(m, i), Ret(m) \in {1, -2}
        PROVE  cb_q' \in Seq(Calls')
    <3>1. CASE Ret(m) = -2
      BY <1>0, <2>4, <3>1 DEF Erase
    <3>2. CASE Ret(m) = 1
      <4>1. cb_q' = Append(cb_q, [cb |-> waiting_resp_q[i], resp |-> m])
        BY <2>4, <3>2 DEF Erase
      <4>2. [cb |-> waiting_resp_q[i], resp |-> m] \in Calls'
        BY <2>3, <2>4, <3>2
      <4> QED
        BY <1>0, <4>1, <4>2, AppendProperties
    <3> QED
      BY <2>4, <3>1, <3>2
  <2> QED
    BY <1>0, <2>2, <2>4
<1>3. CASE UNCHANGED vars \/ (\E r \in Orders : SendCmd(r)) \/ ServerReplies \/ OrphanExecuted
           \/ LinkLost \/ IoThread
  BY <1>0, <1>3 DEF vars, SendCmd, ServerReplies, OrphanExecuted, LinkLost, IoThread, ReadDone,
                    ReadCallback, StaleCallback
<1>4. CASE NewSession \/ Connected \/ ConnectFailed \/ LoggedIn \/ LoginFailed
           \/ Subscribe \/ ClearInq \/ Resend \/ ResendDone
  BY <1>0, <1>4 DEF NewSession, Connected, ConnectFailed, LoggedIn, LoginFailed,
                    Subscribe, ClearInq, Resend, ResendDone
<1>5. CASE StartRead \/ SendNext \/ CloseCommand \/ OutqEmpty
           \/ ConnectionClosed \/ KeepAlive \/ PingFailed
  BY <1>0, <1>5 DEF StartRead, SendNext, CloseCommand, OutqEmpty,
                    ConnectionClosed, KeepAlive, PingFailed
<1> QED
  BY <1>1, <1>2, <1>3, <1>4, <1>5 DEF Next, RunThread

LEMMA NextAnswers ==
    ASSUME TypeInv, TruthInv, [Next]_vars, ExecutedGrows
    PROVE  \A r \in Orders : answers'[r] \in Seq(AnswersTo(r)')
<1>0. \A r \in Orders : answers[r] \in Seq(AnswersTo(r)')
  BY TruthsKept
<1>1. CASE RunCallback
  <2> SUFFICES ASSUME NEW r \in Orders PROVE answers'[r] \in Seq(AnswersTo(r)')
    OBVIOUS
  <2> DEFINE e == Head(cb_q)
  <2>1. e \in Calls'
    BY <1>1, TruthsKept, HeadTailProperties DEF RunCallback
  <2>2. answers'[r] = IF r = e.cb THEN Append(answers[r], e.resp.verdict) ELSE answers[r]
    BY <1>1 DEF RunCallback
  <2> HIDE DEF e
  <2>3. r = e.cb => e.resp.verdict \in AnswersTo(r)'
    BY <2>1 DEF Calls, Truths, AnswersTo
  <2>4. r = e.cb => Append(answers[r], e.resp.verdict) \in Seq(AnswersTo(r)')
    BY <1>0, <2>3, AppendProperties
  <2> QED
    BY <1>0, <2>2, <2>4
<1>2. CASE UNCHANGED answers
  BY <1>0, <1>2
<1>3. CASE UNCHANGED vars \/ (\E r \in Orders : SendCmd(r)) \/ ServerReplies \/ OrphanExecuted
           \/ LinkLost \/ IoThread
  BY <1>2, <1>3 DEF vars, app, SendCmd, ServerReplies, OrphanExecuted, LinkLost, IoThread, ReadDone,
                    ReadCallback, StaleCallback
<1>4. CASE NewSession \/ Connected \/ ConnectFailed \/ LoggedIn \/ LoginFailed
           \/ Subscribe \/ ClearInq \/ Resend \/ ResendDone
  BY <1>2, <1>4 DEF app, NewSession, Connected, ConnectFailed, LoggedIn, LoginFailed,
                    Subscribe, ClearInq, Resend, ResendDone
<1>5. CASE StartRead \/ SendNext \/ CloseCommand \/ OutqEmpty
           \/ ConnectionClosed \/ ParseIncomeData \/ KeepAlive \/ PingFailed
  BY <1>2, <1>5 DEF app, StartRead, SendNext, CloseCommand, OutqEmpty,
                    ConnectionClosed, ParseIncomeData, KeepAlive, PingFailed
<1> QED
  BY <1>1, <1>3, <1>4, <1>5 DEF Next, RunThread

LEMMA InitTruth == Init => TruthInv
<1>1. \A S : << >> \in Seq(S)
  BY EmptySeq
<1> QED
  BY <1>1 DEF Init, TruthInv

LEMMA NextTruth == TypeInv /\ TruthInv /\ [Next]_vars => TruthInv'
<1> SUFFICES ASSUME TypeInv, TruthInv, [Next]_vars PROVE TruthInv'
  OBVIOUS
<1>1. ExecutedGrows
  BY NextGrows
<1> QED
  BY <1>1, NextMessages, NextCalls, NextAnswers DEF TruthInv

LEMMA TruthAnswers == TypeInv /\ TruthInv => AnsweredTruthfully
<1> SUFFICES ASSUME TypeInv, TruthInv PROVE AnsweredTruthfully
  OBVIOUS
<1>1. ASSUME NEW r \in Orders, "ok" \in Range(answers[r]) PROVE executed[r] # << >>
  <2>1. answers[r] \in Seq(AnswersTo(r))
    BY DEF TruthInv
  <2>2. PICK i \in DOMAIN answers[r] : answers[r][i] = "ok"
    BY <1>1 DEF Range
  <2>3. "ok" \in AnswersTo(r)
    BY <2>1, <2>2, ElementOfSeq, LenProperties
  <2> QED
    BY <2>3 DEF AnswersTo
<1>2. ASSUME NEW e \in Range(cb_q), e.cb \in Orders PROVE e.resp.to = e.cb
  <2>1. PICK i \in DOMAIN cb_q : cb_q[i] = e
    BY <1>2 DEF Range
  <2>2. e \in Calls
    BY <2>1, ElementOfSeq, LenProperties DEF TruthInv
  <2> QED
    BY <1>2, <2>2 DEF Calls
<1> QED
  BY <1>1, <1>2 DEF AnsweredTruthfully

\* AnsweredTruthfully: for any number of orders, subscriptions and failures, a
\* callback is told "ok" only of an order the exchange executed, and gets only the
\* replies to its own order.
THEOREM AnswersAreTrue == Spec => []AnsweredTruthfully
<1>1. Init => TypeInv /\ TruthInv
  BY InitType, InitTruth
<1>2. TypeInv /\ TruthInv /\ [Next]_vars => (TypeInv /\ TruthInv)'
  BY NextType, NextTruth
<1> QED
  BY <1>1, <1>2, TruthAnswers, PTL DEF Spec

-----------------------------------------------------------------------------
(* Channel implements OrderService: the answer to an order is its first    *)
(* and only one, and what the exchange executes was submitted before.      *)

Sent == {c \in Requests : c \in Orders => c \in submitted}

SentInv == to_server \in Seq(Sent) /\ orphans \subseteq Nat \X submitted

ServiceInv == ConservedInv /\ TruthInv /\ SentInv

\* What waits for its turn or its answer has been submitted.
LEMMA QueuedIsSent ==
    ASSUME ConservedInv
    PROVE  /\ \A i \in DOMAIN outq : outq[i] \in Requests => outq[i] \in Sent
           /\ \A i \in DOMAIN waiting_resp_q : waiting_resp_q[i] \in Requests => waiting_resp_q[i] \in Sent
BY DEF ConservedInv, Conserved, Unsent, Queued, Waits, Returning, Answered, Absent, Once, Sent

LEMMA WrittenSent ==
    ASSUME SentInv, NEW c \in Sent, Written(c), UNCHANGED submitted
    PROVE  SentInv'
<1>1. to_server' \in Seq(Sent)
  BY AppendProperties DEF SentInv, Written
<1> QED
  BY <1>1 DEF SentInv, Written, Sent

LEMMA DropSent ==
    ASSUME TypeOK, SentInv, DropSession, UNCHANGED submitted
    PROVE  SentInv'
<1>1. \A i \in DOMAIN to_server : to_server[i] \in Sent
  BY ElementOfSeq, LenProperties DEF SentInv
<1>2. Orders \cap Range(to_server) \subseteq submitted
  BY <1>1 DEF Range, Sent
<1>3. orphans' \subseteq Nat \X submitted
  BY <1>2 DEF DropSession, SentInv, TypeOK
<1>4. to_server' \in Seq(Sent')
  BY EmptySeq DEF DropSession
<1> QED
  BY <1>3, <1>4 DEF SentInv

LEMMA NextSent ==
    ASSUME ConservedInv, SentInv, [Next]_vars
    PROVE  SentInv'
<1>0. TypeInv /\ TypeOK
  BY DEF ConservedInv, TypeInv
<1>1. ASSUME UNCHANGED <<to_server, orphans>>, submitted \subseteq submitted' PROVE SentInv'
  <2>1. Sent \subseteq Sent'
    BY <1>1 DEF Sent
  <2> QED
    BY <1>1, <2>1, SeqMonotonic DEF SentInv
<1>2. ASSUME DropSession, UNCHANGED submitted PROVE SentInv'
  BY <1>0, <1>2, DropSent
<1>3. CASE UNCHANGED vars \/ (\E r \in Orders : SendCmd(r)) \/ RunCallback \/ IoThread
  BY <1>1, <1>3 DEF vars, net, app, SendCmd, RunCallback, IoThread, ReadDone, ReadCallback, StaleCallback
<1>4. CASE NewSession \/ Connected \/ ConnectFailed \/ LoggedIn \/ Subscribe \/ ClearInq \/ ResendDone
  BY <1>1, <1>4 DEF app, net, NewSession, Connected, ConnectFailed, LoggedIn, Subscribe,
                    ClearInq, ResendDone
<1>5. CASE StartRead \/ OutqEmpty \/ ParseIncomeData \/ KeepAlive
  BY <1>1, <1>5 DEF app, net, StartRead, OutqEmpty, ParseIncomeData, KeepAlive
<1>6. CASE LoginFailed \/ CloseCommand \/ ConnectionClosed \/ PingFailed
  BY <1>2, <1>6 DEF app, LoginFailed, CloseCommand, ConnectionClosed, PingFailed
<1>7. CASE Resend
  <2>1. waiting_resp_q[k] \in Sent
    <3>1. k \in DOMAIN waiting_resp_q
      BY <1>0, <1>7, LenProperties DEF Resend, TypeInv, TypeOK, LoopIndex
    <3>2. waiting_resp_q[k] \in Requests
      BY <1>0, <3>1, ElementOfSeq, LenProperties DEF TypeOK
    <3> QED
      BY <3>1, <3>2, QueuedIsSent
  <2>2. (Written(waiting_resp_q[k]) \/ DropSession) /\ UNCHANGED submitted
    BY <1>7 DEF Resend, WriteThrows, app
  <2> QED
    BY <1>2, <2>1, <2>2, WrittenSent
<1>8. CASE SendNext
  <2>1. Head(outq) \in Sent
    <3>1. Head(outq) \in Requests /\ outq # << >>
      BY <1>0, <1>8, HeadTailProperties DEF SendNext, TypeOK, Commands
    <3>2. 1 \in DOMAIN outq /\ Head(outq) = outq[1]
      BY <1>0, <3>1, LenProperties, EmptySeq DEF TypeOK
    <3> QED
      BY <3>1, <3>2, QueuedIsSent
  <2>2. (Written(Head(outq)) \/ DropSession) /\ UNCHANGED submitted
    BY <1>8 DEF SendNext, WriteThrows, app
  <2> QED
    BY <1>2, <2>1, <2>2, WrittenSent
<1>9. CASE ServerReplies
  <2>1. to_server # << >> /\ to_server' = Tail(to_server) /\ UNCHANGED <<submitted, orphans>>
    BY <1>9 DEF ServerReplies, app
  <2>2. to_server' \in Seq(Sent)
    BY <2>1, HeadTailProperties DEF SentInv
  <2> QED
    BY <2>1, <2>2 DEF SentInv, Sent
<1>10. CASE OrphanExecuted
  <2>1. UNCHANGED <<submitted, to_server>> /\ orphans' \subseteq orphans
    BY <1>10 DEF OrphanExecuted, app
  <2> QED
    BY <2>1 DEF SentInv, Sent
<1>11. CASE LinkLost
  <2>1. \A i \in DOMAIN to_server : to_server[i] \in Sent
    BY ElementOfSeq, LenProperties DEF SentInv
  <2>2. Orders \cap Range(to_server) \subseteq submitted
    BY <2>1 DEF Range, Sent
  <2>3. UNCHANGED submitted /\ orphans' \subseteq Nat \X submitted
    BY <1>0, <1>11, <2>2 DEF LinkLost, app, SentInv, TypeOK
  <2>4. to_server' \in Seq(Sent')
    BY <1>11, EmptySeq DEF LinkLost
  <2> QED
    BY <2>3, <2>4 DEF SentInv
<1> QED
  BY <1>3, <1>4, <1>5, <1>6, <1>7, <1>8, <1>9, <1>10, <1>11 DEF Next, RunThread

\* The refinement mapping.
StatusOf(r) == IF r \notin submitted THEN "unsent"
               ELSE IF answers[r] = << >> THEN "pending" ELSE answers[r][1]
status == [r \in Orders |-> StatusOf(r)]
done == [r \in Orders |-> executed[r] # << >>]

ServiceStep == Service!Next \/ UNCHANGED <<status, done>>

LEMMA StatusSent ==
    ASSUME ServiceInv, NEW r \in Orders
    PROVE  status[r] # "unsent" <=> r \in submitted
<1>1. CASE r \notin submitted
  BY <1>1 DEF status, StatusOf
<1>2. CASE r \in submitted /\ answers[r] = << >>
  BY <1>2 DEF status, StatusOf
<1>3. CASE r \in submitted /\ answers[r] # << >>
  <2>1. answers[r] \in Seq(AnswersTo(r))
    BY DEF ServiceInv, TruthInv
  <2>2. answers[r][1] \in AnswersTo(r)
    BY <1>3, <2>1, ElementOfSeq, EmptySeq
  <2>3. answers[r][1] # "unsent"
    BY <2>2 DEF AnswersTo
  <2> QED
    BY <1>3, <2>3 DEF status, StatusOf
<1> QED
  BY <1>1, <1>2, <1>3

LEMMA SubmitStep ==
    ASSUME ServiceInv, NEW r \in Orders, SendCmd(r)
    PROVE  Service!Submit(r)
<1>1. r \notin submitted /\ submitted' = submitted \cup {r} /\ UNCHANGED <<answers, executed>>
  BY DEF SendCmd, exchange
<1>2. answers[r] = << >>
  BY <1>1 DEF ServiceInv, ConservedInv, Conserved, Unsent, Queued, Waits, Returning, Answered
<1>3. status[r] = "unsent" /\ UNCHANGED done
  BY <1>1 DEF status, StatusOf, done
<1>4. status' = [status EXCEPT ![r] = "pending"]
  <2>1. \A o \in Orders : StatusOf(o)' = IF o = r THEN "pending" ELSE StatusOf(o)
    BY <1>1, <1>2 DEF StatusOf
  <2> QED
    BY <2>1 DEF status
<1> QED
  BY <1>3, <1>4 DEF Service!Submit, status, StatusOf, done

LEMMA AnswerStep ==
    ASSUME ServiceInv, RunCallback
    PROVE  ServiceStep
<1>e. PICK e : e = Head(cb_q)
  OBVIOUS
<1>0. TypeOK
  BY DEF ServiceInv, ConservedInv, TypeInv
<1>1. e \in Calls
  BY <1>e, HeadTailProperties DEF RunCallback, ServiceInv, TruthInv
<1>2. /\ answers' = [r \in Orders |-> IF r = e.cb THEN Append(answers[r], e.resp.verdict)
                                      ELSE answers[r]]
      /\ UNCHANGED <<submitted, executed>>
  BY <1>e DEF RunCallback, exchange
<1>3. e.cb \in Orders => e.cb \in submitted /\ answers[e.cb] = << >>
  <2> SUFFICES ASSUME e.cb \in Orders PROVE Returning(e.cb)
    BY DEF Returning
  <2>1. 1 \in DOMAIN Called /\ Called[1] = e.cb
    <3>1. cb_q # << >> /\ cb_q \in Seq(Calls)
      BY DEF RunCallback, ServiceInv, TruthInv
    <3>2. 1 \in DOMAIN cb_q /\ cb_q[1] = e
      BY <1>e, <3>1, LenProperties, EmptySeq
    <3> QED
      BY <3>2 DEF Called
  <2>2. ~Absent(Called, e.cb)
    BY <2>1 DEF Absent
  <2>3. Conserved(e.cb)
    BY DEF ServiceInv, ConservedInv
  <2> QED
    BY <2>2, <2>3 DEF Conserved, Unsent, Queued, Waits, Answered
<1>4. CASE e.cb \notin Orders
  <2>1. \A r \in Orders : answers'[r] = answers[r]
    BY <1>2, <1>4
  <2>2. status' = status /\ done' = done
    BY <1>2, <2>1 DEF status, StatusOf, done
  <2> QED
    BY <2>2 DEF ServiceStep
<1>5. CASE e.cb \in Orders
  <2> DEFINE c == e.cb
             v == e.resp.verdict
  <2>1. v \in {"ok", "error"} /\ (v = "ok" => executed[c] # << >>)
    BY <1>1, <1>5 DEF Calls, Truths
  <2>2. answers'[c] = << v >> /\ \A r \in Orders : r # c => answers'[r] = answers[r]
    <3>1. answers'[c] = Append(answers[c], v)
      BY <1>2, <1>5
    <3>2. Append(<< >>, v) = << v >>
      OBVIOUS
    <3>3. \A r \in Orders : r # c => answers'[r] = answers[r]
      BY <1>2
    <3> QED
      BY <1>3, <1>5, <3>1, <3>2, <3>3
  <2>3. status[c] = "pending" /\ c \in submitted
    BY <1>3, <1>5 DEF status, StatusOf
  <2> HIDE DEF c, v
  <2>4. c \in Orders
    BY <1>5 DEF c
  <2>5. status' = [status EXCEPT ![c] = v]
    <3>1. \A r \in Orders : r # c => StatusOf(r)' = StatusOf(r)
      BY <1>2, <2>2 DEF StatusOf
    <3>2. StatusOf(c)' = v
      <4>1. answers'[c] = << v >> /\ c \in submitted'
        BY <1>2, <2>2, <2>3
      <4>2. << v >> # << >> /\ << v >>[1] = v
        OBVIOUS
      <4> QED
        BY <4>1, <4>2 DEF StatusOf
    <3> QED
      BY <2>4, <3>1, <3>2 DEF status
  <2>6. UNCHANGED done /\ (v = "ok" => done[c])
    BY <1>2, <2>1, <2>4 DEF done
  <2>7. Service!Answer(c, v)
    BY <2>3, <2>5, <2>6 DEF Service!Answer, status, StatusOf, done
  <2> QED
    <3>1. \E o \in Orders, w \in {"ok", "error"} : Service!Answer(o, w)
      BY <2>1, <2>4, <2>7
    <3> QED
      BY <3>1, Zenon DEF ServiceStep, Service!Next
<1> QED
  BY <1>4, <1>5

LEMMA ExecuteStep ==
    ASSUME ServiceInv, NEW c \in submitted, NEW n,
           \A r \in Orders : executed'[r] = IF r = c THEN Append(executed[r], n) ELSE executed[r],
           n \in Nat, UNCHANGED <<submitted, answers>>
    PROVE  ServiceStep
<1>1. c \in Orders /\ executed[c] \in Seq(Nat)
  BY DEF ServiceInv, ConservedInv, TypeInv, TypeOK
<1>2. Append(executed[c], n) # << >>
  BY <1>1, AppendProperties, LenProperties, EmptySeq
<1>3. UNCHANGED status
  BY DEF status, StatusOf
<1>4. done' = [done EXCEPT ![c] = TRUE]
  BY <1>1, <1>2 DEF done
<1>5. CASE done[c]
  <2>1. done' = done
    BY <1>4, <1>5 DEF done
  <2> QED
    BY <1>3, <2>1 DEF ServiceStep
<1>6. CASE ~done[c]
  <2>1. status[c] # "unsent"
    BY <1>1, StatusSent
  <2>2. Service!Execute(c)
    BY <1>3, <1>4, <1>6, <2>1 DEF Service!Execute, status, StatusOf, done
  <2> QED
    BY <1>1, <2>2 DEF ServiceStep, Service!Next
<1> QED
  BY <1>5, <1>6

LEMMA NextService ==
    ASSUME ServiceInv, [Next]_vars
    PROVE  ServiceStep
<1>1. ASSUME UNCHANGED <<submitted, answers, executed>> PROVE ServiceStep
  BY <1>1 DEF ServiceStep, status, StatusOf, done
<1>2. ASSUME NEW r \in Orders, SendCmd(r) PROVE ServiceStep
  BY <1>2, SubmitStep DEF ServiceStep, Service!Next
<1>3. CASE RunCallback
  BY <1>3, AnswerStep
<1>4. CASE ServerReplies
  <2> DEFINE c == Head(to_server)
  <2>1. PICK v \in VerdictsFor(c) :
          executed' = [r \in Orders |-> IF r = c /\ Executes(v)
                                        THEN Append(executed[r], sid) ELSE executed[r]]
    BY <1>4 DEF ServerReplies
  <2>2. c \in Sent
    BY <1>4, HeadTailProperties DEF ServerReplies, ServiceInv, SentInv
  <2>3. UNCHANGED <<submitted, answers>> /\ sid \in Nat
    BY <1>4 DEF ServerReplies, app, ServiceInv, ConservedInv, TypeInv, TypeOK
  <2> HIDE DEF c
  <2>4. CASE c \in Orders /\ Executes(v)
    <3>1. c \in submitted
      BY <2>2, <2>4 DEF Sent
    <3>2. \A r \in Orders : executed'[r] = IF r = c THEN Append(executed[r], sid) ELSE executed[r]
      BY <2>1, <2>4
    <3> QED
      BY <2>3, <3>1, <3>2, ExecuteStep
  <2>5. CASE ~(c \in Orders /\ Executes(v))
    <3>1. executed' = executed
      BY <2>1, <2>5 DEF ServiceInv, ConservedInv, TypeInv, TypeOK
    <3> QED
      BY <1>1, <2>3, <3>1
  <2> QED
    BY <2>4, <2>5
<1>5. CASE OrphanExecuted
  <2>1. PICK o \in orphans : executed' = [executed EXCEPT ![o[2]] = Append(@, o[1])]
    BY <1>5 DEF OrphanExecuted
  <2>2. o[1] \in Nat /\ o[2] \in submitted
    BY DEF ServiceInv, SentInv
  <2>3. UNCHANGED <<submitted, answers>>
    BY <1>5 DEF OrphanExecuted, app
  <2>4. \A r \in Orders : executed'[r] = IF r = o[2] THEN Append(executed[r], o[1]) ELSE executed[r]
    BY <2>1, <2>2 DEF ServiceInv, ConservedInv, TypeInv, TypeOK
  <2> QED
    BY <2>2, <2>3, <2>4, ExecuteStep
<1>6. CASE UNCHANGED vars \/ LinkLost \/ IoThread
  BY <1>1, <1>6 DEF vars, app, exchange, LinkLost, IoThread, ReadDone, ReadCallback, StaleCallback
<1>7. CASE NewSession \/ Connected \/ ConnectFailed \/ LoggedIn \/ LoginFailed
           \/ Subscribe \/ ClearInq \/ Resend \/ ResendDone
  BY <1>1, <1>7 DEF app, exchange, NewSession, Connected, ConnectFailed, LoggedIn, LoginFailed,
                    Subscribe, ClearInq, Resend, ResendDone
<1>8. CASE StartRead \/ SendNext \/ CloseCommand \/ OutqEmpty
           \/ ConnectionClosed \/ ParseIncomeData \/ KeepAlive \/ PingFailed
  BY <1>1, <1>8 DEF app, exchange, StartRead, SendNext, CloseCommand, OutqEmpty,
                    ConnectionClosed, ParseIncomeData, KeepAlive, PingFailed
<1> QED
  BY <1>2, <1>3, <1>4, <1>5, <1>6, <1>7, <1>8 DEF Next, RunThread

\* ImplementsService: whatever happens to the connections, callers see the order
\* service: one answer per order, which stands, and "ok" only for what was executed.
THEOREM OrdersAreServed == Spec => ImplementsService
<1>1. Init => ServiceInv
  <2>1. Init => SentInv
    BY EmptySeq DEF Init, SentInv
  <2> QED
    BY <2>1, InitType, InitConserved, InitTruth DEF ServiceInv, ConservedInv
<1>2. ServiceInv /\ [Next]_vars => ServiceInv'
  BY NextConserved, NextTruth, NextSent DEF ServiceInv, ConservedInv
<1>3. Init => Service!Init
  BY DEF Init, Service!Init
<1>4. ServiceInv /\ [Next]_vars => [Service!Next]_(Service!serviceVars)
  BY NextService DEF ServiceStep, Service!serviceVars, status, StatusOf, done
<1> QED
  BY <1>1, <1>2, <1>3, <1>4, PTL DEF Spec, ImplementsService, Service!Spec

-----------------------------------------------------------------------------
(* Sessions.  Nothing of a session outlives it but what its callbacks      *)
(* still push; Connected waits for those, and inq_ is cleared after it.    *)

Own == {m \in Messages : m.session = sid}

Idle == {"connect", "waitConnected"}
Serving == {"resend", "read", "outq", "inq"}

NothingStarted == link = "none" /\ ~async_read_called /\ in_hand = << >> /\ to_client = << >>

SessionInv ==
    /\ pc \in Idle => NothingStarted
    /\ pc \notin Idle => stale = << >>
    /\ in_hand \in Seq(Own) /\ to_client \in Seq(Own)
    /\ pc \in Serving => inq \in Seq(Own)

\* Where the run thread goes, and what becomes of the session.
LEMMA Moves ==
    ASSUME TypeOK, [Next]_vars
    PROVE  \/ DropSession /\ UNCHANGED sid
           \/ NewSession
           \/ ConnectFailed
           \/ Connected
           \/ ClearInq
           \/ UNCHANGED <<pc, sid>> /\ ~NewSession
           \/ pc \notin Idle /\ pc' \notin Idle /\ UNCHANGED <<stale, sid>>
              /\ (pc' \in Serving => pc \in Serving)
<1>0. pc = pc' => ~NewSession
  BY DEF NewSession
<1>1. CASE UNCHANGED vars \/ RunCallback \/ (\E r \in Orders : SendCmd(r)) \/ OrphanExecuted
           \/ LinkLost \/ ServerReplies \/ IoThread
  BY <1>0, <1>1 DEF vars, run, RunCallback, SendCmd, OrphanExecuted, LinkLost, ServerReplies,
                    IoThread, ReadDone, ReadCallback, StaleCallback
<1>2. CASE LoginFailed \/ CloseCommand \/ ConnectionClosed \/ PingFailed
  BY <1>2 DEF LoginFailed, CloseCommand, ConnectionClosed, PingFailed
<1>3. CASE LoggedIn \/ Subscribe \/ ResendDone \/ StartRead \/ OutqEmpty \/ KeepAlive
           \/ ParseIncomeData
  BY <1>3 DEF LoggedIn, Subscribe, ResendDone, StartRead, OutqEmpty, KeepAlive, ParseIncomeData,
              Idle, Serving, io, run
<1>4. CASE Resend \/ SendNext
  BY <1>4 DEF Resend, SendNext, Written, WriteThrows, Idle, Serving, io
<1> QED
  BY <1>1, <1>2, <1>3, <1>4 DEF Next, RunThread

LEMMA OwnMessages ==
    ASSUME TypeOK
    PROVE  Closed \in Own /\ \A m \in Replies \cap Own : Spoilt(m) \in Own
<1>1. Closed \in Own
  BY ReplyTypes DEF Own, Closed
<1>2. \A m \in Replies \cap Own : Spoilt(m) \in Own
  BY ReplyTypes DEF Own, Spoilt
<1> QED
  BY <1>1, <1>2

LEMMA NextOwn ==
    ASSUME TypeInv, SessionInv, [Next]_vars, UNCHANGED sid
    PROVE  /\ in_hand' \in Seq(Own') /\ to_client' \in Seq(Own')
           /\ pc \in Serving => inq' \in Seq(Own')
<1>0. TypeOK
  BY DEF TypeInv
<1>1. Own' = Own
  BY DEF Own
<1>2. /\ in_hand' \in Seq(Own)
      /\ ~ServerReplies => to_client' \in Seq(Own)
      /\ pc \in Serving => inq' \in Seq(Own)
  <2>1. pc \in Serving => stale \in Seq(Own) /\ inq \in Seq(Own)
    BY EmptySeq DEF SessionInv, Serving, Idle
  <2>2. in_hand \in Seq(Own) /\ to_client \in Seq(Own)
    BY DEF SessionInv
  <2>3. Closed \in Own /\ \A m \in Replies \cap Own : Spoilt(m) \in Own
    BY <1>0, OwnMessages
  <2> QED
    BY <2>1, <2>2, <2>3, MessagesKept
<1>3. CASE ServerReplies
  <2>1. PICK v \in VerdictsFor(Head(to_server)) : to_client' = Append(to_client, Reply(Head(to_server), v))
    BY <1>3 DEF ServerReplies
  <2>2. v \in Verdicts /\ Head(to_server) \in Requests
    BY <1>0, <1>3, HeadTailProperties
       DEF VerdictsFor, Verdicts, OrderVerdicts, SubVerdicts, ServerReplies, TypeOK
  <2>3. Reply(Head(to_server), v) \in Own
    <3>1. Reply(Head(to_server), v) \in Messages
      BY <1>0, <2>2, ReplyTypes
    <3> QED
      BY <3>1 DEF Own, Reply
  <2>4. to_client' \in Seq(Own)
    BY <2>1, <2>3, AppendProperties DEF SessionInv
  <2> QED
    BY <1>1, <1>2, <2>4
<1> QED
  BY <1>1, <1>2, <1>3

\* Where nothing was started nothing goes on.
LEMMA StaysQuiet ==
    ASSUME TypeOK, NothingStarted, pc \in Idle, [Next]_vars, UNCHANGED <<pc, sid>>
    PROVE  NothingStarted'
<1>1. CASE ~DropSession /\ ~ReadDone /\ ~ReadCallback /\ ~StartRead /\ ~ServerReplies /\ ~LinkLost
  <2>1. CASE UNCHANGED vars \/ RunCallback \/ (\E r \in Orders : SendCmd(r)) \/ OrphanExecuted
             \/ StaleCallback
    BY <2>1 DEF vars, io, net, RunCallback, SendCmd, OrphanExecuted, StaleCallback, NothingStarted
  <2>2. CASE RunThread
    BY <2>2 DEF RunThread, Idle, NewSession, Connected, ConnectFailed, LoggedIn, LoginFailed,
                Subscribe, ClearInq, Resend, ResendDone, StartRead, SendNext, CloseCommand,
                OutqEmpty, ConnectionClosed, ParseIncomeData, KeepAlive, PingFailed
  <2> QED
    BY <1>1, <2>1, <2>2 DEF Next, IoThread
<1>2. CASE DropSession
  BY <1>2 DEF DropSession, NothingStarted
<1>3. ~ReadDone /\ ~ReadCallback /\ ~ServerReplies /\ ~LinkLost
  BY DEF ReadDone, ReadCallback, ServerReplies, LinkLost, NothingStarted
<1>4. ~StartRead
  BY DEF StartRead, Idle
<1> QED
  BY <1>1, <1>2, <1>3, <1>4

LEMMA NextSession == TypeInv /\ SessionInv /\ [Next]_vars => SessionInv'
<1> SUFFICES ASSUME TypeInv, SessionInv, [Next]_vars PROVE SessionInv'
  OBVIOUS
<1>0. TypeOK /\ << >> \in Seq(Own) /\ << >> \in Seq(Own')
  BY EmptySeq DEF TypeInv
<1>1. UNCHANGED sid => /\ in_hand' \in Seq(Own') /\ to_client' \in Seq(Own')
                       /\ pc \in Serving => inq' \in Seq(Own')
  BY NextOwn
<1>2. CASE DropSession /\ UNCHANGED sid
  BY <1>1, <1>2 DEF DropSession, SessionInv, NothingStarted, Idle, Serving
<1>3. CASE NewSession
  BY <1>0, <1>3 DEF NewSession, SessionInv, NothingStarted, Idle, Serving, io, net
<1>4. CASE ConnectFailed
  BY <1>1, <1>4 DEF ConnectFailed, SessionInv, NothingStarted, Idle, Serving, io, net
<1>5. CASE Connected
  BY <1>1, <1>5 DEF Connected, SessionInv, Idle, Serving, io
<1>6. CASE ClearInq
  BY <1>0, <1>1, <1>6 DEF ClearInq, SessionInv, Idle, Serving, io
<1>7. CASE UNCHANGED <<pc, sid>>
  <2>1. pc \in Idle => NothingStarted'
    BY <1>0, <1>7, StaysQuiet DEF SessionInv
  <2>2. pc \notin Idle => stale' = << >>
    <3> SUFFICES ASSUME pc \notin Idle PROVE stale' = << >>
      OBVIOUS
    <3>1. stale = << >> /\ pc' # "connect"
      BY <1>7 DEF SessionInv, Idle
    <3>2. UNCHANGED stale
      <4>1. CASE UNCHANGED vars \/ RunCallback \/ (\E r \in Orders : SendCmd(r)) \/ OrphanExecuted
                 \/ LinkLost \/ ServerReplies \/ IoThread
        BY <3>1, <4>1 DEF vars, io, RunCallback, SendCmd, OrphanExecuted, LinkLost, ServerReplies,
                          IoThread, ReadDone, ReadCallback, StaleCallback
      <4>2. CASE NewSession \/ Connected \/ ConnectFailed \/ LoggedIn \/ LoginFailed
                 \/ Subscribe \/ ClearInq \/ Resend \/ ResendDone
        BY <3>1, <4>2 DEF io, NewSession, Connected, ConnectFailed, LoggedIn, LoginFailed, Subscribe,
                          ClearInq, Resend, ResendDone, Written, WriteThrows, DropSession
      <4>3. CASE StartRead \/ SendNext \/ CloseCommand \/ OutqEmpty
                 \/ ConnectionClosed \/ ParseIncomeData \/ KeepAlive \/ PingFailed
        BY <3>1, <4>3 DEF io, StartRead, SendNext, CloseCommand, OutqEmpty, ConnectionClosed,
                          ParseIncomeData, KeepAlive, PingFailed, Written, WriteThrows, DropSession
      <4> QED
        BY <4>1, <4>2, <4>3 DEF Next, RunThread
    <3> QED
      BY <3>1, <3>2
  <2> QED
    BY <1>1, <1>7, <2>1, <2>2 DEF SessionInv
<1>8. CASE pc \notin Idle /\ pc' \notin Idle /\ UNCHANGED <<stale, sid>>
           /\ (pc' \in Serving => pc \in Serving)
  BY <1>1, <1>8 DEF SessionInv
<1> QED
  BY <1>0, <1>2, <1>3, <1>4, <1>5, <1>6, <1>7, <1>8, Moves

\* NothingStaleInq: for any number of sessions and failures, the loop only ever
\* parses messages of the connection it runs on.
THEOREM InqIsOfThisSession == Spec => []NothingStaleInq
<1>1. Init => TypeInv /\ SessionInv
  <2>1. Init => SessionInv
    BY EmptySeq DEF Init, SessionInv, NothingStarted, Idle, Serving
  <2> QED
    BY <2>1, InitType
<1>2. TypeInv /\ SessionInv /\ [Next]_vars => (TypeInv /\ SessionInv)'
  BY NextType, NextSession
<1>3. SessionInv => NothingStaleInq
  <2> SUFFICES ASSUME SessionInv, InLoop, NEW m \in Range(inq) PROVE m.session = sid
    BY DEF NothingStaleInq
  <2>1. inq \in Seq(Own)
    BY DEF SessionInv, InLoop, Serving
  <2>2. m \in Own
    BY <2>1, ElementOfSeq, LenProperties DEF Range
  <2> QED
    BY <2>2 DEF Own
<1> QED
  BY <1>1, <1>2, <1>3, PTL DEF Spec

-----------------------------------------------------------------------------
(* Once per session.  An order is under way at most once on the connection *)
(* that is up: as a request, or as the reply to it, in one of the places   *)
(* between to_server and inq_; it is sent again only when it is in none.   *)

\* Whom the messages of a sequence answer.
About(s) == [i \in DOMAIN s |-> s[i].to]

LEMMA AboutType ==
    ASSUME NEW s \in Seq(Messages)
    PROVE  /\ About(s) \in Seq(Commands) /\ Len(About(s)) = Len(s) /\ Len(s) \in Nat
           /\ \A i \in 1..Len(s) : About(s)[i] = s[i].to
<1>1. Len(s) \in Nat /\ DOMAIN s = 1..Len(s)
  BY LenProperties
<1>2. \A i \in 1..Len(s) : s[i].to \in Commands
  <2>1. \A i \in 1..Len(s) : s[i] \in Messages
    BY ElementOfSeq
  <2> QED
    BY <2>1 DEF Messages, Replies, Commands
<1>3. About(s) = [i \in 1..Len(s) |-> s[i].to]
  BY <1>1 DEF About
<1>4. About(s) \in Seq(Commands)
  BY <1>1, <1>2, <1>3, IsASeq
<1> QED
  BY <1>1, <1>3, <1>4, LenProperties

LEMMA AboutAppend ==
    ASSUME NEW s \in Seq(Messages), NEW m \in Messages, NEW r
    PROVE  /\ Absent(About(s), r) /\ m.to = r => Once(About(Append(s, m)), r)
           /\ Absent(About(s), r) /\ m.to # r => Absent(About(Append(s, m)), r)
           /\ Once(About(s), r) /\ m.to # r => Once(About(Append(s, m)), r)
<1>1. Append(s, m) \in Seq(Messages) /\ Len(Append(s, m)) = Len(s) + 1
      /\ (\A i \in 1..Len(s) : Append(s, m)[i] = s[i]) /\ Append(s, m)[Len(s) + 1] = m
  BY AppendProperties
<1>2. m.to \in Commands
  BY DEF Messages, Replies, Commands
<1> DEFINE t == Append(s, m)
           u == Append(About(s), m.to)
<1>3. /\ u \in Seq(Commands) /\ Len(u) = Len(s) + 1
      /\ \A i \in 1..Len(s) : u[i] = s[i].to
      /\ u[Len(s) + 1] = m.to
  BY <1>2, AboutType, AppendProperties
<1>4. /\ About(t) \in Seq(Commands) /\ Len(About(t)) = Len(s) + 1 /\ Len(s) \in Nat
      /\ \A i \in 1..(Len(s) + 1) : About(t)[i] = t[i].to
  BY <1>1, AboutType, LenProperties
<1>5. \A i \in 1..(Len(s) + 1) : About(t)[i] = u[i]
  BY <1>1, <1>3, <1>4
<1>6. About(t) = u
  BY <1>3, <1>4, <1>5, SeqEqual
<1> QED
  BY <1>2, <1>6, AboutType, AppendOccurs

LEMMA AboutTail ==
    ASSUME NEW s \in Seq(Messages), s # << >>, NEW r
    PROVE  /\ Absent(About(s), r) => Head(s).to # r /\ Absent(About(Tail(s)), r)
           /\ Once(About(s), r) /\ Head(s).to = r => Absent(About(Tail(s)), r)
           /\ Once(About(s), r) /\ Head(s).to # r => Once(About(Tail(s)), r)
<1> DEFINE a == About(s)
           t == Tail(s)
<1>1. /\ t \in Seq(Messages) /\ Len(t) = Len(s) - 1 /\ Len(s) \in Nat /\ Len(s) >= 1
      /\ \A i \in 1..(Len(s) - 1) : t[i] = s[i + 1]
  BY HeadTailProperties, LenProperties, EmptySeq
<1>2. /\ a \in Seq(Commands) /\ Len(a) = Len(s) /\ \A i \in 1..Len(s) : a[i] = s[i].to
  BY AboutType
<1> HIDE DEF a
<1>3. a # << >> /\ Head(a) = a[1] /\ Head(s) = s[1]
  BY <1>1, <1>2, EmptySeq
<1>4. /\ Tail(a) \in Seq(Commands) /\ Len(Tail(a)) = Len(s) - 1
      /\ \A i \in 1..(Len(s) - 1) : Tail(a)[i] = a[i + 1]
  BY <1>1, <1>2, <1>3, HeadTailProperties
<1>5. /\ About(t) \in Seq(Commands) /\ Len(About(t)) = Len(s) - 1
      /\ \A i \in 1..(Len(s) - 1) : About(t)[i] = t[i].to
  BY <1>1, AboutType
<1>6. \A i \in 1..(Len(s) - 1) : About(t)[i] = Tail(a)[i]
  BY <1>1, <1>2, <1>4, <1>5
<1>7. About(t) = Tail(a)
  BY <1>4, <1>5, <1>6, SeqEqual
<1>8. Head(a) = Head(s).to
  BY <1>1, <1>2, <1>3
<1> HIDE DEF t
<1>9. /\ Absent(a, r) => Head(a) # r /\ Absent(Tail(a), r)
      /\ Once(a, r) /\ Head(a) = r => Absent(Tail(a), r)
      /\ Once(a, r) /\ Head(a) # r => Once(Tail(a), r)
  BY <1>2, <1>3, TailOccurs
<1> QED
  BY <1>7, <1>8, <1>9 DEF a, t

LEMMA AboutFew ==
    ASSUME NEW r
    PROVE  /\ Absent(About(<< >>), r) /\ Absent(<< >>, r)
           /\ \A m : m.to = r => Once(About(<< m >>), r)
           /\ \A m : m.to # r => Absent(About(<< m >>), r)
BY DEF About, Absent, Once

\* Where order r is under way.
Nowhere(r) == Absent(to_server, r) /\ Absent(About(to_client), r)
              /\ Absent(About(in_hand), r) /\ Absent(About(inq), r)
OnWay(r) == Once(to_server, r) /\ Absent(About(to_client), r)
            /\ Absent(About(in_hand), r) /\ Absent(About(inq), r)
Coming(r) == Absent(to_server, r) /\ Once(About(to_client), r)
             /\ Absent(About(in_hand), r) /\ Absent(About(inq), r)
Held(r) == Absent(to_server, r) /\ Absent(About(to_client), r)
           /\ Once(About(in_hand), r) /\ Absent(About(inq), r)
Arrived(r) == Absent(to_server, r) /\ Absent(About(to_client), r)
              /\ Absent(About(in_hand), r) /\ Once(About(inq), r)

NotYet(r) == sid \notin Range(executed[r])

\* What will be sent in this session.
ToSend(r) == \/ r \notin submitted
             \/ ~Absent(outq, r)
             \/ pc = "resend" /\ \E i \in DOMAIN waiting_resp_q : i >= k /\ waiting_resp_q[i] = r

\* A reply that sends an order back to outq_ comes from an exchange that did nothing.
Told(r) == {m \in Messages : m.to = r /\ Ret(m) = -2 => NotYet(r)}

UnderWay(r) == Nowhere(r) \/ (OnWay(r) /\ NotYet(r)) \/ Coming(r) \/ Held(r) \/ Arrived(r)

Flight(r) ==
    /\ UnderWay(r)
    /\ ToSend(r) => Nowhere(r) /\ NotYet(r)
    /\ to_client \in Seq(Told(r)) /\ in_hand \in Seq(Told(r)) /\ inq \in Seq(Told(r))

NoOrphan(r) == \A o \in orphans : o[2] = r => o[1] # sid

Distinct(r) ==
    /\ \A i, j \in DOMAIN executed[r] : executed[r][i] = executed[r][j] => i = j
    /\ \A i \in DOMAIN executed[r] : executed[r][i] <= sid
    /\ \A o \in orphans : o[2] = r => o[1] <= sid /\ o[1] \notin Range(executed[r])

OrderOnce(r) ==
    /\ Distinct(r)
    /\ link = "up" \/ pc = "waitConnected" => NoOrphan(r)
    /\ (link = "up" /\ pc \notin Serving) \/ pc = "waitConnected" => NotYet(r)
    /\ link = "up" /\ pc \in Serving => Flight(r)

\* How far a session has come: nothing is sent before the re-sending, nothing is
\* read before the loop.
StepwiseInv ==
    /\ pc \notin Serving => /\ to_server = << >> /\ to_client = << >>
                            /\ in_hand = << >> /\ ~async_read_called
    /\ pc = "resend" => in_hand = << >> /\ ~async_read_called
    /\ link # "up" => to_server = << >>

OnceInv == /\ ConservedInv /\ SessionInv /\ StepwiseInv
           /\ \A r \in Orders \ Batches : OrderOnce(r)

LEMMA NextStepwise ==
    ASSUME TypeInv, SessionInv, StepwiseInv, [Next]_vars
    PROVE  StepwiseInv'
<1> USE DEF StepwiseInv, Serving
<1>0. TypeOK
  BY DEF TypeInv
<1>1. ASSUME DropSession PROVE StepwiseInv'
  BY <1>1 DEF DropSession
<1>2. CASE UNCHANGED vars \/ RunCallback \/ (\E r \in Orders : SendCmd(r)) \/ OrphanExecuted
           \/ StaleCallback
  BY <1>2 DEF vars, run, io, net, RunCallback, SendCmd, OrphanExecuted, StaleCallback
<1>3. CASE ReadDone \/ ReadCallback
  BY <1>3 DEF ReadDone, ReadCallback, run, net
<1>4. CASE ServerReplies \/ LinkLost
  BY <1>4 DEF ServerReplies, LinkLost, run, io
<1>5. CASE LoginFailed \/ CloseCommand \/ ConnectionClosed \/ PingFailed
  BY <1>1, <1>5 DEF LoginFailed, CloseCommand, ConnectionClosed, PingFailed
<1>6. CASE NewSession \/ ConnectFailed \/ LoggedIn \/ Subscribe \/ ClearInq \/ ResendDone
  BY <1>6 DEF NewSession, ConnectFailed, LoggedIn, Subscribe, ClearInq, ResendDone, io, net
<1>7. CASE Connected
  BY <1>7 DEF Connected, io
<1>8. CASE Resend \/ SendNext
  BY <1>1, <1>8 DEF Resend, SendNext, Written, WriteThrows, io
<1>9. CASE StartRead \/ OutqEmpty \/ ParseIncomeData \/ KeepAlive
  BY <1>9 DEF StartRead, OutqEmpty, ParseIncomeData, KeepAlive, io, net, run
<1> QED
  BY <1>2, <1>3, <1>4, <1>5, <1>6, <1>7, <1>8, <1>9 DEF Next, RunThread, IoThread

\* An order that is on its way to the exchange is nowhere else.
LEMMA RequestAlone ==
    ASSUME OnceInv, NEW r \in Orders \ Batches, ~Absent(to_server, r)
    PROVE  link = "up" /\ pc \in Serving /\ OnWay(r) /\ NotYet(r) /\ ~ToSend(r)
<1>1. link = "up" /\ pc \in Serving
  BY AboutFew DEF OnceInv, StepwiseInv
<1>2. Flight(r)
  BY <1>1 DEF OnceInv, OrderOnce
<1> QED
  BY <1>1, <1>2 DEF Flight, UnderWay, Nowhere, Coming, Held, Arrived

LEMMA ToldStays ==
    ASSUME NEW r \in Orders, UNCHANGED sid, executed'[r] = executed[r]
    PROVE  /\ Told(r)' = Told(r)
           /\ NotYet(r)' <=> NotYet(r)
BY DEF Told, NotYet

LEMMA MessagesTold ==
    ASSUME OnceInv, NEW r \in Orders \ Batches, link = "up", pc \in Serving,
           [Next]_vars, ~ServerReplies, UNCHANGED sid, executed'[r] = executed[r]
    PROVE  to_client' \in Seq(Told(r)') /\ in_hand' \in Seq(Told(r)') /\ inq' \in Seq(Told(r)')
<1>1. TypeInv /\ SessionInv /\ Flight(r)
  BY DEF OnceInv, ConservedInv, OrderOnce
<1>2. stale \in Seq(Told(r))
  BY <1>1, EmptySeq DEF SessionInv, Serving, Idle
<1>3. Closed \in Told(r)
  BY <1>1, ReplyTypes, CommandsApart DEF Told, Closed, TypeInv, Requests
<1>4. \A m \in Replies \cap Told(r) : Spoilt(m) \in Told(r)
  <2> SUFFICES ASSUME NEW m \in Replies PROVE Spoilt(m) \in Told(r)
    OBVIOUS
  <2>1. Spoilt(m) \in Messages
    BY <1>1, ReplyTypes DEF TypeInv
  <2>2. Spoilt(m).verdict = "unreadable"
    BY DEF Spoilt
  <2>3. Ret(Spoilt(m)) = 0
    BY <2>2 DEF Ret
  <2> QED
    BY <2>1, <2>3 DEF Told
<1> DEFINE T == Told(r)
<1>5. to_client \in Seq(T) /\ in_hand \in Seq(T) /\ inq \in Seq(T) /\ stale \in Seq(T)
  BY <1>1, <1>2 DEF Flight
<1> HIDE DEF T
<1>6. to_client' \in Seq(T) /\ in_hand' \in Seq(T) /\ inq' \in Seq(T)
  <2>1. Closed \in T /\ \A m \in Replies \cap T : Spoilt(m) \in T
    BY <1>3, <1>4 DEF T
  <2> QED
    BY <1>1, <1>5, <2>1, MessagesKept
<1> QED
  BY <1>6, ToldStays DEF T

\* Steps that move no message and send nothing.
LEMMA StillOnce ==
    ASSUME NEW r \in Orders, OrderOnce(r), ToSend(r)' => ToSend(r),
           UNCHANGED <<sid, link, orphans, executed, to_server, to_client, in_hand, inq>>,
           pc' \in Serving <=> pc \in Serving,
           pc' = "waitConnected" => pc = "waitConnected"
    PROVE  OrderOnce(r)'
<1>1. Distinct(r)' /\ (NoOrphan(r)' <=> NoOrphan(r)) /\ (NotYet(r)' <=> NotYet(r))
  BY DEF OrderOnce, Distinct, NoOrphan, NotYet
<1>2. Flight(r) => Flight(r)'
  BY ToldStays DEF Flight, UnderWay, Nowhere, OnWay, Coming, Held, Arrived
<1> QED
  BY <1>1, <1>2 DEF OrderOnce

\* What was on its way when the connection is lost may still arrive, once.
LEMMA OrphansOnce ==
    ASSUME OnceInv, NEW r \in Orders \ Batches, UNCHANGED <<sid, executed>>,
           orphans' = orphans \cup {<<sid, o>> : o \in Orders \cap Range(to_server)}
    PROVE  Distinct(r)'
<1>1. r \in Range(to_server) => NotYet(r)
  <2>1. r \in Range(to_server) => ~Absent(to_server, r)
    BY DEF Range, Absent
  <2> QED
    BY <2>1, RequestAlone
<1>2. Distinct(r) /\ sid \in Nat
  BY DEF OnceInv, OrderOnce, ConservedInv, TypeInv, TypeOK
<1>3. ASSUME NEW o \in orphans', o[2] = r PROVE o[1] <= sid /\ o[1] \notin Range(executed[r])
  <2>1. CASE o \in orphans
    BY <1>2, <1>3, <2>1 DEF Distinct
  <2>2. CASE o \notin orphans
    <3>1. PICK q \in Orders \cap Range(to_server) : o = <<sid, q>>
      BY <2>2
    <3>2. q = r /\ o[1] = sid
      BY <1>3, <3>1
    <3> QED
      BY <1>1, <1>2, <3>1, <3>2 DEF NotYet
  <2> QED
    BY <2>1, <2>2
<1> QED
  BY <1>2, <1>3 DEF Distinct

LEMMA DropOnce ==
    ASSUME OnceInv, NEW r \in Orders \ Batches, DropSession, UNCHANGED <<sid, executed>>
    PROVE  OrderOnce(r)'
BY OrphansOnce DEF OrderOnce, DropSession

\* A request is written only if it is nowhere.
LEMMA WriteOnce ==
    ASSUME OnceInv, NEW r \in Orders \ Batches, NEW c \in Requests, Written(c),
           UNCHANGED <<sid, executed, inq>>, pc \in Serving, pc' \in Serving,
           c = r => ToSend(r) /\ ~ToSend(r)', ToSend(r)' => ToSend(r)
    PROVE  OrderOnce(r)'
<1>1. /\ UNCHANGED <<link, to_client, orphans, in_hand>>
      /\ link = "up" => to_server' = Append(to_server, c)
      /\ OrderOnce(r) /\ to_server \in Seq(Requests)
  BY DEF Written, io, OnceInv, ConservedInv, TypeInv, TypeOK
<1>2. Distinct(r)' /\ (NoOrphan(r)' <=> NoOrphan(r))
  BY <1>1 DEF OrderOnce, Distinct, NoOrphan
<1>3. pc' # "waitConnected" /\ pc # "waitConnected"
  BY DEF Serving
<1>4. ASSUME link = "up" PROVE Flight(r)'
  <2>1. Flight(r)
    BY <1>1, <1>4 DEF OrderOnce
  <2>2. /\ Absent(to_server, r) /\ c = r => Once(to_server', r)
        /\ Absent(to_server, r) /\ c # r => Absent(to_server', r)
        /\ Once(to_server, r) /\ c # r => Once(to_server', r)
    <3>1. to_server' = Append(to_server, c) /\ to_server \in Seq(Requests)
      BY <1>1, <1>4
    <3> QED
      BY <3>1, AppendOccurs
  <2>3. (NotYet(r)' <=> NotYet(r)) /\ Told(r)' = Told(r)
    BY ToldStays
  <2>4. CASE c = r
    BY <1>1, <2>1, <2>2, <2>3, <2>4 DEF Flight, UnderWay, Nowhere, OnWay
  <2>5. CASE c # r
    BY <1>1, <2>1, <2>2, <2>3, <2>5 DEF Flight, UnderWay, Nowhere, OnWay, Coming, Held, Arrived
  <2> QED
    BY <2>4, <2>5
<1> QED
  BY <1>1, <1>2, <1>3, <1>4 DEF OrderOnce

LEMMA ResendOnce ==
    ASSUME OnceInv, NEW r \in Orders \ Batches, Resend
    PROVE  OrderOnce(r)'
<1>0. TypeInv /\ TypeOK /\ Conserved(r)
  BY DEF OnceInv, ConservedInv, TypeInv
<1>1. /\ pc = "resend" /\ k \in DOMAIN waiting_resp_q /\ k \in Nat
      /\ waiting_resp_q[k] \in Requests
      /\ UNCHANGED <<submitted, outq, inq, waiting_resp_q, sid, executed>>
  <2>1. k \in 1..Len(waiting_resp_q)
    BY <1>0, LenProperties DEF Resend, TypeInv, TypeOK, LoopIndex
  <2>2. k \in DOMAIN waiting_resp_q /\ waiting_resp_q[k] \in Requests
    BY <1>0, <2>1, ElementOfSeq, LenProperties DEF TypeOK
  <2> QED
    BY <2>1, <2>2 DEF Resend, app, exchange
<1>2. CASE WriteThrows /\ UNCHANGED k
  BY <1>1, <1>2, DropOnce DEF WriteThrows
<1>3. CASE Written(waiting_resp_q[k]) /\ k' = k + 1 /\ UNCHANGED pc
  <2>c. PICK c : c = waiting_resp_q[k]
    OBVIOUS
  <2>1. ToSend(r)' => ToSend(r)
    <3>1. \A i \in DOMAIN waiting_resp_q : i >= k + 1 => i >= k
      BY <1>0, <1>1, LenProperties DEF TypeOK
    <3> QED
      BY <1>1, <1>3, <3>1 DEF ToSend
  <2>2. c = r => ToSend(r) /\ ~ToSend(r)'
    <3> SUFFICES ASSUME c = r PROVE ToSend(r) /\ ~ToSend(r)'
      OBVIOUS
    <3>1. ToSend(r)
      BY <1>1, <2>c DEF ToSend
    <3>2. Waits(r)
      BY <1>0, <1>1, <2>c DEF Conserved, Unsent, Queued, Returning, Answered, Absent
    <3>3. \A i \in DOMAIN waiting_resp_q : waiting_resp_q[i] = r => i = k
      BY <1>1, <2>c, <3>2 DEF Waits, Once
    <3>4. ~ToSend(r)'
      BY <1>1, <1>3, <3>2, <3>3 DEF ToSend, Waits
    <3> QED
      BY <3>1, <3>4
  <2> QED
    BY <1>1, <1>3, <2>c, <2>1, <2>2, WriteOnce DEF Serving
<1> QED
  BY <1>2, <1>3 DEF Resend

LEMMA SendNextOnce ==
    ASSUME OnceInv, NEW r \in Orders \ Batches, SendNext
    PROVE  OrderOnce(r)'
<1>0. TypeOK /\ Conserved(r)
  BY DEF OnceInv, ConservedInv, TypeInv
<1>1. /\ pc = "outq" /\ outq # << >> /\ outq' = Tail(outq) /\ Head(outq) \in Requests
      /\ UNCHANGED <<submitted, inq, sid, executed>>
  BY <1>0, HeadTailProperties DEF SendNext, app, exchange, TypeOK, Commands
<1>2. CASE WriteThrows
  BY <1>1, <1>2, DropOnce DEF WriteThrows
<1>3. CASE Written(Head(outq)) /\ UNCHANGED pc
  <2>c. PICK c : c = Head(outq)
    OBVIOUS
  <2>0. /\ Absent(outq, r) => c # r /\ Absent(outq', r)
        /\ Once(outq, r) /\ c = r => Absent(outq', r)
    BY <1>0, <1>1, <2>c, TailOccurs DEF TypeOK
  <2>1. ToSend(r)' => ToSend(r)
    BY <1>1, <1>3, <2>0 DEF ToSend
  <2>2. c = r => ToSend(r) /\ ~ToSend(r)'
    <3> SUFFICES ASSUME c = r PROVE ToSend(r) /\ ~ToSend(r)'
      OBVIOUS
    <3>1. ~Absent(outq, r)
      BY <2>0
    <3>2. Queued(r)
      BY <1>0, <3>1 DEF Conserved, Unsent, Waits, Returning, Answered
    <3> QED
      BY <1>1, <1>3, <2>0, <3>1, <3>2 DEF ToSend, Queued
  <2> QED
    BY <1>1, <1>3, <2>c, <2>1, <2>2, WriteOnce DEF Serving
<1> QED
  BY <1>2, <1>3 DEF SendNext

\* Steps after which the messages are where they were, or one place further on.
LEMMA FlightOnce ==
    ASSUME OnceInv, NEW r \in Orders \ Batches, [Next]_vars, ~ServerReplies,
           UNCHANGED <<sid, link, orphans, executed>>, pc \in Serving, pc' \in Serving,
           link = "up" => UnderWay(r)' /\ (ToSend(r)' => Nowhere(r)' /\ NotYet(r))
    PROVE  OrderOnce(r)'
<1>1. OrderOnce(r) /\ pc # "waitConnected" /\ pc' # "waitConnected"
  BY DEF OnceInv, Serving
<1>2. Distinct(r)' /\ (NoOrphan(r)' <=> NoOrphan(r)) /\ (NotYet(r)' <=> NotYet(r))
  BY <1>1 DEF OrderOnce, Distinct, NoOrphan, NotYet
<1>3. link = "up" => Flight(r)'
  BY <1>2, MessagesTold DEF Flight
<1> QED
  BY <1>1, <1>2, <1>3 DEF OrderOnce

LEMMA ReadsWhileServing ==
    ASSUME StepwiseInv, StartRead \/ ReadDone \/ ReadCallback
    PROVE  pc \in Serving /\ pc' \in Serving
BY DEF StepwiseInv, StartRead, ReadDone, ReadCallback, Serving, run

LEMMA InHandOne ==
    ASSUME TypeOK, in_hand # << >>
    PROVE  in_hand = << in_hand[1] >>
<1>1. in_hand \in Seq(Messages) /\ Len(in_hand) = 1
  <2>1. in_hand \in Seq(Messages) /\ Len(in_hand) <= 1 /\ Len(in_hand) \in Nat
    BY LenProperties DEF TypeOK
  <2>2. Len(in_hand) # 0
    BY <2>1, EmptySeq
  <2>3. \A n \in Nat : n <= 1 /\ n # 0 => n = 1
    OBVIOUS
  <2>4. Len(in_hand) = 1
    BY <2>1, <2>2, <2>3
  <2> QED
    BY <2>1, <2>4
<1> QED
  BY <1>1

LEMMA SpoiltIsFor == \A m : Spoilt(m).to = m.to
BY DEF Spoilt

LEMMA StartReadOnce ==
    ASSUME OnceInv, NEW r \in Orders \ Batches, StartRead
    PROVE  OrderOnce(r)'
<1>0. TypeOK /\ OrderOnce(r)
  BY DEF OnceInv, ConservedInv, TypeInv
<1>1. /\ pc \in Serving /\ pc' \in Serving
      /\ UNCHANGED <<sid, link, orphans, executed, to_server, to_client, inq, submitted, outq>>
      /\ pc' # "resend"
  BY ReadsWhileServing DEF OnceInv, StartRead, net, app
<1>2. About(in_hand)' = About(in_hand)
  <2>1. CASE UNCHANGED in_hand
    BY <2>1 DEF About
  <2>2. CASE in_hand # << >> /\ in_hand' = << Spoilt(in_hand[1]) >>
    <3>1. in_hand = << in_hand[1] >> /\ Spoilt(in_hand[1]).to = in_hand[1].to
      BY <1>0, <2>2, InHandOne, SpoiltIsFor
    <3> QED
      BY <2>2, <3>1 DEF About
  <2> QED
    BY <2>1, <2>2 DEF StartRead
<1>3. UnderWay(r)' <=> UnderWay(r)
  BY <1>1, <1>2 DEF UnderWay, Nowhere, OnWay, Coming, Held, Arrived, NotYet, About
<1>4. (Nowhere(r)' <=> Nowhere(r)) /\ (ToSend(r)' => ToSend(r))
  BY <1>1, <1>2 DEF Nowhere, ToSend, About
<1>5. link = "up" => UnderWay(r)' /\ (ToSend(r)' => Nowhere(r)' /\ NotYet(r))
  BY <1>0, <1>1, <1>3, <1>4 DEF OrderOnce, Flight
<1>6. [Next]_vars /\ ~ServerReplies
  BY <1>0, EmptySeq DEF Next, RunThread, StartRead, ServerReplies, RunStates, run
<1> QED
  BY <1>1, <1>5, <1>6, FlightOnce

LEMMA ReadDoneOnce ==
    ASSUME OnceInv, NEW r \in Orders \ Batches, ReadDone
    PROVE  OrderOnce(r)'
<1>0. TypeOK /\ OrderOnce(r)
  BY DEF OnceInv, ConservedInv, TypeInv
<1>1. /\ pc \in Serving /\ pc' \in Serving /\ in_hand = << >>
      /\ UNCHANGED <<sid, link, orphans, executed, to_server, inq, submitted, outq, pc, k, waiting_resp_q>>
      /\ async_read_called /\ ~async_read_called'
  BY ReadsWhileServing DEF OnceInv, ReadDone, run, app
<1>2. [Next]_vars /\ ~ServerReplies
  BY <1>1 DEF Next, IoThread, ServerReplies, io
<1>3. ASSUME link = "up" PROVE UnderWay(r)' /\ (ToSend(r)' => Nowhere(r)' /\ NotYet(r))
  <2>1. to_client # << >> /\ to_client' = Tail(to_client)
    BY <1>3 DEF ReadDone
  <2>m. PICK m : m = Head(to_client)
    OBVIOUS
  <2>2. PICK n \in {m, Closed, Spoilt(m)} : in_hand' = << n >>
    BY <1>3, <2>m DEF ReadDone, Clobber
  <2>3. n.to = m.to \/ n.to # r
    BY <2>2, CommandsApart, SpoiltIsFor DEF Closed, Requests
  <2>4. /\ to_client \in Seq(Messages)
        /\ Absent(About(to_client), r) => m.to # r /\ Absent(About(to_client'), r)
        /\ Once(About(to_client), r) /\ m.to = r => Absent(About(to_client'), r)
        /\ Once(About(to_client), r) /\ m.to # r => Once(About(to_client'), r)
    <3>1. to_client \in Seq(Messages)
      BY <1>0 DEF TypeOK, Messages
    <3> QED
      BY <2>1, <2>m, <3>1, AboutTail
  <2>5. /\ n.to = r => Once(About(in_hand'), r)
        /\ n.to # r => Absent(About(in_hand'), r)
        /\ Absent(About(in_hand), r) /\ ~Once(About(in_hand), r)
    BY SMTT(30), <1>1, <2>2, AboutFew DEF About, Once
  <2>6. Flight(r)
    BY <1>0, <1>1, <1>3 DEF OrderOnce
  <2>7. /\ Absent(to_server', r) <=> Absent(to_server, r)
        /\ Once(to_server', r) <=> Once(to_server, r)
        /\ Absent(About(inq'), r) <=> Absent(About(inq), r)
        /\ Once(About(inq'), r) <=> Once(About(inq), r)
        /\ NotYet(r)' <=> NotYet(r)
        /\ ToSend(r)' => ToSend(r)
    BY <1>1 DEF NotYet, ToSend
  <2>8. Nowhere(r) => Nowhere(r)'
    BY <2>3, <2>4, <2>5, <2>7 DEF Nowhere
  <2>9. UnderWay(r)'
    <3>1. CASE OnWay(r) /\ NotYet(r)
      BY <2>3, <2>4, <2>5, <2>7, <3>1 DEF OnWay, UnderWay
    <3>2. CASE Coming(r)
      BY <2>3, <2>4, <2>5, <2>7, <3>2 DEF Coming, Held, Nowhere, UnderWay
    <3>3. CASE Arrived(r)
      BY <2>3, <2>4, <2>5, <2>7, <3>3 DEF Arrived, UnderWay
    <3> QED
      BY <2>5, <2>6, <2>8, <3>1, <3>2, <3>3 DEF Flight, UnderWay, Held
  <2> QED
    BY <2>6, <2>7, <2>8, <2>9 DEF Flight
<1> QED
  BY <1>1, <1>2, <1>3, FlightOnce

LEMMA ReadCallbackOnce ==
    ASSUME OnceInv, NEW r \in Orders \ Batches, ReadCallback
    PROVE  OrderOnce(r)'
<1>0. TypeOK /\ OrderOnce(r)
  BY DEF OnceInv, ConservedInv, TypeInv
<1>1. /\ pc \in Serving /\ pc' \in Serving /\ in_hand # << >> /\ in_hand' = << >>
      /\ UNCHANGED <<sid, link, orphans, executed, to_server, to_client, submitted, outq, pc, k,
                     waiting_resp_q>>
      /\ inq' = Append(inq, in_hand[1])
  BY ReadsWhileServing DEF OnceInv, ReadCallback, run, app, net, exchange
<1>2. [Next]_vars /\ ~ServerReplies
  BY <1>1 DEF Next, IoThread, ServerReplies, io
<1>3. ASSUME link = "up" PROVE UnderWay(r)' /\ (ToSend(r)' => Nowhere(r)' /\ NotYet(r))
  <2>m. PICK m : m = in_hand[1]
    OBVIOUS
  <2>1. m \in Messages /\ in_hand = << m >> /\ inq \in Seq(Messages) /\ inq' = Append(inq, m)
    BY <1>0, <1>1, <2>m, InHandOne, InHandTypes DEF TypeOK
  <2>2. /\ Absent(About(inq), r) /\ m.to = r => Once(About(inq'), r)
        /\ Absent(About(inq), r) /\ m.to # r => Absent(About(inq'), r)
        /\ Once(About(inq), r) /\ m.to # r => Once(About(inq'), r)
    BY <2>1, AboutAppend
  <2>3. /\ m.to = r => ~Absent(About(in_hand), r)
        /\ m.to # r => ~Once(About(in_hand), r)
        /\ Absent(About(in_hand'), r)
    BY ZenonT(30), <1>1, <2>1, AboutFew DEF Absent, Once
  <2>6. Flight(r)
    BY <1>0, <1>1, <1>3 DEF OrderOnce
  <2>7. /\ Absent(to_server', r) <=> Absent(to_server, r)
        /\ Once(to_server', r) <=> Once(to_server, r)
        /\ Absent(About(to_client'), r) <=> Absent(About(to_client), r)
        /\ Once(About(to_client'), r) <=> Once(About(to_client), r)
        /\ NotYet(r)' <=> NotYet(r)
        /\ ToSend(r)' => ToSend(r)
    BY <1>1 DEF NotYet, ToSend
  <2>8. Nowhere(r) => Nowhere(r)'
    BY <2>2, <2>3, <2>7 DEF Nowhere
  <2>9. UnderWay(r)'
    <3>1. CASE OnWay(r) /\ NotYet(r)
      BY <2>2, <2>3, <2>7, <3>1 DEF OnWay, UnderWay
    <3>2. CASE Coming(r)
      BY <2>2, <2>3, <2>7, <3>2 DEF Coming, UnderWay
    <3>3. CASE Held(r)
      BY <2>2, <2>3, <2>7, <3>3 DEF Held, Arrived, UnderWay
    <3>4. CASE Arrived(r)
      BY <2>2, <2>3, <2>7, <3>4 DEF Arrived, UnderWay
    <3> QED
      BY <2>6, <2>8, <3>1, <3>2, <3>3, <3>4 DEF Flight, UnderWay
  <2> QED
    BY <2>6, <2>7, <2>8, <2>9 DEF Flight
<1> QED
  BY <1>1, <1>2, <1>3, FlightOnce

LEMMA StaleOnce ==
    ASSUME OnceInv, NEW r \in Orders \ Batches, StaleCallback
    PROVE  OrderOnce(r)'
<1>1. /\ pc \notin Serving /\ UNCHANGED <<pc, sid, link, orphans, executed>> /\ OrderOnce(r)
  BY DEF OnceInv, SessionInv, StaleCallback, Serving, Idle, run, net, exchange
<1> QED
  BY <1>1 DEF OrderOnce, Distinct, NoOrphan, NotYet

LEMMA AnswersItself ==
    ASSUME NEW m \in Replies, NEW c \in Orders, Matches(m, c)
    PROVE  m.to = c
BY NoIdIsNoOrder, CommandsApart DEF Matches, RespId, RequestId

LEMMA ParseOnce ==
    ASSUME OnceInv, NEW r \in Orders \ Batches, ParseIncomeData
    PROVE  OrderOnce(r)'
<1>0. TypeOK /\ OrderOnce(r)
  BY DEF OnceInv, ConservedInv, TypeInv
<1>1. /\ pc = "inq" /\ pc' = "inq" /\ inq # << >> /\ inq' = Tail(inq)
      /\ Head(inq).verdict # "closed"
      /\ UNCHANGED <<sid, link, orphans, executed, to_server, to_client, in_hand, submitted>>
  BY DEF ParseIncomeData, run, app, net, exchange, io
<1>2. [Next]_vars /\ ~ServerReplies
  <2>1. ~ServerReplies
    <3>1. ServerReplies => /\ to_server \in Seq(Requests) /\ to_server # << >>
                           /\ Len(Tail(to_server)) # Len(to_server)
      BY <1>0, HeadTailProperties, LenProperties DEF ServerReplies, TypeOK
    <3> QED
      BY <1>1, <3>1 DEF ServerReplies
  <2> QED
    BY <2>1 DEF Next, RunThread
<1>m. PICK m : m = Head(inq)
  OBVIOUS
<1>3. m \in Replies /\ m \in Range(inq) /\ inq \in Seq(Messages)
  <2>1. inq \in Seq(Messages) /\ Head(inq) \in Messages /\ Head(inq) = inq[1] /\ 1 \in DOMAIN inq
    BY <1>0, <1>1, HeadTailProperties, LenProperties, EmptySeq DEF TypeOK
  <2> QED
    BY <1>0, <1>1, <1>m, <2>1, ReplyTypes DEF Range
<1>4. ASSUME link = "up" PROVE UnderWay(r)' /\ (ToSend(r)' => Nowhere(r)' /\ NotYet(r))
  <2>1. Flight(r)
    BY <1>0, <1>1, <1>4 DEF OrderOnce, Serving
  <2>2. /\ Absent(About(inq), r) => m.to # r /\ Absent(About(inq'), r)
        /\ Once(About(inq), r) /\ m.to = r => Absent(About(inq'), r)
        /\ Once(About(inq), r) /\ m.to # r => Once(About(inq'), r)
    BY <1>1, <1>m, <1>3, AboutTail
  <2>3. /\ Absent(to_server', r) <=> Absent(to_server, r)
        /\ Once(to_server', r) <=> Once(to_server, r)
        /\ Absent(About(to_client'), r) <=> Absent(About(to_client), r)
        /\ Once(About(to_client'), r) <=> Once(About(to_client), r)
        /\ Absent(About(in_hand'), r) <=> Absent(About(in_hand), r)
        /\ Once(About(in_hand'), r) <=> Once(About(in_hand), r)
        /\ NotYet(r)' <=> NotYet(r)
    BY <1>1 DEF NotYet
  <2>4. UnderWay(r)'
    <3>1. CASE Nowhere(r)
      BY <2>2, <2>3, <3>1 DEF Nowhere, UnderWay
    <3>2. CASE OnWay(r) /\ NotYet(r)
      BY <2>2, <2>3, <3>2 DEF OnWay, UnderWay
    <3>3. CASE Coming(r)
      BY <2>2, <2>3, <3>3 DEF Coming, UnderWay
    <3>4. CASE Held(r)
      BY <2>2, <2>3, <3>4 DEF Held, UnderWay
    <3>5. CASE Arrived(r)
      BY <2>2, <2>3, <3>5 DEF Arrived, Nowhere, UnderWay
    <3> QED
      BY <2>1, <3>1, <3>2, <3>3, <3>4, <3>5 DEF Flight, UnderWay
  <2>5. ToSend(r)' => ToSend(r) \/ (m.to = r /\ Ret(m) = -2)
    <3>1. ASSUME NEW c \in Commands, c # r, outq' = Append(outq, c), ToSend(r)' PROVE ToSend(r)
      <4>1. outq \in Seq(Commands) /\ (Absent(outq, r) => Absent(outq', r))
        BY <1>0, <3>1, AppendOccurs DEF TypeOK
      <4> QED
        BY <1>1, <3>1, <4>1 DEF ToSend
    <3>2. CASE UNCHANGED outq
      BY <1>1, <3>2 DEF ToSend
    <3>3. CASE outq' = Append(outq, Close)
      <4>1. Close \in Commands /\ Close # r
        BY CommandsApart DEF Commands, Requests
      <4> QED
        BY <3>1, <3>3, <4>1
    <3>4. ASSUME NEW i \in DOMAIN waiting_resp_q, Matches(m, waiting_resp_q[i]), Ret(m) = -2,
                 outq' = Append(outq, waiting_resp_q[i]), ToSend(r)'
          PROVE  ToSend(r) \/ m.to = r
      <4>c. PICK c : c = waiting_resp_q[i]
        OBVIOUS
      <4>1. c \in Commands
        BY <1>0, <4>c, ElementOfSeq, LenProperties DEF TypeOK, Commands
      <4>2. c = r => m.to = r
        BY <1>3, <3>4, <4>c, AnswersItself
      <4> QED
        BY <3>1, <3>4, <4>c, <4>1, <4>2
    <3>5. \/ UNCHANGED outq
          \/ outq' = Append(outq, Close)
          \/ \E i \in DOMAIN waiting_resp_q :
                Matches(m, waiting_resp_q[i]) /\ Ret(m) = -2 /\ outq' = Append(outq, waiting_resp_q[i])
      BY <1>m DEF ParseIncomeData, FirstMatch, Erase
    <3> QED
      BY <3>2, <3>3, <3>4, <3>5
  <2>6. ToSend(r) => Nowhere(r)' /\ NotYet(r)
    BY <2>1, <2>2, <2>3 DEF Flight, Nowhere
  <2>7. m.to = r /\ Ret(m) = -2 => Nowhere(r)' /\ NotYet(r)
    <3> SUFFICES ASSUME m.to = r, Ret(m) = -2 PROVE Nowhere(r)' /\ NotYet(r)
      OBVIOUS
    <3>1. m \in Told(r)
      BY <1>3, <2>1, ElementOfSeq, LenProperties DEF Flight, Range
    <3>2. Arrived(r)
      BY <2>1, <2>2 DEF Flight, UnderWay, Nowhere, OnWay, Coming, Held
    <3> QED
      BY <2>2, <2>3, <3>1, <3>2 DEF Told, Arrived, Nowhere
  <2> QED
    BY <2>4, <2>5, <2>6, <2>7
<1> QED
  BY <1>1, <1>2, <1>4, FlightOnce DEF Serving

LEMMA AbsentTold ==
    ASSUME NEW r, NEW s \in Seq(Messages), Absent(About(s), r)
    PROVE  s \in Seq(Told(r)')
<1>1. Len(s) \in Nat /\ \A i \in 1..Len(s) : s[i] \in Messages /\ s[i].to # r
  BY AboutType, ElementOfSeq, LenProperties DEF Absent
<1>2. \A i \in 1..Len(s) : s[i] \in Told(r)'
  BY <1>1 DEF Told
<1>3. s = [i \in 1..Len(s) |-> s[i]]
  BY <1>1, LenProperties
<1> QED
  BY <1>1, <1>2, <1>3, IsASeq

\* A session more where an order was executed.
LEMMA AppendDistinct ==
    ASSUME NEW s \in Seq(Nat), NEW e \in Nat, e \notin Range(s),
           \A i, j \in DOMAIN s : s[i] = s[j] => i = j
    PROVE  /\ Range(Append(s, e)) = Range(s) \cup {e}
           /\ \A i, j \in DOMAIN Append(s, e) : Append(s, e)[i] = Append(s, e)[j] => i = j
<1> DEFINE t == Append(s, e)
<1>1. /\ Len(s) \in Nat /\ DOMAIN s = 1..Len(s) /\ DOMAIN t = 1..(Len(s) + 1)
      /\ \A i \in 1..Len(s) : t[i] = s[i]
      /\ t[Len(s) + 1] = e
  BY AppendProperties, LenProperties
<1> HIDE DEF t
<1>2. DOMAIN t = DOMAIN s \cup {Len(s) + 1}
  BY <1>1
<1>3. \A i \in DOMAIN s : t[i] = s[i] /\ t[i] # e
  BY <1>1 DEF Range
<1>4. Range(t) = Range(s) \cup {e}
  BY <1>1, <1>2, <1>3 DEF Range
<1>5. \A i, j \in DOMAIN t : t[i] = t[j] => i = j
  BY <1>1, <1>2, <1>3
<1> QED
  BY <1>4, <1>5 DEF t

LEMMA AppendRange ==
    ASSUME NEW S, NEW s \in Seq(S), NEW e \in S
    PROVE  Range(Append(s, e)) = Range(s) \cup {e}
<1> DEFINE t == Append(s, e)
<1>1. /\ Len(s) \in Nat /\ DOMAIN s = 1..Len(s) /\ DOMAIN t = 1..(Len(s) + 1)
      /\ \A i \in 1..Len(s) : t[i] = s[i]
      /\ t[Len(s) + 1] = e
  BY AppendProperties, LenProperties
<1> HIDE DEF t
<1>2. DOMAIN t = DOMAIN s \cup {Len(s) + 1}
  BY <1>1
<1>3. Range(t) = Range(s) \cup {e}
  BY <1>1, <1>2 DEF Range
<1> QED
  BY <1>3 DEF t

LEMMA ServerOnce ==
    ASSUME OnceInv, NEW r \in Orders \ Batches, ServerReplies
    PROVE  OrderOnce(r)'
<1>0. TypeOK /\ OrderOnce(r)
  BY DEF OnceInv, ConservedInv, TypeInv
<1>1. /\ link = "up" /\ to_server # << >> /\ to_server' = Tail(to_server)
      /\ UNCHANGED <<submitted, outq, inq, waiting_resp_q, pc, k, sid, in_hand, link, orphans>>
  BY DEF ServerReplies, app, run, io
<1>2. pc \in Serving /\ pc # "waitConnected"
  BY <1>1 DEF OnceInv, StepwiseInv, Serving
<1>c. PICK c : c = Head(to_server)
  OBVIOUS
<1>v. PICK v \in VerdictsFor(c) :
        /\ to_client' = Append(to_client, Reply(c, v))
        /\ executed' = [o \in Orders |-> IF o = c /\ Executes(v) THEN Append(executed[o], sid)
                                          ELSE executed[o]]
  BY <1>c DEF ServerReplies
<1>3. c \in Requests /\ to_server \in Seq(Requests)
  BY <1>0, <1>1, <1>c, HeadTailProperties DEF TypeOK
<1>4. /\ Absent(to_server, r) => c # r /\ Absent(to_server', r)
      /\ Once(to_server, r) /\ c = r => Absent(to_server', r)
      /\ Once(to_server, r) /\ c # r => Once(to_server', r)
  BY <1>1, <1>3, <1>c, TailOccurs
<1>m. PICK m : m = Reply(c, v)
  OBVIOUS
<1>5. m \in Messages /\ m.to = c /\ m.verdict = v /\ to_client \in Seq(Messages)
      /\ to_client' = Append(to_client, m)
  <2>1. v \in Verdicts
    BY DEF VerdictsFor, Verdicts, OrderVerdicts, SubVerdicts
  <2>2. Reply(c, v) \in Messages
    BY <1>0, <1>3, <2>1, ReplyTypes
  <2>3. to_client \in Seq(Messages)
    BY <1>0 DEF TypeOK, Messages
  <2> QED
    BY <1>m, <1>v, <2>2, <2>3 DEF Reply
<1>6. /\ Absent(About(to_client), r) /\ m.to = r => Once(About(to_client'), r)
      /\ Absent(About(to_client), r) /\ m.to # r => Absent(About(to_client'), r)
      /\ Once(About(to_client), r) /\ m.to # r => Once(About(to_client'), r)
  BY <1>5, AboutAppend
<1>7. Flight(r) /\ NoOrphan(r) /\ Distinct(r)
  BY <1>0, <1>1, <1>2 DEF OrderOnce
<1>8. NoOrphan(r)' /\ (ToSend(r)' <=> ToSend(r))
  BY <1>1, <1>7 DEF NoOrphan, ToSend
<1>9. CASE c = r
  <2>1. OnWay(r) /\ NotYet(r) /\ ~ToSend(r)
    BY <1>4, <1>9, RequestAlone
  <2>2. Coming(r)'
    BY <1>1, <1>4, <1>5, <1>6, <1>9, <2>1 DEF OnWay, Coming
  <2>3. m \in Told(r)'
    <3> SUFFICES ASSUME Ret(m) = -2 PROVE NotYet(r)'
      BY <1>5 DEF Told
    <3>1. v \in OrderVerdicts
      BY <1>9, CommandsApart DEF VerdictsFor, Requests
    <3>2. v = "busy"
      BY <1>5, <3>1 DEF Ret, OrderVerdicts
    <3>3. executed'[r] = executed[r]
      BY <1>v, <3>2 DEF Executes
    <3> QED
      BY <1>1, <2>1, <3>3 DEF NotYet
  <2>4. /\ to_client \in Seq(Told(r)') /\ inq \in Seq(Told(r)') /\ in_hand \in Seq(Told(r)')
    BY <1>0, <1>5, <2>1, AbsentTold DEF TypeOK, OnWay
  <2>5. Flight(r)'
    <3>1. to_client' \in Seq(Told(r)')
      BY <1>5, <2>3, <2>4, AppendProperties
    <3> QED
      BY <1>1, <1>8, <2>1, <2>2, <2>4, <3>1 DEF Flight, UnderWay
  <2>6. Distinct(r)'
    <3>1. CASE ~Executes(v)
      BY <1>v, <1>1, <1>7, <3>1 DEF Distinct
    <3>2. CASE Executes(v)
      <4>1. executed'[r] = Append(executed[r], sid) /\ executed[r] \in Seq(Nat) /\ sid \in Nat
        BY <1>0, <1>9, <1>v, <3>2 DEF TypeOK
      <4>2. sid \notin Range(executed[r])
        BY <2>1 DEF NotYet
      <4>3. /\ Range(executed'[r]) = Range(executed[r]) \cup {sid}
            /\ \A i, j \in DOMAIN executed'[r] : executed'[r][i] = executed'[r][j] => i = j
        BY <1>7, <4>1, <4>2, AppendDistinct DEF Distinct
      <4>4. \A n \in Range(executed'[r]) : n <= sid
        BY <1>7, <4>1, <4>3 DEF Distinct, Range
      <4>5. \A i \in DOMAIN executed'[r] : executed'[r][i] <= sid'
        BY <1>1, <4>4 DEF Range
      <4>6. \A o \in orphans' : o[2] = r => o[1] <= sid' /\ o[1] \notin Range(executed'[r])
        BY <1>1, <1>7, <4>3 DEF Distinct, NoOrphan
      <4> QED
        BY <4>3, <4>5, <4>6 DEF Distinct
    <3> QED
      BY <3>1, <3>2
  <2> QED
    BY <1>1, <1>2, <1>8, <2>5, <2>6 DEF OrderOnce
<1>10. CASE c # r
  <2>1. executed'[r] = executed[r]
    BY <1>v, <1>10
  <2>2. Told(r)' = Told(r) /\ (NotYet(r)' <=> NotYet(r)) /\ Distinct(r)'
    BY <1>1, <1>7, <2>1, ToldStays DEF Distinct
  <2>3. m \in Told(r)
    BY <1>5, <1>10 DEF Told
  <2>4. to_client' \in Seq(Told(r)') /\ in_hand' \in Seq(Told(r)') /\ inq' \in Seq(Told(r)')
    BY <1>1, <1>5, <1>7, <2>2, <2>3, AppendProperties DEF Flight
  <2>5. Nowhere(r) => Nowhere(r)'
    BY <1>1, <1>4, <1>5, <1>6, <1>10 DEF Nowhere
  <2>6. UnderWay(r)'
    <3>1. CASE OnWay(r) /\ NotYet(r)
      BY <1>1, <1>4, <1>5, <1>6, <1>10, <2>2, <3>1 DEF OnWay, UnderWay
    <3>2. CASE Coming(r)
      BY <1>1, <1>4, <1>5, <1>6, <1>10, <3>2 DEF Coming, UnderWay
    <3>3. CASE Held(r)
      BY <1>1, <1>4, <1>5, <1>6, <1>10, <3>3 DEF Held, UnderWay
    <3>4. CASE Arrived(r)
      BY <1>1, <1>4, <1>5, <1>6, <1>10, <3>4 DEF Arrived, UnderWay
    <3> QED
      BY <1>7, <2>5, <3>1, <3>2, <3>3, <3>4 DEF Flight, UnderWay
  <2>7. Flight(r)'
    BY <1>7, <1>8, <2>2, <2>4, <2>5, <2>6 DEF Flight
  <2> QED
    BY <1>1, <1>2, <1>8, <2>2, <2>7 DEF OrderOnce
<1> QED
  BY <1>9, <1>10

\* A request that outlived its connection is executed under that connection's number.
LEMMA OrphanOnce ==
    ASSUME OnceInv, NEW r \in Orders \ Batches, OrphanExecuted
    PROVE  OrderOnce(r)'
<1>0. TypeOK /\ OrderOnce(r)
  BY DEF OnceInv, ConservedInv, TypeInv
<1>1. PICK o \in orphans : /\ orphans' = orphans \ {o}
                           /\ executed' = [executed EXCEPT ![o[2]] = Append(@, o[1])]
  BY DEF OrphanExecuted
<1>2. UNCHANGED <<submitted, outq, inq, waiting_resp_q, pc, k, sid, in_hand, link, to_server, to_client>>
  BY DEF OrphanExecuted, app, run, io
<1>3. o[1] \in Nat /\ o[2] \in Orders
      /\ \A p \in orphans : p[1] = o[1] /\ p[2] = o[2] => p = o
  <2>1. \A p \in orphans : p = <<p[1], p[2]>> /\ p[1] \in Nat /\ p[2] \in Orders
    BY SMTT(30), <1>0 DEF TypeOK
  <2>2. \A p \in orphans : p[1] = o[1] /\ p[2] = o[2] => p = <<o[1], o[2]>>
    BY <2>1
  <2> QED
    BY <2>1, <2>2
<1>4. Distinct(r) /\ executed[r] \in Seq(Nat)
  BY <1>0 DEF OrderOnce, TypeOK
<1>5. NoOrphan(r) => NoOrphan(r)' /\ (NotYet(r)' <=> NotYet(r))
  <2> SUFFICES ASSUME NoOrphan(r) PROVE NoOrphan(r)' /\ (NotYet(r)' <=> NotYet(r))
    OBVIOUS
  <2>1. NoOrphan(r)'
    BY <1>1, <1>2 DEF NoOrphan
  <2>2. CASE o[2] # r
    BY <1>0, <1>1, <1>2, <2>1, <2>2 DEF NotYet, TypeOK
  <2>3. CASE o[2] = r
    <3>1. executed'[r] = Append(executed[r], o[1])
      BY <1>0, <1>1, <1>3, <2>3 DEF TypeOK
    <3>2. Range(executed'[r]) = Range(executed[r]) \cup {o[1]}
      BY <1>3, <1>4, <3>1, AppendRange
    <3>3. o[1] # sid
      BY <2>3 DEF NoOrphan
    <3> QED
      BY <1>2, <2>1, <3>2, <3>3 DEF NotYet
  <2> QED
    BY <2>2, <2>3
<1>6. Distinct(r)'
  <2>1. CASE o[2] # r
    <3>1. executed'[r] = executed[r]
      BY <1>0, <1>1, <2>1 DEF TypeOK
    <3> QED
      BY <1>1, <1>2, <1>4, <3>1 DEF Distinct
  <2>2. CASE o[2] = r
    <3>1. executed'[r] = Append(executed[r], o[1])
      BY <1>0, <1>1, <1>3, <2>2 DEF TypeOK
    <3>2. o[1] <= sid /\ o[1] \notin Range(executed[r])
      BY <1>4, <2>2 DEF Distinct
    <3>3. /\ Range(executed'[r]) = Range(executed[r]) \cup {o[1]}
          /\ \A i, j \in DOMAIN executed'[r] : executed'[r][i] = executed'[r][j] => i = j
      BY <1>3, <1>4, <3>1, <3>2, AppendDistinct DEF Distinct
    <3>r. \A n \in Range(executed[r]) : n <= sid
      BY <1>4 DEF Distinct, Range
    <3>4. \A n \in Range(executed'[r]) : n <= sid
      BY <3>2, <3>3, <3>r
    <3>5. \A i \in DOMAIN executed'[r] : executed'[r][i] <= sid'
      BY <1>2, <3>4 DEF Range
    <3>6. \A p \in orphans' : p[2] = r => p[1] <= sid' /\ p[1] \notin Range(executed'[r])
      BY <1>1, <1>2, <1>3, <1>4, <2>2, <3>3 DEF Distinct
    <3> QED
      BY <3>3, <3>5, <3>6 DEF Distinct
  <2> QED
    BY <2>1, <2>2
<1>7. link = "up" /\ pc \in Serving => Flight(r)'
  <2> SUFFICES ASSUME link = "up", pc \in Serving PROVE Flight(r)'
    OBVIOUS
  <2>1. Flight(r) /\ (NotYet(r)' <=> NotYet(r))
    BY <1>0, <1>5 DEF OrderOnce
  <2>2. Told(r)' = Told(r)
    BY <2>1 DEF Told
  <2> QED
    BY <1>2, <2>1, <2>2 DEF Flight, UnderWay, Nowhere, OnWay, Coming, Held, Arrived, ToSend
<1> QED
  BY <1>0, <1>2, <1>5, <1>6, <1>7 DEF OrderOnce

LEMMA ConnectOnce ==
    ASSUME OnceInv, NEW r \in Orders \ Batches,
           NewSession \/ Connected \/ ClearInq \/ LinkLost
    PROVE  OrderOnce(r)'
<1>0. TypeOK /\ OrderOnce(r) /\ SessionInv /\ StepwiseInv
  BY DEF OnceInv, ConservedInv, TypeInv
<1>1. CASE NewSession
  <2>1. /\ pc' = "waitConnected" /\ sid' = sid + 1 /\ UNCHANGED <<orphans, executed, link>>
        /\ link = "none" /\ sid \in Nat /\ executed[r] \in Seq(Nat)
    BY <1>0, <1>1 DEF NewSession, net, SessionInv, NothingStarted, Idle, TypeOK
  <2>2. \A n \in Range(executed[r]) : n \in Nat /\ n <= sid
    BY <1>0, <2>1, ElementOfSeq, LenProperties DEF OrderOnce, Distinct, Range
  <2>3. \A o \in orphans : o[1] \in Nat /\ (o[2] = r => o[1] <= sid)
    BY <1>0 DEF OrderOnce, Distinct, TypeOK
  <2>4. NotYet(r)' /\ NoOrphan(r)'
    BY <2>1, <2>2, <2>3 DEF NotYet, NoOrphan
  <2>5. Distinct(r)'
    <3>0. \A n \in Nat : n <= sid => n <= sid'
      BY <2>1
    <3>1. \A i \in DOMAIN executed'[r] : executed'[r][i] <= sid'
      <4>1. \A i \in DOMAIN executed[r] : executed[r][i] \in Range(executed[r])
        BY DEF Range
      <4>2. \A i \in DOMAIN executed[r] : executed[r][i] <= sid'
        BY <2>2, <3>0, <4>1
      <4> QED
        BY <2>1, <4>2
    <3>2. \A o \in orphans' : o[2] = r => o[1] <= sid'
      BY <2>1, <2>3, <3>0
    <3> QED
      BY <1>0, <2>1, <3>1, <3>2 DEF OrderOnce, Distinct
  <2> QED
    BY <2>1, <2>4, <2>5 DEF OrderOnce
<1>2. CASE Connected
  <2>1. /\ pc = "waitConnected" /\ pc' \notin Serving /\ UNCHANGED <<sid, orphans, executed>>
    BY <1>2 DEF Connected, Serving, exchange
  <2> QED
    BY <1>0, <2>1 DEF OrderOnce, Distinct, NoOrphan, NotYet
<1>3. CASE ClearInq
  <2>1. /\ pc = "onConnected" /\ pc' = "resend" /\ inq' = << >>
        /\ UNCHANGED <<sid, orphans, executed, link, to_server, to_client, in_hand>>
    BY <1>3 DEF ClearInq, io, net, exchange
  <2>2. to_server = << >> /\ to_client = << >> /\ in_hand = << >>
    BY <1>0, <2>1 DEF StepwiseInv, Serving
  <2>3. Distinct(r)' /\ (NoOrphan(r)' <=> NoOrphan(r)) /\ (NotYet(r)' <=> NotYet(r))
    BY <1>0, <2>1 DEF OrderOnce, Distinct, NoOrphan, NotYet
  <2>4. Nowhere(r)'
    BY <2>1, <2>2, AboutFew DEF Nowhere
  <2>5. to_client' \in Seq(Told(r)') /\ in_hand' \in Seq(Told(r)') /\ inq' \in Seq(Told(r)')
    BY <2>1, <2>2, EmptySeq
  <2>6. link = "up" => NotYet(r)'
    BY <1>0, <2>1, <2>3 DEF OrderOnce, Serving
  <2>7. link = "up" => Flight(r)'
    BY <2>4, <2>5, <2>6 DEF Flight, UnderWay
  <2> QED
    BY <1>0, <2>1, <2>3, <2>7 DEF OrderOnce, Serving
<1>4. CASE LinkLost
  <2>1. /\ link = "up" /\ link' # "up" /\ UNCHANGED <<pc, sid, executed>>
        /\ orphans' = orphans \cup {<<sid, o>> : o \in Orders \cap Range(to_server)}
    BY <1>4 DEF LinkLost, run, exchange
  <2>2. pc # "waitConnected"
    BY <1>0, <2>1 DEF SessionInv, NothingStarted, Idle
  <2>3. Distinct(r)'
    BY <2>1, OrphansOnce
  <2> QED
    BY <2>1, <2>2, <2>3 DEF OrderOnce
<1> QED
  BY <1>1, <1>2, <1>3, <1>4

\* Actions that touch no message; what is queued for sending stays within ToSend.
LEMMA QuietOnce ==
    ASSUME OnceInv, NEW r \in Orders \ Batches,
           \/ UNCHANGED vars \/ RunCallback \/ (\E o \in Orders : SendCmd(o))
           \/ ConnectFailed \/ LoggedIn \/ Subscribe \/ ResendDone \/ OutqEmpty \/ KeepAlive
    PROVE  OrderOnce(r)'
<1>0. TypeOK /\ OrderOnce(r)
  BY DEF OnceInv, ConservedInv, TypeInv
<1>1. CASE UNCHANGED vars \/ RunCallback \/ ConnectFailed \/ LoggedIn \/ ResendDone \/ OutqEmpty
           \/ KeepAlive
  <2>1. /\ UNCHANGED <<sid, link, orphans, executed, to_server, to_client, in_hand, inq, submitted, outq,
                       waiting_resp_q, k>>
        /\ pc' = "resend" => pc = "resend"
        /\ pc' \in Serving <=> pc \in Serving
        /\ pc' = "waitConnected" => pc = "waitConnected"
    BY <1>1 DEF vars, app, run, io, net, exchange, RunCallback, ConnectFailed, LoggedIn, ResendDone,
                OutqEmpty, KeepAlive, Serving
  <2>2. ToSend(r)' => ToSend(r)
    BY <2>1 DEF ToSend
  <2> QED
    BY <1>0, <2>1, <2>2, StillOnce
<1>2. ASSUME NEW o \in Orders, SendCmd(o) PROVE OrderOnce(r)'
  <2>1. /\ UNCHANGED <<sid, link, orphans, executed, to_server, to_client, in_hand, inq, pc,
                       waiting_resp_q, k>>
        /\ submitted' = submitted \cup {o} /\ outq' = Append(outq, o) /\ o \notin submitted
    BY <1>2 DEF SendCmd, run, io, net, exchange
  <2>2. ToSend(r)' => ToSend(r)
    <3>1. CASE o = r
      BY <2>1, <3>1 DEF ToSend
    <3>2. CASE o # r
      <4>1. outq \in Seq(Commands) /\ o \in Commands
        BY <1>0 DEF TypeOK, Commands, Requests
      <4>2. Absent(outq, r) => Absent(outq', r)
        BY <2>1, <3>2, <4>1, AppendOccurs
      <4> QED
        BY <2>1, <3>2, <4>2 DEF ToSend
    <3> QED
      BY <3>1, <3>2
  <2> QED
    BY <1>0, <2>1, <2>2, StillOnce
<1>3. CASE Subscribe
  <2>1. /\ UNCHANGED <<sid, link, orphans, executed, to_server, to_client, in_hand, inq, pc, submitted>>
        /\ pc = "onConnected" /\ outq' = Append(outq, Subscriptions[k])
    BY <1>3 DEF Subscribe, app, io, net, exchange
  <2>c. PICK c : c = Subscriptions[k]
    OBVIOUS
  <2>2. c \in Commands /\ c # r
    <3>1. k \in 1..Len(Subscriptions)
      BY <1>3, SubscriptionTypes DEF Subscribe, OnceInv, ConservedInv, TypeInv, TypeOK, LoopIndex
    <3>2. c \in Subs
      BY <2>c, <3>1, SubscriptionsSeq, ElementOfSeq
    <3> QED
      BY <3>2, CommandsApart DEF Commands, Requests
  <2>3. outq \in Seq(Commands) /\ outq' = Append(outq, c)
    BY <1>0, <2>1, <2>c DEF TypeOK
  <2>4. Absent(outq, r) => Absent(outq', r)
    BY <2>2, <2>3, AppendOccurs
  <2>5. ToSend(r)' => ToSend(r)
    BY <2>1, <2>4 DEF ToSend
  <2> QED
    BY <1>0, <2>1, <2>5, StillOnce
<1> QED
  BY <1>1, <1>2, <1>3

LEMMA NextOnce ==
    ASSUME OnceInv, [Next]_vars
    PROVE  OnceInv'
<1>1. ConservedInv' /\ SessionInv' /\ StepwiseInv'
  BY NextConserved, NextSession, NextStepwise DEF OnceInv, ConservedInv
<1>2. ASSUME NEW r \in Orders \ Batches PROVE OrderOnce(r)'
  <2>1. CASE LoginFailed \/ CloseCommand \/ ConnectionClosed \/ PingFailed
    BY <2>1, DropOnce DEF LoginFailed, CloseCommand, ConnectionClosed, PingFailed, exchange
  <2>2. CASE \/ UNCHANGED vars \/ RunCallback \/ (\E o \in Orders : SendCmd(o))
             \/ ConnectFailed \/ LoggedIn \/ Subscribe \/ ResendDone \/ OutqEmpty \/ KeepAlive
    BY <2>2, QuietOnce
  <2>3. CASE NewSession \/ Connected \/ ClearInq \/ LinkLost
    BY <2>3, ConnectOnce
  <2>4. CASE Resend \/ SendNext \/ StartRead \/ ParseIncomeData
    BY <2>4, ResendOnce, SendNextOnce, StartReadOnce, ParseOnce
  <2>5. CASE IoThread
    BY <2>5, ReadDoneOnce, ReadCallbackOnce, StaleOnce DEF IoThread
  <2>6. CASE ServerReplies \/ OrphanExecuted
    BY <2>6, ServerOnce, OrphanOnce
  <2> QED
    BY <2>1, <2>2, <2>3, <2>4, <2>5, <2>6 DEF Next, RunThread
<1> QED
  BY <1>1, <1>2 DEF OnceInv

\* OncePerSession: however often an order is sent again, the exchange executes it
\* at most once on any one connection.
THEOREM ExecutedOncePerSession == Spec => []OncePerSession
<1>1. Init => OnceInv
  <2> SUFFICES ASSUME Init PROVE OnceInv
    OBVIOUS
  <2>1. ConservedInv
    BY InitType, InitConserved DEF ConservedInv
  <2>2. SessionInv /\ StepwiseInv
    BY EmptySeq DEF Init, SessionInv, StepwiseInv, NothingStarted, Idle, Serving
  <2>3. ASSUME NEW r \in Orders \ Batches PROVE OrderOnce(r)
    <3>1. executed[r] = << >> /\ orphans = {} /\ link = "none" /\ pc = "connect"
      BY DEF Init
    <3> QED
      BY <3>1 DEF OrderOnce, Distinct
  <2> QED
    BY <2>1, <2>2, <2>3 DEF OnceInv
<1>2. OnceInv /\ [Next]_vars => OnceInv'
  BY NextOnce
<1>3. OnceInv => OncePerSession
  BY DEF OnceInv, OrderOnce, Distinct, OncePerSession
<1> QED
  BY <1>1, <1>2, <1>3, PTL DEF Spec
-----------------------------------------------------------------------------
(* Counting: how many elements of a sequence are in a set.                 *)

Count(s, T) == Cardinality({i \in DOMAIN s : s[i] \in T})

Flag(b) == IF b THEN 1 ELSE 0

LEMMA CountFinite ==
    ASSUME NEW S, NEW s \in Seq(S), NEW T
    PROVE  /\ IsFiniteSet({i \in DOMAIN s : s[i] \in T})
           /\ Count(s, T) \in Nat
<1>1. Len(s) \in Nat /\ DOMAIN s = 1..Len(s)
  BY LenProperties
<1>2. IsFiniteSet(1..Len(s))
  BY <1>1, FS_Interval
<1>3. IsFiniteSet({i \in DOMAIN s : s[i] \in T})
  BY <1>1, <1>2, FS_Subset
<1> QED
  BY <1>3, FS_CardinalityType DEF Count

LEMMA CountEmpty == \A T : Count(<< >>, T) = 0
<1> SUFFICES ASSUME NEW T PROVE Count(<< >>, T) = 0
  OBVIOUS
<1>1. {i \in DOMAIN << >> : << >>[i] \in T} = {}
  OBVIOUS
<1> QED
  BY <1>1, FS_EmptySet DEF Count

LEMMA CountAppend ==
    ASSUME NEW S, NEW s \in Seq(S), NEW e \in S, NEW T
    PROVE  Count(Append(s, e), T) = Count(s, T) + Flag(e \in T)
<1> DEFINE D == {i \in DOMAIN s : s[i] \in T}
           E == {i \in DOMAIN Append(s, e) : Append(s, e)[i] \in T}
           n == Len(s)
<1>1. /\ n \in Nat /\ DOMAIN s = 1..n /\ DOMAIN Append(s, e) = 1..(n + 1)
      /\ Append(s, e)[n + 1] = e
      /\ \A i \in 1..n : Append(s, e)[i] = s[i]
  <2>1. Append(s, e) \in Seq(S) /\ Len(Append(s, e)) = n + 1
    BY AppendProperties
  <2>2. n \in Nat /\ DOMAIN s = 1..n
    BY LenProperties
  <2>3. DOMAIN Append(s, e) = 1..(n + 1)
    BY <2>1, LenProperties
  <2> QED
    BY <2>2, <2>3, AppendProperties
<1>2. IsFiniteSet(D) /\ n + 1 \notin D
  <2>1. n + 1 \notin 1..n
    BY <1>1
  <2> QED
    BY <1>1, <2>1, CountFinite
<1>3. CASE e \in T
  <2>1. E = D \cup {n + 1}
    BY <1>1, <1>3
  <2> QED
    BY <1>2, <1>3, <2>1, FS_AddElement DEF Count, Flag
<1>4. CASE e \notin T
  <2>1. E = D
    BY <1>1, <1>4
  <2>2. Count(Append(s, e), T) = Count(s, T)
    BY <2>1 DEF Count
  <2>3. Count(s, T) \in Nat
    BY CountFinite
  <2> HIDE DEF D, E
  <2> QED
    BY <1>4, <2>2, <2>3 DEF Flag
<1> QED
  BY <1>3, <1>4

LEMMA CountTail ==
    ASSUME NEW S, NEW s \in Seq(S), s # << >>, NEW T
    PROVE  Count(s, T) = Count(Tail(s), T) + Flag(Head(s) \in T)
<1> DEFINE D == {i \in DOMAIN s : s[i] \in T}
           E == {i \in DOMAIN Tail(s) : Tail(s)[i] \in T}
           n == Len(s)
           f == [i \in E |-> i + 1]
<1>1. n \in Nat /\ n >= 1 /\ DOMAIN s = 1..n
  BY LenProperties, EmptySeq
<1>2. DOMAIN Tail(s) = 1..(n - 1) /\ \A i \in 1..(n - 1) : Tail(s)[i] = s[i + 1]
  <2>1. Tail(s) \in Seq(S) /\ Len(Tail(s)) = n - 1
    BY HeadTailProperties
  <2> QED
    BY <2>1, HeadTailProperties, LenProperties
<1>3. Head(s) = s[1]
  OBVIOUS
<1>4. IsFiniteSet(D) /\ IsFiniteSet(E)
  BY ZenonT(30), CountFinite, HeadTailProperties
<1>5. Cardinality(D \ {1}) = Cardinality(E)
  <2>1. f \in [E -> D \ {1}]
    <3> SUFFICES ASSUME NEW i \in E PROVE i + 1 \in D \ {1}
      OBVIOUS
    <3>1. i \in 1..(n - 1) /\ s[i + 1] \in T
      BY <1>2
    <3>2. i + 1 \in 1..n /\ i + 1 # 1
      BY <1>1, <3>1
    <3> QED
      BY <1>1, <3>1, <3>2
  <2>2. \A i, j \in E : f[i] = f[j] => i = j
    <3>1. E \subseteq 1..(n - 1)
      BY <1>2
    <3> QED
      BY <1>1, <3>1
  <2>3. \A j \in D \ {1} : \E i \in E : f[i] = j
    <3> SUFFICES ASSUME NEW j \in D \ {1} PROVE j - 1 \in E /\ (j - 1) + 1 = j
      BY Zenon
    <3>1. j \in 1..n /\ j # 1 /\ s[j] \in T
      BY <1>1
    <3>2. j - 1 \in 1..(n - 1) /\ (j - 1) + 1 = j
      BY <1>1, <3>1
    <3> QED
      BY <1>2, <3>1, <3>2
  <2>4. f \in Bijection(E, D \ {1})
    BY <2>1, <2>2, <2>3 DEF Bijection, Injection, Surjection, IsInjective
  <2>5. ExistsBijection(E, D \ {1})
    BY <2>4 DEF ExistsBijection
  <2> QED
    BY <1>4, <2>5, FS_Bijection
<1>6. Cardinality(D) \in Nat /\ Cardinality(E) \in Nat
  BY <1>4, FS_CardinalityType
<1>7. 1 \in D <=> Head(s) \in T
  BY <1>1, <1>3
<1>8. Cardinality(D \ {1}) = IF 1 \in D THEN Cardinality(D) - 1 ELSE Cardinality(D)
  BY <1>4, FS_RemoveElement
<1> HIDE DEF D, E
<1>9. Cardinality(D) = Cardinality(E) + Flag(Head(s) \in T)
  BY <1>5, <1>6, <1>7, <1>8 DEF Flag
<1> QED
  BY <1>9 DEF Count, D, E

LEMMA CountOne ==
    ASSUME NEW S, NEW e \in S, NEW T
    PROVE  Count(<< e >>, T) = Flag(e \in T)
<1>1. Append(<< >>, e) = << e >> /\ << >> \in Seq(S)
  BY EmptySeq
<1>2. Count(Append(<< >>, e), T) = Count(<< >>, T) + Flag(e \in T)
  BY <1>1, CountAppend
<1> QED
  BY <1>1, <1>2, CountEmpty DEF Flag

-----------------------------------------------------------------------------
(* Reasons.  Every session that was given up was given up for a failure of *)
(* its own; a failure that has not yet ended its session is still to be    *)
(* seen: a Close in outq_, a demand to log in again on its way, or a       *)
(* connection the loop has not found lost yet.                             *)

Relogins == {m \in Messages : m.verdict = "relogin"}

Ends(s) == \E i \in DOMAIN s : s[i].verdict = "closed"

Lost == \/ link \in {"reset", "silent"}
        \/ clobbered
        \/ Ends(in_hand)
        \/ pc \in Serving /\ Ends(inq)

Received == IF pc \in Serving THEN inq ELSE << >>

GivenUp == IF pc = "connect" THEN sid ELSE sid - 1

Pending == Count(outq, {Close}) + Count(to_client, Relogins) + Count(in_hand, Relogins)
           + Count(Received, Relogins) + Flag(Lost)

ReasonsInv ==
    /\ pc \notin Idle => link # "none"
    /\ faults >= GivenUp + Pending

\* The numbers the potential is the sum of.
PendingType ==
    /\ Count(outq, {Close}) \in Nat /\ Count(to_client, Relogins) \in Nat
    /\ Count(in_hand, Relogins) \in Nat /\ Count(Received, Relogins) \in Nat
    /\ Flag(Lost) \in 0..1 /\ faults \in Nat /\ sid \in Nat
    /\ to_client \in Seq(Messages) /\ Received \in Seq(Messages)

LEMMA PendingTypes == TypeOK => PendingType
<1> SUFFICES ASSUME TypeOK PROVE PendingType
  OBVIOUS
<1>1. to_client \in Seq(Messages)
  BY SeqMonotonic DEF TypeOK, Messages
<1>2. Received \in Seq(Messages)
  BY EmptySeq DEF TypeOK, Received
<1>3. Count(outq, {Close}) \in Nat
  BY CountFinite DEF TypeOK
<1>4. Count(to_client, Relogins) \in Nat
  BY <1>1, CountFinite
<1>5. Count(in_hand, Relogins) \in Nat
  BY CountFinite DEF TypeOK
<1>6. Count(Received, Relogins) \in Nat
  BY <1>2, CountFinite
<1> QED
  BY <1>1, <1>2, <1>3, <1>4, <1>5, <1>6 DEF TypeOK, Flag, PendingType

\* A session that is dropped takes with it what was pending, but for outq_.
LEMMA DropPending ==
    ASSUME TypeOK, ReasonsInv, DropSession, UNCHANGED sid, pc # "connect",
           faults' \in Nat,
           Count(outq', {Close}) \in Nat,
           \/ faults' > faults /\ Count(outq', {Close}) <= Count(outq, {Close})
           \/ Lost /\ faults' >= faults /\ Count(outq', {Close}) <= Count(outq, {Close})
           \/ Count(outq', {Close}) < Count(outq, {Close}) /\ faults' >= faults
    PROVE  ReasonsInv'
<1>1. /\ to_client' = << >> /\ in_hand' = << >> /\ Received' = << >> /\ ~Lost'
      /\ GivenUp' = sid /\ GivenUp = sid - 1
  BY DEF DropSession, Received, Lost, Ends, Serving, GivenUp
<1>2. Pending' = Count(outq', {Close})
  <2>1. /\ Count(to_client', Relogins) = 0 /\ Count(in_hand', Relogins) = 0
        /\ Count(Received', Relogins) = 0 /\ Flag(Lost') = 0
    BY <1>1, CountEmpty DEF Flag
  <2> QED
    BY <2>1 DEF Pending
<1>3. faults' >= GivenUp' + Pending'
  <2>1. PICK n, f, f1, c, c1, a, b, d, e :
          /\ n = sid /\ f = faults /\ f1 = faults'
          /\ c = Count(outq, {Close}) /\ c1 = Count(outq', {Close})
          /\ a = Count(to_client, Relogins) /\ b = Count(in_hand, Relogins)
          /\ d = Count(Received, Relogins) /\ e = Flag(Lost)
    OBVIOUS
  <2>2. /\ n \in Nat /\ f \in Nat /\ f1 \in Nat /\ c \in Nat /\ c1 \in Nat
        /\ a \in Nat /\ b \in Nat /\ d \in Nat /\ e \in 0..1
    BY <2>1, PendingTypes DEF PendingType
  <2>3. f >= n - 1 + (c + a + b + d + e)
    BY <1>1, <2>1 DEF ReasonsInv, Pending
  <2>4. \/ f1 > f /\ c1 <= c
        \/ e = 1 /\ f1 >= f /\ c1 <= c
        \/ c1 < c /\ f1 >= f
    BY <2>1 DEF Flag
  <2>5. f1 >= n + c1
    BY <2>2, <2>3, <2>4
  <2> QED
    BY <1>1, <1>2, <2>1, <2>5
<1> QED
  BY <1>3 DEF ReasonsInv, DropSession, Idle

\* A step that drops no session and adds nothing to what is pending but what
\* it pays for with a failure.
LEMMA PendingKept ==
    ASSUME TypeOK, TypeOK', ReasonsInv, GivenUp' = GivenUp, pc' \notin Idle => link' # "none",
           faults' - faults >= Pending' - Pending
    PROVE  ReasonsInv'
<1>1. Pending \in Int /\ Pending' \in Int /\ faults \in Nat /\ faults' \in Nat /\ GivenUp \in Int
  <2>1. Pending \in Int
    BY PendingTypes DEF Pending, PendingType
  <2>2. Pending' \in Int
    <3>1. PendingType'
      BY PendingTypes, PTL
    <3> QED
      BY <3>1 DEF Pending, PendingType
  <2> QED
    BY <2>1, <2>2 DEF TypeOK, GivenUp
<1>2. PICK f, f1, p, p1, g : /\ f = faults /\ f1 = faults' /\ p = Pending /\ p1 = Pending'
                           /\ g = GivenUp
  OBVIOUS
<1>3. f1 >= g + p1
  <2>1. /\ f \in Nat /\ f1 \in Nat /\ p \in Int /\ p1 \in Int /\ g \in Int
        /\ f1 - f >= p1 - p /\ f >= g + p
    BY <1>1, <1>2 DEF ReasonsInv
  <2> QED
    BY <2>1
<1>4. faults' >= GivenUp' + Pending'
  BY <1>2, <1>3
<1> QED
  BY <1>4 DEF ReasonsInv
LEMMA PendingSteps ==
    ASSUME TypeOK, TypeOK', ReasonsInv, GivenUp' = GivenUp, pc' \notin Idle => link' # "none",
           NEW dc \in Int, NEW da \in Int, NEW db \in Int, NEW dd \in Int, NEW df \in Int,
           Count(outq', {Close}) = Count(outq, {Close}) + dc,
           Count(to_client', Relogins) = Count(to_client, Relogins) + da,
           Count(in_hand', Relogins) = Count(in_hand, Relogins) + db,
           Count(Received', Relogins) = Count(Received, Relogins) + dd,
           faults' = faults + df,
           df >= dc + da + db + dd, Lost' => Lost \/ df >= dc + da + db + dd + 1
    PROVE  ReasonsInv'
<1>1. PICK f, f1, c, c1, a, a1, b, b1, d, d1, e, e1 :
        /\ f = faults /\ f1 = faults'
        /\ c = Count(outq, {Close}) /\ c1 = Count(outq', {Close})
        /\ a = Count(to_client, Relogins) /\ a1 = Count(to_client', Relogins)
        /\ b = Count(in_hand, Relogins) /\ b1 = Count(in_hand', Relogins)
        /\ d = Count(Received, Relogins) /\ d1 = Count(Received', Relogins)
        /\ e = Flag(Lost) /\ e1 = (IF Lost' THEN 1 ELSE 0)
  OBVIOUS
<1>2. /\ f \in Nat /\ c \in Nat /\ a \in Nat /\ b \in Nat /\ d \in Nat /\ e \in 0..1 /\ e1 \in 0..1
  BY <1>1, PendingTypes DEF PendingType
<1>3. /\ f1 = f + df /\ c1 = c + dc /\ a1 = a + da /\ b1 = b + db /\ d1 = d + dd
  BY <1>1
<1>4. e1 <= e \/ df >= dc + da + db + dd + 1
  BY <1>1 DEF Flag
<1>5. Pending = c + a + b + d + e
  BY <1>1 DEF Pending
<1>6. Pending' = c1 + a1 + b1 + d1 + e1
  <2>1. Flag(Lost)' = e1
    BY <1>1 DEF Flag
  <2> QED
    BY <1>1, <2>1 DEF Pending
<1>7. f1 - f >= (c1 + a1 + b1 + d1 + e1) - (c + a + b + d + e)
  BY <1>2, <1>3, <1>4
<1>8. faults' - faults >= Pending' - Pending
  BY <1>1, <1>5, <1>6, <1>7
<1> QED
  BY <1>8, PendingKept

\* Steps that leave the network and the reads alone.
LEMMA PendingOutq ==
    ASSUME TypeOK, TypeOK', ReasonsInv, GivenUp' = GivenUp, pc' \notin Idle => link' # "none",
           UNCHANGED <<to_client, in_hand, clobbered, faults>>,
           link' = link \/ link' = "up",
           Received' = Received \/ Received' = << >>,
           Count(outq', {Close}) <= Count(outq, {Close})
    PROVE  ReasonsInv'
<1>1. PICK c, c1, d, d1 :
        /\ c = Count(outq, {Close}) /\ c1 = Count(outq', {Close})
        /\ d = Count(Received, Relogins) /\ d1 = Count(Received', Relogins)
  OBVIOUS
<1>2. /\ c \in Nat /\ d \in Nat /\ c1 \in Nat /\ c1 <= c
  <2>1. c1 \in Nat
    <3>1. outq' \in Seq(Commands)
      BY DEF TypeOK
    <3> QED
      BY <1>1, <3>1, CountFinite
  <2> QED
    BY <1>1, <2>1, PendingTypes DEF PendingType
<1>3. d1 = d \/ d1 = 0
  BY <1>1, CountEmpty
<1>4. Lost' => Lost
  <2>1. (pc' \in Serving /\ Ends(inq')) => Ends(Received')
    BY DEF Received
  <2>2. Ends(Received) => pc \in Serving /\ Ends(inq)
    BY DEF Received, Ends
  <2>3. ~Ends(<< >>)
    BY DEF Ends
  <2>4. Ends(in_hand') <=> Ends(in_hand)
    OBVIOUS
  <2> QED
    BY <2>1, <2>2, <2>3, <2>4 DEF Lost
<1>5. faults \in Int /\ (c1 - c) \in Int /\ (d1 - d) \in Int /\ 0 \in Int
  BY SMTT(30), <1>2, <1>3 DEF TypeOK
<1>6. /\ Count(outq', {Close}) = Count(outq, {Close}) + (c1 - c)
      /\ Count(Received', Relogins) = Count(Received, Relogins) + (d1 - d)
      /\ Count(to_client', Relogins) = Count(to_client, Relogins) + 0
      /\ Count(in_hand', Relogins) = Count(in_hand, Relogins) + 0
      /\ faults' = faults + 0
  <2>1. c1 = c + (c1 - c) /\ d1 = d + (d1 - d)
    BY <1>2, <1>3
  <2>2. Count(to_client, Relogins) \in Nat /\ Count(in_hand, Relogins) \in Nat
    BY PendingTypes DEF PendingType
  <2> QED
    BY <1>1, <1>5, <2>1, <2>2
<1>7. 0 >= (c1 - c) + 0 + 0 + (d1 - d)
  BY <1>2, <1>3
<1> QED
  BY <1>4, <1>5, <1>6, <1>7, PendingSteps

\* No request is the Close command.
LEMMA CloseCounts ==
    ASSUME TypeOK
    PROVE  /\ \A r \in Requests : Count(Append(outq, r), {Close}) = Count(outq, {Close})
           /\ Count(Append(outq, Close), {Close}) = Count(outq, {Close}) + 1
           /\ outq # << >> =>
                Count(outq, {Close}) = Count(Tail(outq), {Close}) + Flag(Head(outq) = Close)
<1>0. outq \in Seq(Commands) /\ Count(outq, {Close}) \in Nat
  BY PendingTypes DEF TypeOK, PendingType
<1>1. ASSUME NEW r \in Requests
      PROVE  Count(Append(outq, r), {Close}) = Count(outq, {Close})
  <2>1. r \in Commands /\ r \notin {Close}
    BY CommandsApart DEF Commands
  <2>2. Count(Append(outq, r), {Close}) = Count(outq, {Close}) + Flag(r \in {Close})
    BY <1>0, <2>1, CountAppend
  <2> QED
    BY <1>0, <2>1, <2>2 DEF Flag
<1>2. Count(Append(outq, Close), {Close}) = Count(outq, {Close}) + 1
  <2>1. Count(Append(outq, Close), {Close}) = Count(outq, {Close}) + Flag(Close \in {Close})
    BY <1>0, CountAppend DEF Commands
  <2> QED
    BY <2>1 DEF Flag
<1>3. outq # << >> =>
        Count(outq, {Close}) = Count(Tail(outq), {Close}) + Flag(Head(outq) \in {Close})
  BY <1>0, CountTail
<1>4. Flag(Head(outq) \in {Close}) = Flag(Head(outq) = Close)
  BY DEF Flag
<1> QED
  BY <1>1, <1>2, <1>3, <1>4

LEMMA ConnectReasons ==
    ASSUME TypeInv, TypeOK', ReasonsInv,
           ReasonsInv,
           UNCHANGED vars \/ RunCallback \/ (\E r \in Orders : SendCmd(r)) \/ OrphanExecuted
             \/ NewSession \/ Connected \/ ConnectFailed \/ LoggedIn \/ Subscribe \/ ClearInq
             \/ ResendDone \/ OutqEmpty \/ KeepAlive
    PROVE  ReasonsInv'
<1> USE DEF Serving, Idle
<1>a. TypeOK
  BY DEF TypeInv
<1>0. pc \notin Idle => link # "none"
  BY DEF ReasonsInv
<1>1. Count(outq, {Close}) \in Nat
  BY <1>a, PendingTypes DEF PendingType
<1>2. CASE UNCHANGED vars \/ RunCallback \/ OrphanExecuted
  <2>1. UNCHANGED <<outq, inq, in_hand, clobbered, link, to_client, pc, sid, faults>>
    BY <1>2 DEF vars, run, io, net, RunCallback, OrphanExecuted
  <2>2. GivenUp' = GivenUp /\ Received' = Received
    BY <2>1 DEF GivenUp, Received
  <2> QED
    BY <1>0, <1>1, <2>1, <2>2, <1>a, PendingOutq
<1>3. CASE \E r \in Orders : SendCmd(r)
  <2>1. PICK r \in Orders : SendCmd(r)
    BY <1>3
  <2>2. UNCHANGED <<inq, in_hand, clobbered, link, to_client, pc, sid, faults>>
        /\ outq' = Append(outq, r)
    BY <2>1 DEF run, io, net, SendCmd
  <2>3. Count(outq', {Close}) <= Count(outq, {Close})
    <3>1. r \in Requests
      BY DEF Requests
    <3>2. Count(outq', {Close}) = Count(outq, {Close})
      BY <2>2, <3>1, <1>a, CloseCounts
    <3> QED
      BY <1>1, <3>2
  <2>4. GivenUp' = GivenUp /\ Received' = Received
    BY <2>2 DEF GivenUp, Received
  <2> QED
    BY <1>0, <2>2, <2>3, <2>4, <1>a, PendingOutq
<1>4. CASE NewSession
  <2>1. /\ UNCHANGED <<outq, inq, in_hand, clobbered, link, to_client, faults>>
        /\ pc = "connect" /\ pc' = "waitConnected" /\ sid' = sid + 1
    BY <1>4 DEF NewSession, io, net
  <2>2. GivenUp' = GivenUp /\ Received' = Received
    BY <1>a, <2>1 DEF GivenUp, Received, TypeOK
  <2> QED
    BY <1>1, <2>1, <2>2, <1>a, PendingOutq
<1>5. CASE Connected
  <2>1. /\ UNCHANGED <<outq, inq, in_hand, clobbered, to_client, sid, faults>>
        /\ pc = "waitConnected" /\ pc' \in {"login", "onConnected"} /\ link' = "up"
    BY <1>5 DEF Connected, io
  <2>2. GivenUp' = GivenUp /\ Received' = Received
    BY <2>1 DEF GivenUp, Received
  <2> QED
    BY <1>1, <2>1, <2>2, <1>a, PendingOutq
<1>6. CASE LoggedIn \/ ResendDone \/ OutqEmpty \/ KeepAlive
  <2>1. /\ UNCHANGED <<outq, inq, in_hand, clobbered, link, to_client, sid, faults>>
        /\ pc \notin Idle /\ pc' \notin Idle
        /\ pc \in Serving <=> pc' \in Serving
    BY <1>6 DEF LoggedIn, ResendDone, OutqEmpty, KeepAlive, io, net
  <2>2. GivenUp' = GivenUp /\ Received' = Received
    BY <2>1 DEF GivenUp, Received
  <2> QED
    BY <1>0, <1>1, <2>1, <2>2, <1>a, PendingOutq
<1>7. CASE Subscribe
  <2>1. /\ UNCHANGED <<inq, in_hand, clobbered, link, to_client, pc, sid, faults>>
        /\ outq' = Append(outq, Subscriptions[k]) /\ pc = "onConnected" /\ k <= Len(Subscriptions)
    BY <1>7 DEF Subscribe, io, net
  <2>2. Count(outq', {Close}) <= Count(outq, {Close})
    <3>1. k \in 1..Len(Subscriptions)
      BY <2>1, SubscriptionTypes DEF TypeInv, TypeOK, LoopIndex
    <3>2. Subscriptions[k] \in Requests
      BY <3>1, SubscriptionsSeq, ElementOfSeq DEF Requests
    <3>3. Count(outq', {Close}) = Count(outq, {Close})
      BY <2>1, <3>2, <1>a, CloseCounts
    <3> QED
      BY <1>1, <3>3
  <2>3. GivenUp' = GivenUp /\ Received' = Received
    BY <2>1 DEF GivenUp, Received
  <2> QED
    BY <1>0, <2>1, <2>2, <2>3, <1>a, PendingOutq
<1>8. CASE ClearInq
  <2>1. /\ UNCHANGED <<outq, in_hand, clobbered, link, to_client, sid, faults>>
        /\ inq' = << >> /\ pc = "onConnected" /\ pc' = "resend"
    BY <1>8 DEF ClearInq, io, net
  <2>2. GivenUp' = GivenUp /\ Received' = << >>
    BY <2>1 DEF GivenUp, Received
  <2> QED
    BY <1>0, <1>1, <2>1, <2>2, <1>a, PendingOutq
<1>9. CASE ConnectFailed
  <2>1. /\ UNCHANGED <<outq, in_hand, clobbered, link, to_client, sid, inq>>
        /\ pc = "waitConnected" /\ pc' = "connect" /\ faults' = faults + 1
    BY <1>9 DEF ConnectFailed, Fault, io, net
  <2>2. Received' = Received /\ GivenUp = sid - 1 /\ GivenUp' = sid
    BY <2>1 DEF GivenUp, Received
  <2>3. Pending' = Pending
    <3>1. Lost' <=> Lost
      BY <2>1 DEF Lost, Ends
    <3>2. Flag(Lost)' = Flag(Lost)
      BY <3>1 DEF Flag
    <3> QED
      BY <2>1, <2>2, <3>2 DEF Pending
  <2>4. PICK f, p, n : f = faults /\ p = Pending /\ n = sid
    OBVIOUS
  <2>5. f \in Nat /\ p \in Int /\ n \in Nat /\ f >= n - 1 + p
    BY <2>2, <2>4, <1>a, PendingTypes DEF PendingType, Pending, ReasonsInv
  <2>6. f + 1 >= n + p
    BY <2>5
  <2>7. faults' >= GivenUp' + Pending'
    BY <2>1, <2>2, <2>3, <2>4, <2>6
  <2> QED
    BY <2>1, <2>7 DEF ReasonsInv
<1> QED
  BY <1>2, <1>3, <1>4, <1>5, <1>6, <1>7, <1>8, <1>9

\* The sessions that are given up.
LEMMA DropReasons ==
    ASSUME TypeOK, TypeOK', ReasonsInv, pc # "connect",
           \/ LoginFailed \/ PingFailed \/ CloseCommand \/ ConnectionClosed
           \/ (Resend \/ SendNext) /\ WriteThrows
    PROVE  ReasonsInv'
<1>0. /\ Count(outq, {Close}) \in Nat /\ Count(outq', {Close}) \in Nat
      /\ faults \in Nat /\ faults' \in Nat
  <2>1. outq' \in Seq(Commands)
    BY DEF TypeOK
  <2> QED
    BY <2>1, CountFinite, PendingTypes DEF PendingType, TypeOK
<1>1. ASSUME UNCHANGED outq
      PROVE  Count(outq', {Close}) <= Count(outq, {Close})
  BY <1>0, <1>1
<1>2. CASE LoginFailed \/ PingFailed
  <2>1. DropSession /\ UNCHANGED <<outq, sid>> /\ pc \notin Idle
    BY <1>2 DEF LoginFailed, PingFailed, Idle
  <2>2. (link # "up" /\ UNCHANGED faults) \/ faults' = faults + 1
    BY <1>2 DEF LoginFailed, PingFailed, Fault
  <2>3. link # "up" => Lost
    BY <2>1 DEF ReasonsInv, Lost, TypeOK
  <2>4. faults' > faults \/ (Lost /\ faults' >= faults)
    BY <1>0, <2>2, <2>3
  <2> QED
    BY <1>0, <1>1, <2>1, <2>4, DropPending
<1>3. CASE CloseCommand
  <2>1. /\ DropSession /\ UNCHANGED <<sid, faults>>
        /\ outq # << >> /\ Head(outq) = Close /\ outq' = Tail(outq)
    BY <1>3 DEF CloseCommand
  <2>2. Count(outq, {Close}) = Count(outq', {Close}) + 1
    BY <2>1, CloseCounts DEF Flag
  <2>3. Count(outq', {Close}) < Count(outq, {Close}) /\ faults' >= faults
    BY <1>0, <2>1, <2>2
  <2> QED
    BY <1>0, <2>1, <2>3, DropPending
<1>4. CASE ConnectionClosed
  <2>1. /\ DropSession /\ UNCHANGED <<outq, sid, faults>>
        /\ pc = "inq" /\ inq # << >> /\ Head(inq).verdict = "closed"
    BY <1>4 DEF ConnectionClosed
  <2>2. Lost
    <3>1. inq \in Seq(Messages)
      BY DEF TypeOK
    <3>2. 1 \in DOMAIN inq /\ Head(inq) = inq[1]
      BY <2>1, <3>1, EmptySeq, LenProperties
    <3> QED
      BY <2>1, <3>2 DEF Lost, Ends, Serving
  <2> QED
    BY <1>0, <1>1, <2>1, <2>2, DropPending
<1>5. CASE (Resend \/ SendNext) /\ WriteThrows
  <2>1. DropSession /\ link = "reset" /\ UNCHANGED <<sid, faults>>
    BY <1>5 DEF WriteThrows, Resend, SendNext
  <2>2. Count(outq', {Close}) <= Count(outq, {Close})
    <3>1. CASE Resend
      BY <1>1, <3>1 DEF Resend
    <3>2. CASE SendNext
      <4>1. outq # << >> /\ Head(outq) # Close /\ outq' = Tail(outq)
        BY <3>2 DEF SendNext
      <4>2. Count(outq, {Close}) = Count(outq', {Close}) + 0
        BY <4>1, CloseCounts DEF Flag
      <4> QED
        BY <1>0, <4>2
    <3> QED
      BY <1>5, <3>1, <3>2
  <2>3. Lost
    BY <2>1 DEF Lost
  <2> QED
    BY <1>0, <2>1, <2>2, <2>3, DropPending
<1> QED
  BY <1>2, <1>3, <1>4, <1>5

\* Requests that are written.
LEMMA WriteReasons ==
    ASSUME TypeOK, TypeOK', ReasonsInv, Resend \/ SendNext, ~WriteThrows
    PROVE  ReasonsInv'
<1>0. Count(outq, {Close}) \in Nat /\ Count(outq', {Close}) \in Nat
  <2>1. outq' \in Seq(Commands)
    BY DEF TypeOK
  <2> QED
    BY <2>1, CountFinite, PendingTypes DEF PendingType
<1>1. UNCHANGED <<inq, in_hand, clobbered, link, to_client, pc, sid, faults>>
  BY DEF Resend, SendNext, Written, io
<1>2. GivenUp' = GivenUp /\ Received' = Received
  BY <1>1 DEF GivenUp, Received
<1>3. Count(outq', {Close}) <= Count(outq, {Close})
  <2>1. CASE Resend
    BY <1>0, <2>1 DEF Resend
  <2>2. CASE SendNext
    <3>1. outq # << >> /\ Head(outq) # Close /\ outq' = Tail(outq)
      BY <2>2 DEF SendNext
    <3>2. Count(outq, {Close}) = Count(outq', {Close}) + 0
      BY <3>1, CloseCounts DEF Flag
    <3> QED
      BY <1>0, <3>2
  <2> QED
    BY <2>1, <2>2
<1>4. pc' \notin Idle => link' # "none"
  BY <1>1 DEF ReasonsInv
<1> QED
  BY <1>1, <1>2, <1>3, <1>4, PendingOutq

\* Messages that move on: from the exchange into in_hand and on into inq_.
LEMMA ReadReasons ==
    ASSUME TypeOK, TypeOK', SessionInv, ReasonsInv, ReadDone \/ ReadCallback \/ StaleCallback
    PROVE  ReasonsInv'
<1> DEFINE R == Relogins
<1>0. /\ PendingType
      /\ pc \notin Idle => link # "none"
  BY PendingTypes DEF ReasonsInv
<1>1. PICK f, c, a, b, d :
        /\ f = faults /\ c = Count(outq, {Close}) /\ a = Count(to_client, R)
        /\ b = Count(in_hand, R) /\ d = Count(Received, R)
  OBVIOUS
<1>2. f \in Nat /\ c \in Nat /\ a \in Nat /\ b \in Nat /\ d \in Nat
  BY <1>0, <1>1 DEF PendingType
<1>3. UNCHANGED <<outq, pc, sid, link, faults>> /\ GivenUp' = GivenUp
  BY DEF ReadDone, ReadCallback, StaleCallback, run, net, GivenUp
<1>4. ASSUME NEW a1, NEW b1, NEW d1, a1 \in Nat, b1 \in Nat, d1 \in Nat,
             Count(to_client', R) = a1, Count(in_hand', R) = b1, Count(Received', R) = d1,
             a1 + b1 + d1 <= a + b + d, Lost' => Lost
      PROVE  ReasonsInv'
  <2>1. PICK da, db, dd : da = a1 - a /\ db = b1 - b /\ dd = d1 - d
    OBVIOUS
  <2>2. /\ da \in Int /\ db \in Int /\ dd \in Int /\ 0 \in Int
        /\ a1 = a + da /\ b1 = b + db /\ d1 = d + dd /\ c = c + 0 /\ f = f + 0
        /\ 0 >= 0 + da + db + dd
    BY <1>2, <1>4, <2>1
  <2>3. /\ Count(outq', {Close}) = Count(outq, {Close}) + 0
        /\ faults' = faults + 0
    BY <1>1, <1>3, <2>2
  <2>4. /\ Count(to_client', R) = Count(to_client, R) + da
        /\ Count(in_hand', R) = Count(in_hand, R) + db
        /\ Count(Received', R) = Count(Received, R) + dd
    BY <1>1, <1>4, <2>2
  <2>5. pc' \notin Idle => link' # "none"
    BY <1>0, <1>3
  <2> QED
    BY <1>3, <1>4, <2>2, <2>3, <2>4, <2>5, PendingSteps
<1>5. CASE ReadDone
  <2>1. in_hand = << >> /\ b = 0 /\ Received' = Received
    BY <1>1, <1>3, <1>5, CountEmpty DEF ReadDone, Received
  <2>2. CASE /\ to_client # << >>
             /\ to_client' = Tail(to_client)
             /\ \E n \in (IF clobbered THEN Clobber(Head(to_client)) ELSE {Head(to_client)}) :
                  in_hand' = <<n>>
    <3>1. PICK m : m = Head(to_client)
      OBVIOUS
    <3>2. PICK n \in (IF clobbered THEN Clobber(m) ELSE {m}) : in_hand' = <<n>>
      BY <2>2, <3>1
    <3>3. m \in Replies /\ m \in Messages /\ to_client' \in Seq(Messages)
      <4>1. to_client \in Seq(Replies) /\ to_client \in Seq(Messages)
        BY <1>0 DEF TypeOK, PendingType
      <4> QED
        BY <2>2, <3>1, <4>1, HeadTailProperties
    <3>4. n \in Messages
      BY <3>2, <3>3, ReplyTypes
    <3>5. a = Count(to_client', R) + Flag(m \in R)
      <4>1. to_client \in Seq(Messages)
        BY <1>0 DEF PendingType
      <4> QED
        BY <1>1, <2>2, <3>1, <4>1, CountTail
    <3>6. Count(in_hand', R) = Flag(n \in R)
      BY <3>2, <3>4, CountOne
    <3>7. n \in R => m \in R
      BY <3>2 DEF Clobber, Closed, Spoilt, Relogins
    <3>8. Lost' => Lost
      <4>1. \A i \in DOMAIN in_hand' : in_hand'[i] = n
        BY <3>2
      <4>2. Ends(in_hand') => n.verdict = "closed"
        BY <4>1 DEF Ends
      <4>3. n.verdict = "closed" => clobbered
        BY <3>2, <3>3 DEF Replies, Verdicts, OrderVerdicts
      <4>4. ~clobbered' /\ UNCHANGED inq
        BY <1>5 DEF ReadDone
      <4> QED
        BY <1>3, <4>2, <4>3, <4>4 DEF Lost, Ends
    <3>9. PICK a1 : a1 = Count(to_client', R)
      OBVIOUS
    <3>10. a1 \in Nat
      BY <3>3, <3>9, CountFinite
    <3>11. Flag(n \in R) \in Nat /\ Flag(n \in R) <= Flag(m \in R) /\ Flag(m \in R) \in Nat
      BY <3>7 DEF Flag
    <3>12. a1 + Flag(n \in R) + d <= a + b + d
      BY <1>2, <2>1, <3>5, <3>9, <3>10, <3>11
    <3> QED
      BY <1>1, <1>2, <1>4, <2>1, <3>6, <3>8, <3>9, <3>10, <3>11, <3>12
  <2>3. CASE link = "reset" /\ in_hand' = <<Closed>> /\ UNCHANGED to_client
    <3>1. Closed \in Messages /\ Closed \notin R
      BY ReplyTypes DEF Relogins, Closed
    <3>2. Count(in_hand', R) = 0
      BY <2>3, <3>1, CountOne DEF Flag
    <3>3. Lost
      BY <2>3 DEF Lost
    <3>4. a + 0 + d <= a + b + d /\ 0 \in Nat
      BY <1>2
    <3> QED
      BY <1>1, <1>2, <1>4, <2>1, <2>3, <3>2, <3>3, <3>4
  <2> QED
    BY <1>5, <2>2, <2>3 DEF ReadDone
<1>6. CASE ReadCallback
  <2>1. PICK m : m = in_hand[1]
    OBVIOUS
  <2>2. /\ in_hand # << >> /\ inq' = Append(inq, m) /\ in_hand' = << >>
        /\ UNCHANGED <<to_client, clobbered>>
    BY <1>6, <2>1 DEF ReadCallback, net
  <2>3. in_hand = << m >> /\ m \in Messages
    BY <2>1, <2>2, InHandOne, InHandTypes
  <2>4. b = Flag(m \in R) /\ Count(in_hand', R) = 0
    BY <1>1, <2>2, <2>3, CountOne, CountEmpty
  <2>5. CASE pc \in Serving
    <3>1. Received = inq /\ Received' = Append(inq, m) /\ inq \in Seq(Messages)
      BY <1>3, <2>2, <2>5 DEF Received, TypeOK
    <3>2. Count(Received', R) = d + b
      BY <1>1, <2>3, <2>4, <3>1, CountAppend
    <3>3. Lost' => Lost
      <4>1. Ends(inq') => Ends(inq) \/ Ends(in_hand)
        <5> SUFFICES ASSUME NEW i \in DOMAIN Append(inq, m), Append(inq, m)[i].verdict = "closed"
                     PROVE  Ends(inq) \/ Ends(in_hand)
          BY <2>2 DEF Ends
        <5>1. /\ Append(inq, m) \in Seq(Messages) /\ Len(Append(inq, m)) = Len(inq) + 1
              /\ Append(inq, m)[Len(inq) + 1] = m
              /\ \A j \in 1..Len(inq) : Append(inq, m)[j] = inq[j]
              /\ Len(inq) \in Nat /\ DOMAIN inq = 1..Len(inq)
          BY <2>3, <3>1, AppendProperties, LenProperties
        <5>2. i \in 1..(Len(inq) + 1)
          BY <5>1, LenProperties
        <5>3. CASE i = Len(inq) + 1
          <6>1. m.verdict = "closed" /\ 1 \in DOMAIN in_hand
            BY <2>3, <5>1, <5>3
          <6> QED
            BY <2>3, <6>1 DEF Ends
        <5>4. CASE i \in 1..Len(inq)
          BY <5>1, <5>4 DEF Ends
        <5> QED
          BY <5>1, <5>2, <5>3, <5>4
      <4>2. ~Ends(in_hand')
        BY <2>2 DEF Ends
      <4> QED
        BY <1>3, <2>2, <2>5, <4>1, <4>2 DEF Lost
    <3>4. a + 0 + (d + b) <= a + b + d /\ 0 \in Nat /\ d + b \in Nat
      BY <1>2
    <3> QED
      BY <1>1, <1>2, <1>4, <2>2, <2>4, <3>2, <3>3, <3>4
  <2>6. CASE pc \notin Serving
    <3>1. Received' = Received
      BY <1>3, <2>6 DEF Received
    <3>2. Lost' => Lost
      BY <1>3, <2>2, <2>6 DEF Lost, Ends
    <3>3. a + 0 + d <= a + b + d /\ 0 \in Nat
      BY <1>2
    <3> QED
      BY <1>1, <1>2, <1>4, <2>2, <2>4, <3>1, <3>2, <3>3
  <2> QED
    BY <2>5, <2>6
<1>7. CASE StaleCallback
  <2>1. pc \notin Serving /\ UNCHANGED <<in_hand, to_client, clobbered>>
    BY <1>7 DEF StaleCallback, SessionInv, Serving, Idle, net
  <2>2. Received' = Received
    BY <1>3, <2>1 DEF Received
  <2>3. Lost' => Lost
    BY <1>3, <2>1 DEF Lost, Ends
  <2>4. a + b + d <= a + b + d
    BY <1>2
  <2> QED
    BY <1>1, <1>2, <1>4, <2>1, <2>2, <2>3, <2>4
<1> QED
  BY <1>5, <1>6, <1>7

\* Failures, and replies: what is pending afterwards was paid for.
LEMMA FaultReasons ==
    ASSUME TypeOK, TypeOK', ReasonsInv, StartRead \/ LinkLost \/ ServerReplies
    PROVE  ReasonsInv'
<1> DEFINE R == Relogins
<1>0. /\ PendingType
      /\ pc \notin Idle => link # "none"
  BY PendingTypes DEF ReasonsInv
<1>1. PICK f, c, a, b, d :
        /\ f = faults /\ c = Count(outq, {Close}) /\ a = Count(to_client, R)
        /\ b = Count(in_hand, R) /\ d = Count(Received, R)
  OBVIOUS
<1>2. f \in Nat /\ c \in Nat /\ a \in Nat /\ b \in Nat /\ d \in Nat
  BY <1>0, <1>1 DEF PendingType
<1>3. UNCHANGED <<outq, inq, sid>> /\ GivenUp' = GivenUp /\ Received' = Received
      /\ (pc' \notin Idle => link' # "none")
  BY <1>0 DEF StartRead, LinkLost, ServerReplies, run, net, GivenUp, Received, Serving, Idle
<1>4. ASSUME NEW da \in Int, NEW db \in Int, NEW df \in Int,
             Count(to_client', R) = a + da, Count(in_hand', R) = b + db, faults' = f + df,
             df >= da + db, Lost' => Lost \/ df >= da + db + 1
      PROVE  ReasonsInv'
  <2>1. 0 \in Int /\ c = c + 0 /\ d = d + 0 /\ df >= 0 + da + db + 0
        /\ (df >= da + db + 1 => df >= 0 + da + db + 0 + 1)
    BY <1>2, <1>4
  <2>2. /\ Count(outq', {Close}) = Count(outq, {Close}) + 0
        /\ Count(Received', R) = Count(Received, R) + 0
        /\ Count(to_client', R) = Count(to_client, R) + da
        /\ Count(in_hand', R) = Count(in_hand, R) + db
        /\ faults' = faults + df
    BY <1>1, <1>3, <1>4, <2>1
  <2> QED
    BY <1>3, <1>4, <2>1, <2>2, PendingSteps
<1>5. CASE StartRead
  <2>1. UNCHANGED to_client /\ Count(to_client', R) = a + 0
    BY <1>1, <1>2, <1>5 DEF StartRead, net
  <2>2. CASE UNCHANGED <<in_hand, clobbered, faults>>
    <3>1. Count(in_hand', R) = b + 0 /\ faults' = f + 0 /\ 0 \in Int /\ 0 >= 0 + 0
      BY <1>1, <1>2, <2>2
    <3>2. Lost' => Lost
      BY <1>5, <2>2 DEF Lost, Ends, StartRead, Serving, net
    <3> QED
      BY <1>4, <2>1, <3>1, <3>2
  <2>3. CASE faults' = faults + 1 /\ (UNCHANGED in_hand
                                      \/ (/\ in_hand # << >> /\ in_hand[1].verdict # "closed"
                                          /\ in_hand' = <<Spoilt(in_hand[1])>>))
    <3>1. PICK b1 : b1 = Count(in_hand', R)
      OBVIOUS
    <3>2. b1 \in Nat /\ b1 <= b
      <4>1. CASE UNCHANGED in_hand
        BY <1>1, <1>2, <3>1, <4>1
      <4>2. CASE /\ in_hand # << >> /\ in_hand[1].verdict # "closed"
                 /\ in_hand' = <<Spoilt(in_hand[1])>>
        <5>1. Spoilt(in_hand[1]) \in Messages /\ Spoilt(in_hand[1]) \notin R
          <6>1. in_hand[1] \in Replies
            BY <4>2, InHandTypes, ReplyTypes
          <6> QED
            BY <6>1, ReplyTypes DEF Relogins, Spoilt
        <5>2. b1 = 0
          BY <3>1, <4>2, <5>1, CountOne DEF Flag
        <5> QED
          BY <1>2, <5>2
      <4> QED
        BY <2>3, <4>1, <4>2
    <3>3. PICK db : db = b1 - b
      OBVIOUS
    <3>4. db \in Int /\ b1 = b + db /\ 1 >= 0 + db /\ 1 >= 0 + db + 1 /\ 0 \in Int /\ 1 \in Int
      BY <1>2, <3>2, <3>3
    <3>5. faults' = f + 1
      BY <1>1, <2>3
    <3> QED
      BY <1>4, <2>1, <3>1, <3>4, <3>5
  <2> QED
    BY <1>5, <2>2, <2>3 DEF StartRead, Fault
<1>6. CASE LinkLost
  <2>1. UNCHANGED <<to_client, in_hand>> /\ faults' = faults + 1
    BY <1>6 DEF LinkLost, Fault, io
  <2>2. /\ Count(to_client', R) = a + 0 /\ Count(in_hand', R) = b + 0 /\ faults' = f + 1
        /\ 0 \in Int /\ 1 \in Int /\ 1 >= 0 + 0 /\ 1 >= 0 + 0 + 1
    BY <1>1, <1>2, <2>1
  <2> QED
    BY <1>4, <2>2
<1>7. CASE ServerReplies
  <2>1. PICK m : m = Head(to_server)
    OBVIOUS
  <2>2. PICK v \in VerdictsFor(m) :
          /\ to_client' = Append(to_client, Reply(m, v))
          /\ IF v \in {"ok", "error"} THEN UNCHANGED faults ELSE Fault
    BY <1>7, <2>1 DEF ServerReplies
  <2>3. Reply(m, v) \in Messages
    <3>1. v \in Verdicts
      BY <2>2 DEF VerdictsFor, Verdicts, OrderVerdicts, SubVerdicts
    <3>2. m \in Requests
      BY <1>7, <2>1, HeadTailProperties DEF ServerReplies, TypeOK
    <3> QED
      BY <3>1, <3>2, ReplyTypes
  <2>4. Count(to_client', R) = a + Flag(Reply(m, v) \in R)
    BY <1>0, <1>1, <2>2, <2>3, CountAppend DEF PendingType
  <2>5. Reply(m, v) \in R => v = "relogin"
    BY DEF Relogins, Reply
  <2>6. UNCHANGED <<in_hand, clobbered, link, pc>>
    BY <1>7 DEF ServerReplies, run, io
  <2>7. Count(in_hand', R) = b + 0
    BY <1>1, <1>2, <2>6
  <2>8. Lost' => Lost
    BY <1>3, <2>6 DEF Lost, Ends
  <2>9. CASE v = "relogin"
    <3>1. faults' = f + 1
      BY <1>1, <2>2, <2>9 DEF Fault
    <3>2. Flag(Reply(m, v) \in R) \in Int /\ 1 >= Flag(Reply(m, v) \in R) + 0 /\ 0 \in Int /\ 1 \in Int
      BY DEF Flag
    <3> QED
      BY <1>4, <2>4, <2>7, <2>8, <3>1, <3>2
  <2>10. CASE v # "relogin"
    <3>1. Count(to_client', R) = a + 0
      BY <2>4, <2>5, <2>10 DEF Flag
    <3>2. faults' = f + 0 \/ faults' = f + 1
      BY <1>1, <1>2, <2>2 DEF Fault
    <3>3. 0 \in Int /\ 1 \in Int /\ 0 >= 0 + 0 /\ 1 >= 0 + 0
      OBVIOUS
    <3>4. CASE faults' = f + 0
      BY <1>4, <2>7, <2>8, <3>1, <3>3, <3>4
    <3>5. CASE faults' = f + 1
      BY <1>4, <2>7, <2>8, <3>1, <3>3, <3>5
    <3> QED
      BY <3>2, <3>4, <3>5
  <2> QED
    BY <2>9, <2>10
<1> QED
  BY <1>5, <1>6, <1>7

\* A demand to log in again that is taken from inq_ is a Close in outq_ from then on.
LEMMA ParseReasons ==
    ASSUME TypeOK, TypeOK', ReasonsInv, ParseIncomeData
    PROVE  ReasonsInv'
<1> DEFINE R == Relogins
<1>0. /\ PendingType
      /\ pc \notin Idle => link # "none"
  BY PendingTypes DEF ReasonsInv
<1>1. PICK f, c, a, b, d, m :
        /\ f = faults /\ c = Count(outq, {Close}) /\ a = Count(to_client, R)
        /\ b = Count(in_hand, R) /\ d = Count(Received, R) /\ m = Head(inq)
  OBVIOUS
<1>2. f \in Nat /\ c \in Nat /\ a \in Nat /\ b \in Nat /\ d \in Nat
  BY <1>0, <1>1 DEF PendingType
<1>3. /\ UNCHANGED <<pc, sid, link, in_hand, clobbered, to_client, faults>>
      /\ inq # << >> /\ inq' = Tail(inq) /\ pc = "inq"
  BY DEF ParseIncomeData, run, io, net
<1>4. Received = inq /\ Received' = Tail(inq) /\ GivenUp' = GivenUp
  BY <1>3 DEF Received, GivenUp, Serving
<1>5. inq \in Seq(Messages) /\ m \in Messages /\ Tail(inq) \in Seq(Messages)
  BY <1>1, <1>3, HeadTailProperties DEF TypeOK
<1>6. d = Count(Received', R) + Flag(m \in R)
  BY <1>1, <1>3, <1>4, <1>5, CountTail
<1>7. m \in R <=> Ret(m) = -1
  BY <1>5 DEF Relogins, Ret
<1>8. Lost' => Lost
  <2>1. Ends(Tail(inq)) => Ends(inq)
    <3> SUFFICES ASSUME NEW i \in DOMAIN Tail(inq), Tail(inq)[i].verdict = "closed"
                 PROVE  Ends(inq)
      BY DEF Ends
    <3>1. /\ Len(Tail(inq)) = Len(inq) - 1 /\ DOMAIN inq = 1..Len(inq)
          /\ DOMAIN Tail(inq) = 1..Len(Tail(inq)) /\ Len(inq) \in Nat
          /\ \A j \in 1..Len(Tail(inq)) : Tail(inq)[j] = inq[j + 1]
      BY <1>3, <1>5, HeadTailProperties, LenProperties
    <3>2. i + 1 \in DOMAIN inq /\ inq[i + 1].verdict = "closed"
      BY <3>1
    <3> QED
      BY <3>2 DEF Ends
  <2> QED
    BY <1>3, <2>1 DEF Lost, Ends
<1>9. \/ Ret(m) = -1 /\ outq' = Append(outq, Close)
      \/ Ret(m) # -1 /\ (UNCHANGED outq \/ \E r \in Requests : outq' = Append(outq, r))
  <2>1. \A i \in DOMAIN waiting_resp_q : waiting_resp_q[i] \in Requests
    BY ElementOfSeq, LenProperties DEF TypeOK
  <2>2. \/ Ret(m) = -1 /\ outq' = Append(outq, Close)
        \/ Ret(m) = 0 /\ UNCHANGED outq
        \/ Ret(m) \in {1, -2} /\ (UNCHANGED outq \/ \E i \in DOMAIN waiting_resp_q : Erase(m, i))
    BY <1>1 DEF ParseIncomeData
  <2>3. \A i : Erase(m, i) => UNCHANGED outq \/ outq' = Append(outq, waiting_resp_q[i])
    BY DEF Erase
  <2> QED
    BY <2>1, <2>2, <2>3
<1>10. PICK d1, e : d1 = Count(Received', R) /\ e = Flag(m \in R)
  OBVIOUS
<1>11. d1 \in Nat /\ e \in 0..1 /\ d = d1 + e
  <2>1. d1 \in Nat
    BY <1>4, <1>5, <1>10, CountFinite
  <2>2. e \in 0..1
    BY <1>10 DEF Flag
  <2> QED
    BY <1>6, <1>10, <2>1, <2>2
<1>12. Count(outq', {Close}) = c + e
  <2>1. CASE Ret(m) = -1 /\ outq' = Append(outq, Close)
    BY <1>1, <1>7, <1>10, <2>1, CloseCounts DEF Flag
  <2>2. CASE Ret(m) # -1 /\ (UNCHANGED outq \/ \E r \in Requests : outq' = Append(outq, r))
    <3>1. Count(outq', {Close}) = c
      BY <1>1, <2>2, CloseCounts
    <3>2. e = 0
      BY <1>7, <1>10, <2>2 DEF Flag
    <3> QED
      BY <1>2, <3>1, <3>2
  <2> QED
    BY <1>9, <2>1, <2>2
<1>13. PICK n : n = -e
  OBVIOUS
<1>14. /\ e \in Int /\ n \in Int /\ 0 \in Int /\ d1 = d + n /\ 0 >= e + 0 + 0 + n
       /\ a = a + 0 /\ b = b + 0 /\ f = f + 0
  BY <1>2, <1>11, <1>13
<1>15. /\ Count(outq', {Close}) = Count(outq, {Close}) + e
       /\ Count(to_client', R) = Count(to_client, R) + 0
       /\ Count(in_hand', R) = Count(in_hand, R) + 0
       /\ Count(Received', R) = Count(Received, R) + n
       /\ faults' = faults + 0
  BY <1>1, <1>3, <1>10, <1>12, <1>14
<1>16. pc' \notin Idle => link' # "none"
  BY <1>0, <1>3
<1> QED
  BY <1>4, <1>8, <1>14, <1>15, <1>16, PendingSteps

LEMMA NextReasons ==
    TypeInv /\ SessionInv /\ ReasonsInv /\ [Next]_vars => ReasonsInv'
<1> SUFFICES ASSUME TypeInv, SessionInv, ReasonsInv, [Next]_vars PROVE ReasonsInv'
  OBVIOUS
<1>1. TypeOK /\ TypeOK'
  BY NextType DEF TypeInv
<1>2. CASE UNCHANGED vars \/ RunCallback \/ (\E r \in Orders : SendCmd(r)) \/ OrphanExecuted
           \/ NewSession \/ Connected \/ ConnectFailed \/ LoggedIn \/ Subscribe \/ ClearInq
           \/ ResendDone \/ OutqEmpty \/ KeepAlive
  BY <1>1, <1>2, ConnectReasons
<1>3. CASE LoginFailed \/ PingFailed \/ CloseCommand \/ ConnectionClosed
           \/ ((Resend \/ SendNext) /\ WriteThrows)
  <2>1. pc # "connect"
    BY <1>3 DEF LoginFailed, PingFailed, CloseCommand, ConnectionClosed, Resend, SendNext
  <2> QED
    BY <1>1, <1>3, <2>1, DropReasons
<1>4. CASE (Resend \/ SendNext) /\ ~WriteThrows
  BY <1>1, <1>4, WriteReasons
<1>5. CASE StartRead \/ LinkLost \/ ServerReplies
  BY <1>1, <1>5, FaultReasons
<1>6. CASE ReadDone \/ ReadCallback \/ StaleCallback
  BY <1>1, <1>6, ReadReasons
<1>7. CASE ParseIncomeData
  BY <1>1, <1>7, ParseReasons
<1> QED
  BY <1>2, <1>3, <1>4, <1>5, <1>6, <1>7 DEF Next, RunThread, IoThread

\* NoReconnectStorm: whatever a session leaves behind, and however the threads
\* interleave, the thread has not connected more often than something failed.
THEOREM ReconnectsAreForAReason == Spec => []NoReconnectStorm
<1>1. Init => ReasonsInv
  <2> SUFFICES ASSUME Init PROVE ReasonsInv
    OBVIOUS
  <2>1. /\ sid = 0 /\ faults = 0 /\ pc = "connect" /\ link = "none" /\ ~clobbered
        /\ outq = << >> /\ to_client = << >> /\ in_hand = << >>
    BY DEF Init
  <2>2. ~Lost /\ GivenUp = 0 /\ Received = << >>
    BY <2>1 DEF Lost, Ends, Serving, GivenUp, Received
  <2>3. Pending = 0
    BY <2>1, <2>2, CountEmpty DEF Pending, Flag
  <2> QED
    BY <2>1, <2>2, <2>3 DEF ReasonsInv, Idle
<1>2. TypeOK /\ ReasonsInv => NoReconnectStorm
  <2> SUFFICES ASSUME TypeOK, ReasonsInv PROVE NoReconnectStorm
    OBVIOUS
  <2>1. PICK f, n, p : f = faults /\ n = sid /\ p = Pending
    OBVIOUS
  <2>2. p \in Nat /\ f \in Nat /\ n \in Nat
    BY <2>1, PendingTypes DEF PendingType, Pending
  <2>3. f >= n + p \/ f >= (n - 1) + p
    BY <2>1 DEF ReasonsInv, GivenUp
  <2>4. n <= f + 1
    BY <2>2, <2>3
  <2> QED
    BY <2>1, <2>4 DEF NoReconnectStorm
<1>3. Init => SessionInv
  BY EmptySeq DEF Init, SessionInv, NothingStarted, Idle, Serving
<1> QED
  BY <1>1, <1>2, <1>3, InitType, NextType, NextSession, NextReasons, PTL DEF Spec, TypeInv

-----------------------------------------------------------------------------
-----------------------------------------------------------------------------
(* Replies in order.  A request waits where its reply will be parsed: the  *)
(* exchange answers in the order of to_server, which is the order in which *)
(* the requests of this session were put in waiting_resp_q_.               *)

\* No failed read is among the first i messages of R.
Sound(R, i) == \A j \in DOMAIN R : j <= i => R[j].verdict # "closed"

\* What a reply that can be matched says.
Plain == {"ok", "error", "busy", "partial"}

\* R answers and s asks what the first n entries of W are, one after the other,
\* up to a failed read; and all of them, on a connection that works.
InStep(R, s, W, n, l) ==
    /\ \A i \in DOMAIN R : Sound(R, i) => i <= n /\ R[i].to = W[i] /\ R[i].verdict \in Plain
    /\ Sound(R, Len(R)) =>
         /\ \A i \in DOMAIN s : Len(R) + i <= n /\ s[i] = W[Len(R) + i]
         /\ l = "up" => Len(R) + Len(s) = n

LEMMA InStepStart == \A W, l : InStep(<< >>, << >>, W, 0, l)
BY DEF InStep

LEMMA SoundLess ==
    ASSUME NEW R, DOMAIN R \subseteq Nat, NEW i \in Nat, NEW j \in Nat, j <= i, Sound(R, i)
    PROVE  Sound(R, j)
BY DEF Sound

\* The exchange replies to the first request.
LEMMA InStepReply ==
    ASSUME NEW R \in Seq(Messages), NEW s \in Seq(Requests), NEW W, NEW n \in Nat, NEW l,
           InStep(R, s, W, n, l), s # << >>,
           NEW m \in Messages, m.to = Head(s), m.verdict \in Plain
    PROVE  InStep(Append(R, m), Tail(s), W, n, l)
<1> DEFINE A == Append(R, m)
           t == Tail(s)
<1>1. /\ Len(R) \in Nat /\ DOMAIN R = 1..Len(R)
      /\ DOMAIN A = 1..(Len(R) + 1) /\ Len(A) = Len(R) + 1
      /\ \A i \in 1..Len(R) : A[i] = R[i]
      /\ A[Len(R) + 1] = m
  BY AppendProperties, LenProperties
<1>2. /\ Len(s) \in Nat /\ Len(s) >= 1 /\ DOMAIN s = 1..Len(s) /\ s[1] = m.to
      /\ DOMAIN t = 1..(Len(s) - 1) /\ Len(t) = Len(s) - 1
      /\ \A i \in 1..(Len(s) - 1) : t[i] = s[i + 1]
  BY HeadTailProperties, LenProperties, EmptySeq
<1> HIDE DEF A, t
<1>3. \A i \in 1..Len(R) : Sound(A, i) => Sound(R, i)
  BY <1>1 DEF Sound
<1>4. Sound(A, Len(R) + 1) => Sound(R, Len(R))
  BY <1>1 DEF Sound
<1>5. ASSUME NEW i \in DOMAIN A, Sound(A, i)
      PROVE  i <= n /\ A[i].to = W[i] /\ A[i].verdict \in Plain
  <2>1. CASE i \in 1..Len(R)
    BY <1>1, <1>3, <1>5, <2>1 DEF InStep
  <2>2. CASE i = Len(R) + 1
    <3>1. Len(R) + 1 <= n /\ s[1] = W[Len(R) + 1]
      BY <1>2, <1>4, <1>5, <2>2 DEF InStep
    <3> QED
      BY <1>1, <1>2, <2>2, <3>1
  <2> QED
    BY <1>1, <2>1, <2>2
<1>6. ASSUME Sound(A, Len(A))
      PROVE  /\ \A i \in DOMAIN t : Len(A) + i <= n /\ t[i] = W[Len(A) + i]
             /\ l = "up" => Len(A) + Len(t) = n
  <2>1. /\ \A i \in DOMAIN s : Len(R) + i <= n /\ s[i] = W[Len(R) + i]
        /\ l = "up" => Len(R) + Len(s) = n
    BY <1>1, <1>4, <1>6 DEF InStep
  <2>2. ASSUME NEW i \in DOMAIN t
        PROVE  Len(A) + i <= n /\ t[i] = W[Len(A) + i]
    <3>1. i + 1 \in DOMAIN s /\ i \in Nat
      BY <1>2
    <3>2. Len(R) + (i + 1) <= n /\ s[i + 1] = W[Len(R) + (i + 1)]
      BY <2>1, <3>1
    <3>3. Len(R) + (i + 1) = Len(A) + i
      BY <1>1, <3>1
    <3> QED
      BY <1>2, <3>2, <3>3
  <2>3. Len(A) + Len(t) = Len(R) + Len(s)
    BY <1>1, <1>2
  <2> QED
    BY <2>1, <2>2, <2>3
<1>7. InStep(A, t, W, n, l)
  BY <1>5, <1>6 DEF InStep
<1> QED
  BY <1>7 DEF A, t

\* A request is written, and V is W with that request at the end.
LEMMA InStepSend ==
    ASSUME NEW R \in Seq(Messages), NEW s \in Seq(Requests), NEW W, NEW V, NEW n \in Nat,
           NEW c \in Requests, InStep(R, s, W, n, "up"),
           \A i \in 1..n : V[i] = W[i], V[n + 1] = c
    PROVE  InStep(R, Append(s, c), V, n + 1, "up")
<1> DEFINE t == Append(s, c)
<1>1. /\ Len(R) \in Nat /\ DOMAIN R = 1..Len(R)
      /\ Len(s) \in Nat /\ DOMAIN s = 1..Len(s)
      /\ DOMAIN t = 1..(Len(s) + 1) /\ Len(t) = Len(s) + 1
      /\ \A i \in 1..Len(s) : t[i] = s[i]
      /\ t[Len(s) + 1] = c
  BY AppendProperties, LenProperties
<1> HIDE DEF t
<1>2. ASSUME NEW i \in DOMAIN R, Sound(R, i)
      PROVE  i <= n + 1 /\ R[i].to = V[i] /\ R[i].verdict \in Plain
  <2>1. i <= n /\ R[i].to = W[i] /\ R[i].verdict \in Plain
    BY <1>2 DEF InStep
  <2>2. i \in 1..n /\ i <= n + 1
    BY <1>1, <2>1
  <2> QED
    BY <2>1, <2>2
<1>3. ASSUME Sound(R, Len(R))
      PROVE  /\ \A i \in DOMAIN t : Len(R) + i <= n + 1 /\ t[i] = V[Len(R) + i]
             /\ Len(R) + Len(t) = n + 1
  <2>1. /\ \A i \in DOMAIN s : Len(R) + i <= n /\ s[i] = W[Len(R) + i]
        /\ Len(R) + Len(s) = n
    BY <1>3 DEF InStep
  <2>2. ASSUME NEW i \in DOMAIN t PROVE Len(R) + i <= n + 1 /\ t[i] = V[Len(R) + i]
    <3>1. CASE i \in 1..Len(s)
      <4>1. Len(R) + i \in 1..n /\ Len(R) + i <= n + 1
        BY <1>1, <2>1, <3>1
      <4> QED
        BY <1>1, <2>1, <3>1, <4>1
    <3>2. CASE i = Len(s) + 1
      <4>1. Len(R) + i = n + 1
        BY <1>1, <2>1, <3>2
      <4> QED
        BY <1>1, <3>2, <4>1
    <3> QED
      BY <1>1, <3>1, <3>2
  <2>3. Len(R) + Len(t) = n + 1
    BY <1>1, <2>1
  <2> QED
    BY <2>2, <2>3
<1>4. InStep(R, t, V, n + 1, "up")
  BY <1>2, <1>3 DEF InStep
<1> QED
  BY <1>4 DEF t

\* On a connection that is lost nothing is written.
LEMMA InStepUnsent ==
    ASSUME NEW R \in Seq(Messages), NEW W, NEW V, NEW n \in Nat,
           NEW l, l # "up",
           InStep(R, << >>, W, n, l), \A i \in 1..n : V[i] = W[i]
    PROVE  InStep(R, << >>, V, n + 1, l)
<1>1. Len(R) \in Nat /\ DOMAIN R = 1..Len(R)
  BY LenProperties
<1>2. ASSUME NEW i \in DOMAIN R, Sound(R, i)
      PROVE  i <= n + 1 /\ R[i].to = V[i] /\ R[i].verdict \in Plain
  <2>1. i <= n /\ R[i].to = W[i] /\ R[i].verdict \in Plain
    BY <1>2 DEF InStep
  <2>2. i \in 1..n /\ i <= n + 1
    BY <1>1, <2>1
  <2> QED
    BY <2>1, <2>2
<1> QED
  BY <1>2 DEF InStep

\* The connection is lost.
LEMMA InStepLost ==
    ASSUME NEW R, NEW s, NEW W, NEW n, NEW l, InStep(R, s, W, n, l), NEW h, h # "up"
    PROVE  InStep(R, << >>, W, n, h)
BY DEF InStep

\* The first reply is parsed and the first entry of W erased, which leaves V.
LEMMA InStepParse ==
    ASSUME NEW R \in Seq(Messages), NEW s \in Seq(Requests), NEW W, NEW V, NEW n \in Nat, NEW l,
           InStep(R, s, W, n, l), R # << >>, Head(R).verdict # "closed",
           \A i \in 1..(n - 1) : V[i] = W[i + 1]
    PROVE  InStep(Tail(R), s, V, n - 1, l)
<1> DEFINE T == Tail(R)
<1>1. /\ Len(R) \in Nat /\ Len(R) >= 1 /\ DOMAIN R = 1..Len(R) /\ R[1].verdict # "closed"
      /\ DOMAIN T = 1..(Len(R) - 1) /\ Len(T) = Len(R) - 1
      /\ \A i \in 1..(Len(R) - 1) : T[i] = R[i + 1]
      /\ Len(s) \in Nat /\ DOMAIN s = 1..Len(s)
  BY HeadTailProperties, LenProperties, EmptySeq
<1> HIDE DEF T
<1>2. ASSUME NEW i \in 0..(Len(R) - 1), Sound(T, i)
      PROVE  Sound(R, i + 1)
  <2> SUFFICES ASSUME NEW j \in 1..Len(R), j <= i + 1 PROVE R[j].verdict # "closed"
    BY <1>1 DEF Sound
  <2>1. CASE j = 1
    BY <1>1, <2>1
  <2>2. CASE j # 1
    <3>1. j - 1 \in DOMAIN T /\ j - 1 <= i /\ (j - 1) + 1 = j
      BY <1>1, <2>2
    <3>2. T[j - 1].verdict # "closed"
      BY <1>2, <3>1 DEF Sound
    <3>3. T[j - 1] = R[j]
      BY <1>1, <3>1
    <3> QED
      BY <3>2, <3>3
  <2> QED
    BY <2>1, <2>2
<1>3. ASSUME NEW i \in DOMAIN T, Sound(T, i)
      PROVE  i <= n - 1 /\ T[i].to = V[i] /\ T[i].verdict \in Plain
  <2>1. i \in 1..(Len(R) - 1) /\ i + 1 \in DOMAIN R /\ i \in 0..(Len(R) - 1)
    BY <1>1
  <2>2. Sound(R, i + 1)
    BY <1>2, <1>3, <2>1
  <2>3. i + 1 <= n /\ R[i + 1].to = W[i + 1] /\ R[i + 1].verdict \in Plain
    BY <2>1, <2>2 DEF InStep
  <2>4. i \in 1..(n - 1) /\ i <= n - 1
    BY <2>1, <2>3
  <2> QED
    BY <1>1, <2>1, <2>3, <2>4
<1>4. ASSUME Sound(T, Len(T))
      PROVE  /\ \A i \in DOMAIN s : Len(T) + i <= n - 1 /\ s[i] = V[Len(T) + i]
             /\ l = "up" => Len(T) + Len(s) = n - 1
  <2>1. Sound(R, Len(R))
    <3>1. Len(R) - 1 \in 0..(Len(R) - 1) /\ (Len(R) - 1) + 1 = Len(R)
      BY <1>1
    <3>2. Sound(R, (Len(R) - 1) + 1)
      BY <1>1, <1>2, <1>4, <3>1
    <3> QED
      BY <3>1, <3>2
  <2>2. /\ \A i \in DOMAIN s : Len(R) + i <= n /\ s[i] = W[Len(R) + i]
        /\ l = "up" => Len(R) + Len(s) = n
    BY <2>1 DEF InStep
  <2>3. ASSUME NEW i \in DOMAIN s PROVE Len(T) + i <= n - 1 /\ s[i] = V[Len(T) + i]
    <3>1. /\ Len(T) + i \in 1..(n - 1) /\ (Len(T) + i) + 1 = Len(R) + i /\ Len(T) + i <= n - 1
      BY SMTT(30), <1>1, <2>2
    <3>2. V[Len(T) + i] = W[(Len(T) + i) + 1]
      BY <3>1
    <3> QED
      BY <2>2, <3>1, <3>2
  <2>4. l = "up" => Len(T) + Len(s) = n - 1
    BY <1>1, <2>2
  <2> QED
    BY <2>3, <2>4
<1>5. InStep(T, s, V, n - 1, l)
  BY <1>3, <1>4 DEF InStep
<1> QED
  BY <1>5 DEF T

\* A failed read at place p ends what can be parsed.
LEMMA InStepBroken ==
    ASSUME NEW R \in Seq(Messages), NEW B \in Seq(Messages), NEW s, NEW W, NEW n, NEW l,
           InStep(R, s, W, n, l),
           NEW p \in DOMAIN B, B[p].verdict = "closed", \A i \in 1..(p - 1) : B[i] = R[i],
           p <= Len(R) + 1
    PROVE  InStep(B, s, W, n, l)
<1>1. /\ Len(R) \in Nat /\ DOMAIN R = 1..Len(R)
      /\ Len(B) \in Nat /\ DOMAIN B = 1..Len(B) /\ p \in 1..Len(B)
  BY LenProperties
<1>2. ~Sound(B, Len(B)) /\ \A i \in 1..Len(B) : p <= i => ~Sound(B, i)
  BY <1>1 DEF Sound
<1>3. ASSUME NEW i \in DOMAIN B, Sound(B, i)
      PROVE  i <= n /\ B[i].to = W[i] /\ B[i].verdict \in Plain
  <2>1. i \in 1..(p - 1) /\ i \in DOMAIN R
    BY <1>1, <1>2, <1>3
  <2>2. Sound(R, i)
    <3> SUFFICES ASSUME NEW j \in 1..Len(R), j <= i PROVE R[j].verdict # "closed"
      BY <1>1 DEF Sound
    <3>1. j \in 1..(p - 1) /\ j \in DOMAIN B
      BY <1>1, <2>1
    <3> QED
      BY <1>3, <3>1 DEF Sound
  <2>3. i <= n /\ R[i].to = W[i] /\ R[i].verdict \in Plain
    BY <2>1, <2>2 DEF InStep
  <2> QED
    BY <2>1, <2>3
<1> QED
  BY <1>2, <1>3 DEF InStep

-----------------------------------------------------------------------------
LEMMA TailConcat ==
    ASSUME NEW S, NEW s \in Seq(S), NEW t \in Seq(S), s # << >>
    PROVE  s \o t # << >> /\ Head(s \o t) = Head(s) /\ Tail(s \o t) = Tail(s) \o t
<1> DEFINE u == s \o t
           v == Tail(s) \o t
<1>1. /\ Len(s) \in Nat /\ Len(s) >= 1 /\ Len(t) \in Nat
      /\ Tail(s) \in Seq(S) /\ Len(Tail(s)) = Len(s) - 1
      /\ \A i \in 1..(Len(s) - 1) : Tail(s)[i] = s[i + 1]
  BY HeadTailProperties, LenProperties, EmptySeq
<1>2. /\ u \in Seq(S) /\ Len(u) = Len(s) + Len(t)
      /\ \A i \in 1..(Len(s) + Len(t)) : u[i] = IF i <= Len(s) THEN s[i] ELSE t[i - Len(s)]
  BY ConcatProperties
<1>3. /\ v \in Seq(S) /\ Len(v) = Len(s) - 1 + Len(t)
      /\ \A i \in 1..(Len(s) - 1 + Len(t)) :
            v[i] = IF i <= Len(s) - 1 THEN Tail(s)[i] ELSE t[i - (Len(s) - 1)]
  BY <1>1, ConcatProperties
<1> HIDE DEF u, v
<1>4. u # << >> /\ Head(u) = u[1] /\ Head(s) = s[1] /\ 1 \in 1..(Len(s) + Len(t)) /\ 1 <= Len(s)
  <2>1. Len(u) # 0
    BY <1>1, <1>2
  <2>2. u # << >>
    BY <2>1, EmptySeq
  <2> QED
    BY <1>1, <2>2
<1>5. Head(u) = Head(s)
  BY <1>2, <1>4
<1>6. /\ Tail(u) \in Seq(S) /\ Len(Tail(u)) = Len(s) + Len(t) - 1
      /\ \A i \in 1..(Len(s) + Len(t) - 1) : Tail(u)[i] = u[i + 1]
  BY <1>2, <1>4, HeadTailProperties
<1>7. ASSUME NEW i \in 1..(Len(s) + Len(t) - 1) PROVE Tail(u)[i] = v[i]
  <2>1. Tail(u)[i] = u[i + 1] /\ i + 1 \in 1..(Len(s) + Len(t)) /\ i \in 1..(Len(s) - 1 + Len(t))
    BY <1>1, <1>6
  <2>2. CASE i <= Len(s) - 1
    <3>1. i \in 1..(Len(s) - 1) /\ i + 1 <= Len(s)
      BY <1>1, <2>2
    <3>2. u[i + 1] = s[i + 1] /\ v[i] = Tail(s)[i]
      BY <1>2, <1>3, <2>1, <2>2, <3>1
    <3> QED
      BY <1>1, <2>1, <3>1, <3>2
  <2>3. CASE ~(i <= Len(s) - 1)
    <3>1. ~(i + 1 <= Len(s)) /\ (i + 1) - Len(s) = i - (Len(s) - 1)
      BY <1>1, <2>3
    <3>2. u[i + 1] = t[(i + 1) - Len(s)] /\ v[i] = t[i - (Len(s) - 1)]
      BY <1>2, <1>3, <2>1, <2>3, <3>1
    <3> QED
      BY <2>1, <3>1, <3>2
  <2> QED
    BY <2>2, <2>3
<1>8. Tail(u) = v
  <2>1. Len(Tail(u)) = Len(v)
    BY <1>1, <1>3, <1>6
  <2> QED
    BY <1>3, <1>6, <1>7, <2>1, SeqEqual
<1> QED
  BY <1>4, <1>5, <1>8 DEF u, v

LEMMA HeadThenTail ==
    ASSUME NEW S, NEW s \in Seq(S), s # << >>
    PROVE  << Head(s) >> \o Tail(s) = s
<1>1. 1 \in 1..Len(s) /\ Len(s) \in 1..Len(s) /\ Head(s) = s[1] /\ Len(s) \in Nat
  BY EmptySeq, LenProperties
<1>2. SubSeq(s, 1, Len(s)) = << s[1] >> \o SubSeq(s, 1 + 1, Len(s))
  BY <1>1, SubSeqRecursiveFirst
<1>3. SubSeq(s, 1, Len(s)) = s /\ Tail(s) = SubSeq(s, 2, Len(s))
  BY SubSeqFull, TailIsSubSeq
<1> QED
  BY <1>1, <1>2, <1>3

ArrivingTyped ==
    /\ Arriving \in Seq(Messages) /\ Arriving = inq \o (in_hand \o to_client)
    /\ inq \in Seq(Messages) /\ in_hand \in Seq(Messages) /\ to_client \in Seq(Messages)

LEMMA ArrivingType == TypeOK => ArrivingTyped
<1> SUFFICES ASSUME TypeOK PROVE ArrivingTyped
  OBVIOUS
<1>1. inq \in Seq(Messages) /\ in_hand \in Seq(Messages)
  BY DEF TypeOK
<1>2. to_client \in Seq(Messages)
  BY SeqMonotonic DEF TypeOK, Messages
<1>3. inq \o in_hand \in Seq(Messages)
  BY <1>1, ConcatProperties
<1>4. Arriving \in Seq(Messages)
  BY <1>2, <1>3, ConcatProperties DEF Arriving
<1>5. Arriving = inq \o (in_hand \o to_client)
  BY <1>1, <1>2, ConcatAssociative DEF Arriving
<1> QED
  BY <1>1, <1>2, <1>4, <1>5 DEF ArrivingTyped

\* A reply joins the others, the first one is parsed.
LEMMA ArrivingEnds ==
    ASSUME TypeOK, UNCHANGED in_hand
    PROVE  /\ \A m \in Messages : to_client' = Append(to_client, m) /\ UNCHANGED inq
                                    => Arriving' = Append(Arriving, m)
           /\ inq # << >> /\ inq' = Tail(inq) /\ UNCHANGED to_client
                => /\ Arriving # << >> /\ Head(Arriving) = Head(inq)
                   /\ Arriving' = Tail(Arriving)
<1>1. /\ Arriving \in Seq(Messages)
      /\ inq \in Seq(Messages) /\ in_hand \in Seq(Messages) /\ to_client \in Seq(Messages)
  BY ArrivingType DEF ArrivingTyped
<1>2. inq \o in_hand \in Seq(Messages)
  BY <1>1, ConcatProperties
<1>3. ASSUME NEW m \in Messages, to_client' = Append(to_client, m), UNCHANGED inq
      PROVE  Arriving' = Append(Arriving, m)
  <2>1. << m >> \in Seq(Messages)
    BY SingletonSeq
  <2>2. Arriving' = (inq \o in_hand) \o (to_client \o << m >>)
    BY <1>1, <1>3, AppendIsConcat DEF Arriving
  <2>3. Append(Arriving, m) = Arriving \o << m >>
    BY <1>1, AppendIsConcat
  <2>4. Arriving \o << m >> = (inq \o in_hand) \o (to_client \o << m >>)
    BY SMTT(30), <1>1, <1>2, <2>1, ConcatAssociative DEF Arriving
  <2> QED
    BY <2>2, <2>3, <2>4
<1>4. ASSUME inq # << >>, inq' = Tail(inq), UNCHANGED to_client
      PROVE  Arriving # << >> /\ Head(Arriving) = Head(inq) /\ Arriving' = Tail(Arriving)
  <2>1. /\ inq \o in_hand # << >> /\ Head(inq \o in_hand) = Head(inq)
        /\ Tail(inq \o in_hand) = Tail(inq) \o in_hand
    BY <1>1, <1>4, TailConcat
  <2>2. /\ Arriving # << >> /\ Head(Arriving) = Head(inq \o in_hand)
        /\ Tail(Arriving) = Tail(inq \o in_hand) \o to_client
    BY <1>1, <1>2, <2>1, TailConcat DEF Arriving
  <2> QED
    BY <1>4, <2>1, <2>2 DEF Arriving
<1> QED
  BY <1>3, <1>4

\* A message that is read stays where it was in the order, unless the read failed.
LEMMA ArrivingRead ==
    ASSUME TypeOK, ReadDone \/ ReadCallback
    PROVE  \/ UNCHANGED Arriving
           \/ unread' # {}
           \/ \E p \in DOMAIN Arriving' :
                /\ Arriving'[p].verdict = "closed" /\ p <= Len(Arriving) + 1
                /\ \A i \in 1..(p - 1) : Arriving'[i] = Arriving[i]
<1>1. /\ Arriving \in Seq(Messages) /\ Arriving = inq \o (in_hand \o to_client)
      /\ inq \in Seq(Messages) /\ in_hand \in Seq(Messages) /\ to_client \in Seq(Messages)
  BY ArrivingType DEF ArrivingTyped
<1>2. CASE ReadCallback
  <2>1. PICK m : m = in_hand[1]
    OBVIOUS
  <2>2. /\ in_hand # << >> /\ inq' = Append(inq, m) /\ in_hand' = << >> /\ UNCHANGED to_client
    BY <1>2, <2>1 DEF ReadCallback, net
  <2>3. in_hand = << m >> /\ m \in Messages
    BY <2>1, <2>2, InHandOne, InHandTypes
  <2>4. inq' = inq \o in_hand /\ inq' \in Seq(Messages)
    BY <1>1, <2>2, <2>3, AppendIsConcat, AppendProperties
  <2>5. inq' \o << >> = inq'
    BY <2>4, ConcatEmptySeq
  <2>6. Arriving' = (inq' \o << >>) \o to_client
    BY <2>2 DEF Arriving
  <2> QED
    BY <2>4, <2>5, <2>6 DEF Arriving
<1>3. CASE ReadDone
  <2>1. in_hand = << >> /\ UNCHANGED inq /\ Arriving = inq \o to_client
    <3>1. in_hand = << >> /\ UNCHANGED inq
      BY <1>3 DEF ReadDone
    <3>2. inq \o << >> = inq
      BY <1>1, ConcatEmptySeq
    <3> QED
      BY <3>1, <3>2 DEF Arriving
  <2>2. ASSUME in_hand' = << Closed >>, to_client' \in Seq(Messages)
        PROVE  \E p \in DOMAIN Arriving' :
                 /\ Arriving'[p].verdict = "closed" /\ p <= Len(Arriving) + 1
                 /\ \A i \in 1..(p - 1) : Arriving'[i] = Arriving[i]
    <3>1. Closed \in Messages /\ Closed.verdict = "closed"
      BY ReplyTypes DEF Closed
    <3>2. << Closed >> \in Seq(Messages) /\ Len(<< Closed >>) = 1 /\ << Closed >>[1] = Closed
      BY <3>1, SingletonSeq
    <3>3. /\ inq \o << Closed >> \in Seq(Messages)
          /\ Len(inq \o << Closed >>) = Len(inq) + 1
          /\ \A i \in 1..(Len(inq) + 1) :
                (inq \o << Closed >>)[i] = IF i <= Len(inq) THEN inq[i]
                                           ELSE << Closed >>[i - Len(inq)]
      BY <1>1, <3>2, ConcatProperties
    <3>4. Len(inq) \in Nat /\ Len(to_client) \in Nat /\ Len(to_client') \in Nat
      BY <1>1, <2>2, LenProperties
    <3>5. PICK n : n = Len(inq)
      OBVIOUS
    <3>6. /\ Arriving' = (inq \o << Closed >>) \o to_client'
          /\ Arriving' \in Seq(Messages) /\ Len(Arriving') = n + 1 + Len(to_client')
          /\ \A i \in 1..(n + 1) : Arriving'[i] = (inq \o << Closed >>)[i]
      <4>1. Arriving' = (inq \o << Closed >>) \o to_client'
        BY <2>1, <2>2 DEF Arriving
      <4>2. /\ (inq \o << Closed >>) \o to_client' \in Seq(Messages)
            /\ Len((inq \o << Closed >>) \o to_client') = n + 1 + Len(to_client')
            /\ \A i \in 1..(n + 1 + Len(to_client')) :
                 ((inq \o << Closed >>) \o to_client')[i] =
                    IF i <= n + 1 THEN (inq \o << Closed >>)[i] ELSE to_client'[i - (n + 1)]
        BY <2>2, <3>3, <3>5, ConcatProperties
      <4>3. \A i \in 1..(n + 1) : i \in 1..(n + 1 + Len(to_client')) /\ i <= n + 1
        BY <3>4, <3>5
      <4> QED
        BY <4>1, <4>2, <4>3
    <3>7. /\ Len(Arriving) = n + Len(to_client)
          /\ \A i \in 1..n : Arriving[i] = inq[i]
      <4>1. /\ Len(inq \o to_client) = n + Len(to_client)
            /\ \A i \in 1..(n + Len(to_client)) :
                 (inq \o to_client)[i] = IF i <= n THEN inq[i] ELSE to_client[i - n]
        BY <1>1, <3>5, ConcatProperties
      <4>2. \A i \in 1..n : i \in 1..(n + Len(to_client)) /\ i <= n
        BY <3>4, <3>5
      <4> QED
        BY <2>1, <4>1, <4>2
    <3>8. n + 1 \in DOMAIN Arriving'
      <4>1. DOMAIN Arriving' = 1..Len(Arriving')
        BY <3>6, LenProperties
      <4> QED
        BY <3>4, <3>5, <3>6, <4>1
    <3>9. Arriving'[n + 1] = Closed /\ n + 1 <= Len(Arriving) + 1
      <4>1. n + 1 \in 1..(n + 1) /\ ~(n + 1 <= n) /\ (n + 1) - n = 1
            /\ n + 1 <= n + Len(to_client) + 1
        BY <3>4, <3>5
      <4> QED
        BY <3>2, <3>3, <3>5, <3>6, <3>7, <4>1
    <3>10. \A i \in 1..n : Arriving'[i] = Arriving[i]
      <4>1. \A i \in 1..n : i \in 1..(n + 1) /\ i <= n
        BY <3>4, <3>5
      <4> QED
        BY <3>3, <3>5, <3>6, <3>7, <4>1
    <3>11. (n + 1) - 1 = n
      BY <3>4, <3>5
    <3> QED
      BY <3>1, <3>8, <3>9, <3>10, <3>11
  <2>3. CASE link = "reset" /\ in_hand' = << Closed >> /\ UNCHANGED to_client
    BY <1>1, <2>2, <2>3
  <2>4. CASE /\ to_client # << >> /\ to_client' = Tail(to_client)
             /\ LET m == Head(to_client)
                IN \E n \in (IF clobbered THEN Clobber(m) ELSE {m}) :
                     /\ in_hand' = <<n>>
                     /\ unread' = IF n # m /\ n # Closed THEN unread \cup {m.to} ELSE unread
    <3>1. PICK m : m = Head(to_client)
      OBVIOUS
    <3>2. PICK n : /\ in_hand' = <<n>>
                   /\ unread' = IF n # m /\ n # Closed THEN unread \cup {m.to} ELSE unread
      BY <2>4, <3>1
    <3>3. m \in Messages /\ Tail(to_client) \in Seq(Messages)
      BY <1>1, <2>4, <3>1, HeadTailProperties
    <3>4. CASE n = Closed
      BY <2>2, <2>4, <3>2, <3>3, <3>4
    <3>5. CASE n # m /\ n # Closed
      BY <3>2, <3>5
    <3>6. CASE n = m
      <4>1. << m >> \o Tail(to_client) = to_client
        BY <1>1, <2>4, <3>1, HeadThenTail
      <4>2. Arriving' = (inq \o << m >>) \o Tail(to_client)
        BY <2>1, <2>4, <3>2, <3>6 DEF Arriving
      <4>3. (inq \o << m >>) \o Tail(to_client) = inq \o (<< m >> \o Tail(to_client))
        BY <1>1, <3>3, SingletonSeq, ConcatAssociative
      <4> QED
        BY <2>1, <4>1, <4>2, <4>3
    <3> QED
      BY <3>4, <3>5, <3>6
  <2> QED
    BY <1>3, <2>3, <2>4 DEF ReadDone
<1> QED
  BY <1>2, <1>3

-----------------------------------------------------------------------------
\* Up to where waiting_resp_q_ has been sent in this session.
SentUpTo == IF pc = "resend" THEN k - 1 ELSE Len(waiting_resp_q)

InStepInv ==
    /\ pc = "resend" => k <= Len(waiting_resp_q) + 1
    /\ pc \in Serving /\ unread = {} =>
         InStep(Arriving, to_server, waiting_resp_q, SentUpTo, link)

LEMMA SentUpToType ==
    ASSUME TypeInv, InStepInv
    PROVE  SentUpTo \in Nat /\ SentUpTo <= Len(waiting_resp_q) /\ Len(waiting_resp_q) \in Nat
<1>1. Len(waiting_resp_q) \in Nat
  BY LenProperties DEF TypeInv, TypeOK
<1> QED
  BY <1>1 DEF SentUpTo, InStepInv, TypeInv, TypeOK, LoopIndex

\* A reply that can be matched fits the request it answers.
LEMMA MatchesItself ==
    ASSUME NEW m \in Messages, m.verdict \in Plain
    PROVE  Matches(m, m.to) /\ Ret(m) \in {1, -2} /\ (Ret(m) = -2 => m.verdict \in {"busy", "partial"})
<1>1. m.to \in Requests
  BY DEF Messages, Replies, Plain
<1> QED
  BY <1>1 DEF Matches, Ret, Plain, RespId, RespOp, IsErrorEvent

\* The next reply to be parsed answers the head of waiting_resp_q_, which is erased.
LEMMA ParseErasesHead ==
    ASSUME TypeInv, InStepInv, ParseIncomeData, unread = {}
    PROVE  /\ waiting_resp_q # << >> /\ Head(inq).to = waiting_resp_q[1]
           /\ Head(inq).verdict \in Plain
           /\ Erase(Head(inq), 1)
<1>1. PICK m : m = Head(inq)
  OBVIOUS
<1>2. /\ inq # << >> /\ inq' = Tail(inq) /\ UNCHANGED <<in_hand, to_client>> /\ pc = "inq"
      /\ m.verdict # "closed"
  BY <1>1 DEF ParseIncomeData, io, net
<1>3. /\ Arriving # << >> /\ Head(Arriving) = m /\ Arriving \in Seq(Messages)
  BY <1>1, <1>2, ArrivingEnds, ArrivingType DEF ArrivingTyped, TypeInv
<1>4. Arriving[1] = m /\ 1 \in DOMAIN Arriving /\ m \in Messages
  BY <1>3, EmptySeq, LenProperties, ElementOfSeq
<1>5. Sound(Arriving, 1)
  <2>1. \A j \in DOMAIN Arriving : j <= 1 => j = 1
    BY <1>3, LenProperties
  <2> QED
    BY <1>2, <1>4, <2>1 DEF Sound
<1>6. 1 <= SentUpTo /\ m.to = waiting_resp_q[1] /\ m.verdict \in Plain
  BY <1>2, <1>4, <1>5 DEF InStepInv, InStep, Serving
<1>7. 1 \in DOMAIN waiting_resp_q /\ waiting_resp_q # << >>
  <2>1. waiting_resp_q \in Seq(Requests) /\ Len(waiting_resp_q) >= 1
    BY <1>6, SentUpToType DEF TypeInv, TypeOK
  <2> QED
    BY <2>1, LenProperties, EmptySeq
<1>8. Matches(m, waiting_resp_q[1]) /\ Ret(m) \in {1, -2}
  BY <1>4, <1>6, MatchesItself
<1>9. \E i \in DOMAIN waiting_resp_q : FirstMatch(m, i) /\ Erase(m, i)
  BY <1>1, <1>7, <1>8 DEF ParseIncomeData
<1>10. \A i \in DOMAIN waiting_resp_q : FirstMatch(m, i) => i = 1
  <2> SUFFICES ASSUME NEW i \in DOMAIN waiting_resp_q, FirstMatch(m, i), i # 1 PROVE FALSE
    OBVIOUS
  <2>1. 1 \in 1..(i - 1)
    BY LenProperties DEF TypeInv, TypeOK
  <2> QED
    BY <1>8, <2>1 DEF FirstMatch
<1> QED
  BY <1>1, <1>6, <1>7, <1>9, <1>10

\* A request goes out as the next of those that wait.
LEMMA SendInStep ==
    ASSUME TypeInv, StepwiseInv, InStepInv, NEW c \in Requests, NEW V,
           pc \in Serving, unread = {},
           \A i \in 1..SentUpTo : V[i] = waiting_resp_q[i], V[SentUpTo + 1] = c,
           Written(c), UNCHANGED inq
    PROVE  InStep(Arriving', to_server', V, SentUpTo + 1, link')
<1>1. UNCHANGED <<Arriving, link>>
  BY DEF Written, Arriving, io
<1>2. /\ Arriving \in Seq(Messages) /\ to_server \in Seq(Requests) /\ SentUpTo \in Nat
  BY ArrivingType, SentUpToType DEF ArrivingTyped, TypeInv, TypeOK
<1>3. InStep(Arriving, to_server, waiting_resp_q, SentUpTo, link)
  BY DEF InStepInv
<1>4. CASE link = "up"
  <2>1. to_server' = Append(to_server, c)
    BY <1>4 DEF Written
  <2>2. InStep(Arriving, to_server, waiting_resp_q, SentUpTo, "up")
    BY <1>3, <1>4
  <2>3. InStep(Arriving, Append(to_server, c), V, SentUpTo + 1, "up")
    BY <1>2, <2>2, InStepSend
  <2> QED
    BY <1>1, <1>4, <2>1, <2>3
<1>5. CASE link # "up"
  <2>1. to_server = << >> /\ to_server' = << >>
    BY <1>5 DEF Written, StepwiseInv
  <2>2. InStep(Arriving, << >>, waiting_resp_q, SentUpTo, link)
    BY <1>3, <2>1
  <2>3. InStep(Arriving, << >>, V, SentUpTo + 1, link)
    BY <1>2, <1>5, <2>2, InStepUnsent
  <2> QED
    BY <1>1, <2>1, <2>3
<1> QED
  BY <1>4, <1>5

LEMMA NextInStep ==
    ASSUME TypeInv, SessionInv, StepwiseInv, InStepInv, [Next]_vars
    PROVE  InStepInv'
<1> USE DEF Serving
<1>0. /\ TypeOK /\ Arriving \in Seq(Messages) /\ to_server \in Seq(Requests)
      /\ SentUpTo \in Nat /\ SentUpTo <= Len(waiting_resp_q) /\ Len(waiting_resp_q) \in Nat
      /\ waiting_resp_q \in Seq(Requests)
  BY ArrivingType, SentUpToType DEF ArrivingTyped, TypeInv, TypeOK
<1>1. ASSUME pc' \notin Serving PROVE InStepInv'
  BY <1>1 DEF InStepInv
<1>2. ASSUME UNCHANGED <<Arriving, to_server, waiting_resp_q, SentUpTo, link>>,
             pc' \in Serving => pc \in Serving,
             unread' = {} => unread = {},
             pc' = "resend" => pc = "resend" /\ k' = k
      PROVE  InStepInv'
  BY <1>2 DEF InStepInv
<1>3. CASE UNCHANGED vars \/ RunCallback \/ (\E r \in Orders : SendCmd(r)) \/ OrphanExecuted
           \/ OutqEmpty \/ KeepAlive
  <2>1. /\ UNCHANGED <<Arriving, to_server, waiting_resp_q, link, unread>>
        /\ (UNCHANGED <<pc, k>> \/ (pc \in {"outq", "inq"} /\ pc' \in {"inq", "read"}))
    BY <1>3 DEF vars, run, io, net, exchange, RunCallback, SendCmd, OrphanExecuted, OutqEmpty,
                KeepAlive, Arriving
  <2>2. UNCHANGED SentUpTo
    BY <2>1 DEF SentUpTo
  <2> QED
    BY <1>2, <2>1, <2>2
<1>4. CASE NewSession \/ Connected \/ ConnectFailed \/ LoggedIn \/ LoginFailed \/ Subscribe
  <2>1. pc' \notin Serving
    BY <1>4 DEF NewSession, Connected, ConnectFailed, LoggedIn, LoginFailed, Subscribe, DropSession
  <2> QED
    BY <1>1, <2>1
<1>5. CASE CloseCommand \/ ConnectionClosed \/ PingFailed
  <2>1. pc' \notin Serving
    BY <1>5 DEF CloseCommand, ConnectionClosed, PingFailed, DropSession
  <2> QED
    BY <1>1, <2>1
<1>6. CASE ClearInq
  <2>1. /\ inq' = << >> /\ UNCHANGED <<in_hand, to_client, to_server, waiting_resp_q>>
        /\ pc = "onConnected" /\ pc' = "resend" /\ k' = 1
    BY <1>6 DEF ClearInq, io, net
  <2>2. in_hand = << >> /\ to_client = << >> /\ to_server = << >>
    BY <2>1 DEF StepwiseInv
  <2>3. Arriving' = << >> /\ to_server' = << >> /\ SentUpTo' = 0
    BY <2>1, <2>2, EmptySeq, ConcatEmptySeq DEF Arriving, SentUpTo
  <2> QED
    BY <1>0, <2>1, <2>3, InStepStart DEF InStepInv
<1>7. CASE ResendDone
  <2>1. /\ UNCHANGED <<Arriving, to_server, waiting_resp_q, link, unread>>
        /\ pc = "resend" /\ pc' = "read" /\ k > Len(waiting_resp_q)
    BY <1>7 DEF ResendDone, Arriving, io, net, exchange
  <2>2. SentUpTo' = SentUpTo
    BY SMTT(30), <1>0, <2>1 DEF SentUpTo, InStepInv, TypeOK
  <2> QED
    BY <1>2, <2>1, <2>2
<1>8. CASE Resend
  <2>1. CASE WriteThrows
    BY <1>1, <2>1 DEF WriteThrows, DropSession
  <2>2. CASE Written(waiting_resp_q[k]) /\ k' = k + 1 /\ UNCHANGED pc
    <3>1. pc = "resend" /\ k <= Len(waiting_resp_q) /\ UNCHANGED <<inq, waiting_resp_q, unread>>
      BY <1>8 DEF Resend, exchange
    <3>2. k \in 1..Len(waiting_resp_q) /\ SentUpTo = k - 1 /\ SentUpTo + 1 = k /\ SentUpTo' = k
          /\ k' <= Len(waiting_resp_q) + 1
      BY <1>0, <2>2, <3>1 DEF SentUpTo, TypeInv, TypeOK, LoopIndex
    <3>3. waiting_resp_q[k] \in Requests
      BY <1>0, <3>2, ElementOfSeq
    <3>4. unread = {} => InStep(Arriving', to_server', waiting_resp_q, SentUpTo + 1, link')
      BY <2>2, <3>1, <3>2, <3>3, SendInStep
    <3> QED
      BY <2>2, <3>1, <3>2, <3>4 DEF InStepInv
  <2> QED
    BY <1>8, <2>1, <2>2 DEF Resend
<1>9. CASE StartRead
  <2>1. /\ UNCHANGED <<inq, to_client, to_server, waiting_resp_q, link>>
        /\ pc = "read" /\ pc' = "outq" /\ (UNCHANGED <<in_hand, unread>> \/ unread' # {})
    BY <1>9 DEF StartRead, net
  <2>2. UNCHANGED SentUpTo
    BY <2>1 DEF SentUpTo
  <2>3. UNCHANGED in_hand => UNCHANGED Arriving
    BY <2>1 DEF Arriving
  <2> QED
    BY <1>2, <2>1, <2>2, <2>3 DEF InStepInv
<1>10. CASE SendNext
  <2>1. CASE WriteThrows
    BY <1>1, <2>1 DEF WriteThrows, DropSession
  <2>2. CASE Written(Head(outq)) /\ UNCHANGED pc
    <3>1. PICK c : c = Head(outq)
      OBVIOUS
    <3>2. /\ pc = "outq" /\ UNCHANGED <<inq, unread>> /\ outq # << >> /\ c # Close
          /\ waiting_resp_q' = Append(waiting_resp_q, c)
      BY <1>10, <3>1 DEF SendNext, exchange
    <3>3. c \in Requests
      BY <1>0, <3>1, <3>2, HeadTailProperties DEF TypeOK, Commands
    <3>4. PICK V : V = waiting_resp_q'
      OBVIOUS
    <3>5. /\ SentUpTo = Len(waiting_resp_q) /\ SentUpTo' = SentUpTo + 1
          /\ \A i \in 1..SentUpTo : V[i] = waiting_resp_q[i]
          /\ V[SentUpTo + 1] = c
      <4>1. /\ Len(V) = Len(waiting_resp_q) + 1
            /\ \A i \in 1..Len(waiting_resp_q) : V[i] = waiting_resp_q[i]
            /\ V[Len(waiting_resp_q) + 1] = c
        BY <1>0, <3>2, <3>3, <3>4, AppendProperties
      <4>2. SentUpTo = Len(waiting_resp_q) /\ SentUpTo' = Len(V)
        BY <2>2, <3>2, <3>4 DEF SentUpTo
      <4> QED
        BY <4>1, <4>2
    <3>6. unread = {} => InStep(Arriving', to_server', V, SentUpTo + 1, link')
      BY <2>2, <3>1, <3>2, <3>3, <3>5, SendInStep
    <3> QED
      BY <2>2, <3>2, <3>4, <3>5, <3>6 DEF InStepInv
  <2> QED
    BY <1>10, <2>1, <2>2 DEF SendNext
<1>11. CASE ParseIncomeData
  <2>1. CASE unread # {}
    BY <1>11, <2>1 DEF ParseIncomeData, InStepInv, run, exchange
  <2>2. CASE unread = {}
    <3>1. /\ inq # << >> /\ inq' = Tail(inq) /\ Head(inq).verdict # "closed"
          /\ UNCHANGED <<in_hand, to_client, to_server, link, pc, k>> /\ pc = "inq"
      BY <1>11 DEF ParseIncomeData, io, net, run
    <3>2. /\ Arriving # << >> /\ Head(Arriving) = Head(inq) /\ Arriving' = Tail(Arriving)
      BY <1>0, <3>1, ArrivingEnds
    <3>3. waiting_resp_q # << >> /\ waiting_resp_q' = RemoveAt(waiting_resp_q, 1)
      BY <1>11, <2>2, ParseErasesHead DEF Erase
    <3>4. PICK V : V = waiting_resp_q'
      OBVIOUS
    <3>5. /\ Len(V) = Len(waiting_resp_q) - 1
          /\ \A i \in 1..(Len(waiting_resp_q) - 1) : V[i] = waiting_resp_q[i + 1]
      <4>1. 1 \in 1..Len(waiting_resp_q)
        BY <1>0, <3>3, EmptySeq
      <4>2. /\ Len(V) = Len(waiting_resp_q) - 1
            /\ \A i \in 1..(Len(waiting_resp_q) - 1) :
                  V[i] = IF i < 1 THEN waiting_resp_q[i] ELSE waiting_resp_q[i + 1]
        BY <1>0, <3>3, <3>4, <4>1, RemoveAtProperties
      <4> QED
        BY <1>0, <4>2
    <3>6. SentUpTo = Len(waiting_resp_q) /\ SentUpTo' = SentUpTo - 1
      BY <3>1, <3>4, <3>5 DEF SentUpTo
    <3>7. InStep(Arriving, to_server, waiting_resp_q, SentUpTo, link)
      BY <2>2, <3>1 DEF InStepInv
    <3>8. InStep(Tail(Arriving), to_server, V, SentUpTo - 1, link)
      BY <1>0, <3>1, <3>2, <3>5, <3>6, <3>7, InStepParse
    <3> QED
      BY <3>1, <3>2, <3>4, <3>6, <3>8 DEF InStepInv
  <2> QED
    BY <2>1, <2>2
<1>12. CASE ReadDone \/ ReadCallback
  <2>1. /\ UNCHANGED <<to_server, waiting_resp_q, link, pc, k>> /\ (unread' = {} => unread = {})
    BY <1>12 DEF ReadDone, ReadCallback, run, net, exchange
  <2>2. UNCHANGED SentUpTo
    BY <2>1 DEF SentUpTo
  <2>3. CASE UNCHANGED Arriving
    BY <1>2, <2>1, <2>2, <2>3
  <2>4. CASE unread' # {}
    BY <2>1, <2>4 DEF InStepInv
  <2>5. CASE \E p \in DOMAIN Arriving' :
               /\ Arriving'[p].verdict = "closed" /\ p <= Len(Arriving) + 1
               /\ \A i \in 1..(p - 1) : Arriving'[i] = Arriving[i]
    <3>1. PICK B : B = Arriving'
      OBVIOUS
    <3>2. B \in Seq(Messages)
      <4>1. TypeOK'
        BY NextType DEF TypeInv
      <4>2. ArrivingTyped'
        BY <4>1, ArrivingType, PTL
      <4> QED
        BY <3>1, <4>2 DEF ArrivingTyped
    <3>3. PICK p \in DOMAIN B : /\ B[p].verdict = "closed" /\ p <= Len(Arriving) + 1
                                /\ \A i \in 1..(p - 1) : B[i] = Arriving[i]
      BY <2>5, <3>1
    <3>4. pc \in Serving /\ unread = {} => InStep(B, to_server, waiting_resp_q, SentUpTo, link)
      BY <1>0, <3>2, <3>3, InStepBroken DEF InStepInv
    <3> QED
      BY <2>1, <2>2, <3>1, <3>4 DEF InStepInv
  <2> QED
    BY <1>0, <1>12, <2>3, <2>4, <2>5, ArrivingRead
<1>13. CASE StaleCallback
  <2>1. pc' \notin Serving
    BY <1>13 DEF StaleCallback, SessionInv, Idle, run
  <2> QED
    BY <1>1, <2>1
<1>14. CASE ServerReplies
  <2>1. PICK c : c = Head(to_server)
    OBVIOUS
  <2>2. PICK v \in VerdictsFor(c) :
          /\ to_client' = Append(to_client, Reply(c, v))
          /\ unread' = IF v \in {"relogin", "unreadable", "rejected"} THEN unread \cup {c} ELSE unread
    BY <1>14, <2>1 DEF ServerReplies
  <2>3. /\ to_server # << >> /\ to_server' = Tail(to_server) /\ UNCHANGED <<inq, in_hand>>
        /\ UNCHANGED <<waiting_resp_q, link, pc, k>>
    BY <1>14 DEF ServerReplies, run, io
  <2>4. UNCHANGED SentUpTo
    BY <2>3 DEF SentUpTo
  <2>5. CASE unread' # {}
    BY <2>3, <2>5 DEF InStepInv
  <2>6. CASE unread' = {}
    <3>1. unread = {} /\ v \notin {"relogin", "unreadable", "rejected"}
      BY <2>2, <2>6
    <3>2. v \in Plain /\ v \in Verdicts
      BY <2>2, <3>1 DEF VerdictsFor, Verdicts, OrderVerdicts, SubVerdicts, Plain
    <3>3. PICK m : m = Reply(c, v)
      OBVIOUS
    <3>4. m \in Messages /\ m.to = Head(to_server) /\ m.verdict \in Plain
      <4>1. c \in Requests
        BY <1>0, <2>1, <2>3, HeadTailProperties
      <4> QED
        BY <1>0, <2>1, <3>2, <3>3, <4>1, ReplyTypes DEF Reply
    <3>5. Arriving' = Append(Arriving, m)
      BY <1>0, <2>2, <2>3, <3>3, <3>4, ArrivingEnds
    <3>6. pc \in Serving =>
            InStep(Append(Arriving, m), Tail(to_server), waiting_resp_q, SentUpTo, link)
      BY <1>0, <2>3, <3>1, <3>4, InStepReply DEF InStepInv
    <3> QED
      BY <2>3, <2>4, <3>5, <3>6 DEF InStepInv
  <2> QED
    BY <2>5, <2>6
<1>15. CASE LinkLost
  <2>1. /\ UNCHANGED <<Arriving, waiting_resp_q, pc, k, unread>> /\ link' # "up" /\ to_server' = << >>
    BY <1>15 DEF LinkLost, Arriving, run, io, exchange
  <2>2. UNCHANGED SentUpTo
    BY <2>1 DEF SentUpTo
  <2>3. pc \in Serving /\ unread = {} => InStep(Arriving, << >>, waiting_resp_q, SentUpTo, link')
    BY <2>1, InStepLost DEF InStepInv
  <2> QED
    BY <2>1, <2>2, <2>3 DEF InStepInv
<1> QED
  BY <1>3, <1>4, <1>5, <1>6, <1>7, <1>8, <1>9, <1>10, <1>11, <1>12, <1>13, <1>14, <1>15
     DEF Next, RunThread, IoThread

-----------------------------------------------------------------------------
LEMMA InStepIsInOrder == TypeInv /\ InStepInv => RepliesInOrder
<1> SUFFICES ASSUME TypeInv, InStepInv, InLoop, unread = {},
                    NEW i \in DOMAIN Upcoming,
                    \A j \in DOMAIN Arriving : j <= i => Arriving[j].verdict # "closed"
             PROVE  i <= Len(waiting_resp_q) /\ Upcoming[i] = waiting_resp_q[i]
  BY DEF RepliesInOrder
<1>1. PICK R, s, W, n : R = Arriving /\ s = to_server /\ W = waiting_resp_q /\ n = Len(W)
  OBVIOUS
<1>2. R \in Seq(Messages) /\ s \in Seq(Requests) /\ s \in Seq(Commands) /\ n \in Nat
  <2>1. s \in Seq(Requests) /\ n \in Nat /\ R \in Seq(Messages)
    BY <1>1, ArrivingType, LenProperties DEF ArrivingTyped, TypeInv, TypeOK
  <2> QED
    BY <2>1, SeqMonotonic DEF Commands
<1>3. InStep(R, s, W, n, link)
  BY <1>1 DEF InStepInv, InLoop, Serving, SentUpTo
<1>4. /\ Upcoming = About(R) \o s
      /\ About(R) \in Seq(Commands) /\ Len(About(R)) = Len(R) /\ Len(R) \in Nat
      /\ \A j \in 1..Len(R) : About(R)[j] = R[j].to
  BY <1>1, <1>2, AboutType DEF Upcoming, About
<1>5. /\ Len(s) \in Nat /\ DOMAIN s = 1..Len(s) /\ DOMAIN R = 1..Len(R)
      /\ Upcoming \in Seq(Commands) /\ DOMAIN Upcoming = 1..(Len(R) + Len(s))
      /\ \A j \in 1..(Len(R) + Len(s)) :
            Upcoming[j] = IF j <= Len(R) THEN About(R)[j] ELSE s[j - Len(R)]
  <2>1. /\ Upcoming \in Seq(Commands) /\ Len(Upcoming) = Len(R) + Len(s)
        /\ \A j \in 1..(Len(R) + Len(s)) :
              Upcoming[j] = IF j <= Len(R) THEN About(R)[j] ELSE s[j - Len(R)]
    <3>1. PICK a : a = About(R)
      OBVIOUS
    <3>2. a \in Seq(Commands) /\ s \in Seq(Commands) /\ Len(a) = Len(R) /\ Upcoming = a \o s
      BY <1>2, <1>4, <3>1
    <3>3. /\ a \o s \in Seq(Commands) /\ Len(a \o s) = Len(a) + Len(s)
          /\ \A j \in 1..(Len(a) + Len(s)) :
                (a \o s)[j] = IF j <= Len(a) THEN a[j] ELSE s[j - Len(a)]
      BY <3>2, ConcatProperties
    <3> QED
      BY <3>1, <3>2, <3>3
  <2>2. DOMAIN Upcoming = 1..(Len(R) + Len(s))
    BY <2>1, LenProperties
  <2> QED
    BY <1>2, <2>1, <2>2, LenProperties
<1>6. Sound(R, i) /\ i \in 1..(Len(R) + Len(s))
  BY <1>1, <1>5 DEF Sound
<1>7. CASE i <= Len(R)
  <2>1. i \in DOMAIN R /\ Upcoming[i] = R[i].to
    BY <1>4, <1>5, <1>6, <1>7
  <2> QED
    BY <1>1, <1>3, <1>6, <2>1 DEF InStep
<1>8. CASE ~(i <= Len(R))
  <2>1. i - Len(R) \in DOMAIN s /\ Len(R) + (i - Len(R)) = i /\ Len(R) <= i
    BY <1>4, <1>5, <1>6, <1>8
  <2>2. Sound(R, Len(R))
    BY <1>4, <1>5, <1>6, <2>1 DEF Sound
  <2>3. i <= n /\ s[i - Len(R)] = W[i]
    BY <1>3, <2>1, <2>2 DEF InStep
  <2>4. Upcoming[i] = s[i - Len(R)]
    BY <1>5, <1>6, <1>8
  <2> QED
    BY <1>1, <2>3, <2>4
<1> QED
  BY <1>7, <1>8

LEMMA InitInStep == Init => TypeInv /\ SessionInv /\ StepwiseInv /\ InStepInv
<1>1. Init => SessionInv
  BY EmptySeq DEF Init, SessionInv, NothingStarted, Idle, Serving
<1>2. Init => StepwiseInv
  BY DEF Init, StepwiseInv, Serving
<1>3. Init => InStepInv
  BY DEF Init, InStepInv, Serving
<1> QED
  BY <1>1, <1>2, <1>3, InitType

\* RepliesInOrder: however requests, re-sent requests, replies and failures
\* interleave, the next reply is for the request that has waited longest.
THEOREM RepliesComeInOrder == Spec => []RepliesInOrder
<1>1. Init => TypeInv /\ SessionInv /\ StepwiseInv /\ InStepInv
  BY InitInStep
<1>2. TypeInv /\ SessionInv /\ StepwiseInv /\ InStepInv /\ [Next]_vars
        => (TypeInv /\ SessionInv /\ StepwiseInv /\ InStepInv)'
  BY NextType, NextSession, NextStepwise, NextInStep
<1> QED
  BY <1>1, <1>2, InStepIsInOrder, PTL DEF Spec

-----------------------------------------------------------------------------
(* Subscriptions.  onConnected queues all of them; from there each one     *)
(* waits or was decided, because a reply erases the entry it answers.      *)

\* A message that grants or refuses a subscription comes after the decision.
Decided == {m \in Messages :
              m.to \in Subs /\ m.verdict \in {"ok", "error", "partial"} => m.to \in settled}

RestoredInv ==
    /\ in_hand \in Seq(Decided) /\ to_client \in Seq(Decided)
    /\ pc \in Serving => inq \in Seq(Decided)
    /\ pc = "login" => k = 1
    /\ pc = "onConnected" =>
         \A i \in 1..Len(Subscriptions) : i < k => Subscriptions[i] \in Range(outq)
    /\ pc = "resend" => Subs \subseteq Range(outq)
    /\ InLoop /\ unread = {} => Subs \subseteq settled \cup Range(outq) \cup Range(waiting_resp_q)

LEMMA TailRange ==
    ASSUME NEW S, NEW s \in Seq(S), s # << >>
    PROVE  Range(s) = Range(Tail(s)) \cup {Head(s)}
<1>1. /\ Len(s) \in Nat /\ Len(s) >= 1 /\ DOMAIN s = 1..Len(s)
      /\ DOMAIN Tail(s) = 1..(Len(s) - 1)
      /\ \A i \in 1..(Len(s) - 1) : Tail(s)[i] = s[i + 1]
      /\ Head(s) = s[1]
  BY HeadTailProperties, LenProperties, EmptySeq
<1>2. ASSUME NEW i \in 1..Len(s) PROVE s[i] \in Range(Tail(s)) \cup {Head(s)}
  <2>1. CASE i = 1
    BY <1>1, <2>1
  <2>2. CASE i # 1
    <3>1. i - 1 \in 1..(Len(s) - 1) /\ (i - 1) + 1 = i
      BY <1>1, <2>2
    <3>2. Tail(s)[i - 1] = s[i] /\ i - 1 \in DOMAIN Tail(s)
      BY <1>1, <3>1
    <3> QED
      BY <3>2 DEF Range
  <2> QED
    BY <2>1, <2>2
<1>3. ASSUME NEW i \in 1..(Len(s) - 1) PROVE Tail(s)[i] \in Range(s)
  <2>1. i + 1 \in DOMAIN s /\ Tail(s)[i] = s[i + 1]
    BY <1>1
  <2> QED
    BY <2>1 DEF Range
<1>4. Head(s) \in Range(s)
  BY <1>1 DEF Range
<1> QED
  BY ZenonT(30), <1>1, <1>2, <1>3, <1>4 DEF Range

-----------------------------------------------------------------------------
LEMMA SettledGrows ==
    ASSUME [Next]_vars, ~NewSession
    PROVE  settled \subseteq settled'
<1>1. CASE UNCHANGED vars \/ RunCallback \/ (\E r \in Orders : SendCmd(r)) \/ OrphanExecuted
           \/ LinkLost \/ ServerReplies \/ IoThread
  BY <1>1 DEF vars, exchange, RunCallback, SendCmd, OrphanExecuted, LinkLost, ServerReplies,
              IoThread, ReadDone, ReadCallback, StaleCallback
<1>2. CASE Connected \/ ConnectFailed \/ LoggedIn \/ LoginFailed \/ Subscribe \/ ClearInq
           \/ Resend \/ ResendDone \/ StartRead
  BY <1>2 DEF exchange, Connected, ConnectFailed, LoggedIn, LoginFailed, Subscribe, ClearInq,
              Resend, ResendDone, StartRead
<1>3. CASE SendNext \/ CloseCommand \/ OutqEmpty \/ ConnectionClosed \/ ParseIncomeData
           \/ KeepAlive \/ PingFailed
  BY <1>3 DEF exchange, SendNext, CloseCommand, OutqEmpty, ConnectionClosed, ParseIncomeData,
              KeepAlive, PingFailed
<1> QED
  BY <1>1, <1>2, <1>3 DEF Next, RunThread

LEMMA NextDecided ==
    ASSUME TypeInv, SessionInv, RestoredInv, [Next]_vars
    PROVE  /\ in_hand' \in Seq(Decided') /\ to_client' \in Seq(Decided')
           /\ pc' \in Serving => inq' \in Seq(Decided')
<1>0. TypeOK /\ \A T : << >> \in Seq(T)
  BY EmptySeq DEF TypeInv
<1>1. CASE NewSession
  <2>1. in_hand' = << >> /\ to_client' = << >> /\ pc' \notin Serving
    BY <1>1 DEF NewSession, SessionInv, NothingStarted, Idle, Serving, io, net
  <2> QED
    BY <1>0, <2>1
<1>2. CASE ~NewSession
  <2>1. Decided \subseteq Decided'
    <3>1. settled \subseteq settled'
      BY <1>2, SettledGrows
    <3> QED
      BY <3>1 DEF Decided
  <2>2. Closed \in Decided /\ \A m \in Replies \cap Decided : Spoilt(m) \in Decided
    <3>1. Closed \in Decided
      BY <1>0, ReplyTypes DEF Decided, Closed
    <3>2. \A m \in Replies \cap Decided : Spoilt(m) \in Decided
      BY <1>0, ReplyTypes DEF Decided, Spoilt
    <3> QED
      BY <3>1, <3>2
  <2>3. in_hand \in Seq(Decided) /\ to_client \in Seq(Decided)
    BY DEF RestoredInv
  <2>4. pc \in Serving => stale \in Seq(Decided) /\ inq \in Seq(Decided)
    BY <1>0 DEF RestoredInv, SessionInv, Serving, Idle
  <2>5. /\ in_hand' \in Seq(Decided)
        /\ ~ServerReplies => to_client' \in Seq(Decided)
        /\ pc \in Serving => inq' \in Seq(Decided)
    BY <2>2, <2>3, <2>4, MessagesKept
  <2>6. /\ in_hand' \in Seq(Decided')
        /\ ~ServerReplies => to_client' \in Seq(Decided')
        /\ pc \in Serving => inq' \in Seq(Decided')
    BY <2>1, <2>5, SeqMonotonic
  <2>7. pc' \in Serving => inq' \in Seq(Decided')
    <3>1. CASE ClearInq
      BY <1>0, <3>1 DEF ClearInq
    <3>2. pc' \in Serving /\ ~ClearInq => pc \in Serving
      BY <1>0, <1>2, Moves DEF DropSession, ConnectFailed, Connected, Serving
    <3> QED
      BY <2>6, <3>1, <3>2
  <2>8. CASE ServerReplies
    <3>1. PICK c : c = Head(to_server)
      OBVIOUS
    <3>2. PICK v \in VerdictsFor(c) :
            /\ to_client' = Append(to_client, Reply(c, v))
            /\ settled' = IF c \in Subs /\ v \in {"ok", "error"} THEN settled \cup {c} ELSE settled
      BY <2>8, <3>1 DEF ServerReplies
    <3>3. c \in Requests
      BY <2>8, <3>1, <1>0, HeadTailProperties DEF ServerReplies, TypeOK
    <3>4. v \in Verdicts /\ (c \in Subs => v # "partial")
      BY <3>2, BatchesAreOrders, CommandsApart
         DEF VerdictsFor, Verdicts, OrderVerdicts, SubVerdicts
    <3>5. Reply(c, v) \in Decided'
      <4>1. Reply(c, v) \in Messages
        BY <1>0, <3>3, <3>4, ReplyTypes
      <4>2. c \in Subs /\ v \in {"ok", "error", "partial"} => c \in settled'
        BY <3>2, <3>4
      <4> QED
        BY <4>1, <4>2 DEF Decided, Reply
    <3>6. to_client \in Seq(Decided')
      BY <2>1, <2>3, SeqMonotonic
    <3> DEFINE D == Decided'
    <3> HIDE DEF D
    <3>7. to_client' \in Seq(D)
      BY <3>2, <3>5, <3>6, AppendProperties DEF D
    <3> QED
      BY <2>6, <2>7, <3>7 DEF D
  <2> QED
    BY <2>6, <2>7, <2>8
<1> QED
  BY <1>1, <1>2

\* Queueing, sending and erasing keep every subscription accounted for.
LEMMA OutqKept ==
    ASSUME TypeOK, [Next]_vars, ~SendNext, ~CloseCommand
    PROVE  Range(outq) \subseteq Range(outq')
<1>0. outq \in Seq(Commands)
  BY DEF TypeOK
<1>1. \A c : outq' = Append(outq, c) /\ c \in Commands => Range(outq) \subseteq Range(outq')
  BY <1>0, AppendRange
<1>2. CASE UNCHANGED outq
  BY <1>2
<1>3. CASE \E r \in Orders : SendCmd(r)
  BY <1>1, <1>3 DEF SendCmd, Commands, Requests
<1>4. CASE Subscribe
  <2>1. outq' = Append(outq, Subscriptions[k])
    BY <1>4 DEF Subscribe
  <2>2. Range(outq) \subseteq Range(Append(outq, Subscriptions[k]))
    <3> DEFINE e == Subscriptions[k]
    <3>1. outq \in Seq(Commands \cup {e}) /\ e \in Commands \cup {e}
      BY <1>0, SeqMonotonic
    <3> HIDE DEF e
    <3>2. Range(Append(outq, e)) = Range(outq) \cup {e}
      BY <3>1, AppendRange
    <3> QED
      BY <3>2 DEF e
  <2> QED
    BY <2>1, <2>2
<1>5. CASE ParseIncomeData
  <2>1. PICK m : m = Head(inq)
    OBVIOUS
  <2>2. \A i \in DOMAIN waiting_resp_q : waiting_resp_q[i] \in Commands
    BY ElementOfSeq, LenProperties DEF TypeOK, Commands
  <2>3. \/ outq' = Append(outq, Close)
        \/ UNCHANGED outq
        \/ \E i \in DOMAIN waiting_resp_q : Erase(m, i)
    BY <1>5, <2>1 DEF ParseIncomeData
  <2>4. \A i : Erase(m, i) => UNCHANGED outq \/ outq' = Append(outq, waiting_resp_q[i])
    BY DEF Erase
  <2> QED
    BY <1>1, <1>2, <2>2, <2>3, <2>4 DEF Commands
<1>6. UNCHANGED outq \/ (\E r \in Orders : SendCmd(r)) \/ Subscribe \/ ParseIncomeData
  <2>1. CASE UNCHANGED vars \/ RunCallback \/ OrphanExecuted \/ LinkLost \/ ServerReplies \/ IoThread
    BY <2>1 DEF vars, RunCallback, OrphanExecuted, LinkLost, ServerReplies, IoThread, ReadDone,
                ReadCallback, StaleCallback
  <2>2. CASE NewSession \/ Connected \/ ConnectFailed \/ LoggedIn \/ LoginFailed \/ ClearInq
             \/ Resend \/ ResendDone \/ StartRead
    BY <2>2 DEF NewSession, Connected, ConnectFailed, LoggedIn, LoginFailed, ClearInq, Resend,
                ResendDone, StartRead
  <2>3. CASE OutqEmpty \/ ConnectionClosed \/ KeepAlive \/ PingFailed
    BY <2>3 DEF OutqEmpty, ConnectionClosed, KeepAlive, PingFailed
  <2> QED
    BY <2>1, <2>2, <2>3 DEF Next, RunThread
<1> QED
  BY <1>2, <1>3, <1>4, <1>5, <1>6

-----------------------------------------------------------------------------
LEMMA UnreadStays ==
    ASSUME [Next]_vars, ~NewSession, unread' = {}
    PROVE  unread = {}
<1>1. CASE UNCHANGED vars \/ RunCallback \/ (\E r \in Orders : SendCmd(r)) \/ OrphanExecuted
           \/ LinkLost \/ ServerReplies \/ IoThread
  BY <1>1 DEF vars, exchange, RunCallback, SendCmd, OrphanExecuted, LinkLost, ServerReplies,
              IoThread, ReadDone, ReadCallback, StaleCallback
<1>2. CASE Connected \/ ConnectFailed \/ LoggedIn \/ LoginFailed \/ Subscribe \/ ClearInq
           \/ Resend \/ ResendDone \/ StartRead
  BY <1>2 DEF exchange, Connected, ConnectFailed, LoggedIn, LoginFailed, Subscribe, ClearInq,
              Resend, ResendDone, StartRead
<1>3. CASE SendNext \/ CloseCommand \/ OutqEmpty \/ ConnectionClosed \/ ParseIncomeData
           \/ KeepAlive \/ PingFailed
  BY <1>3 DEF exchange, SendNext, CloseCommand, OutqEmpty, ConnectionClosed, ParseIncomeData,
              KeepAlive, PingFailed
<1> QED
  BY <1>1, <1>2, <1>3 DEF Next, RunThread

\* The reply that erases a subscription puts it back in outq_ or follows the decision.
LEMMA ParseRestored ==
    ASSUME TypeInv, InStepInv, RestoredInv, ParseIncomeData, unread = {}
    PROVE  Subs \subseteq settled \cup Range(outq') \cup Range(waiting_resp_q')
<1>1. PICK m, W : m = Head(inq) /\ W = waiting_resp_q
  OBVIOUS
<1>2. /\ W # << >> /\ m.to = W[1] /\ m.verdict \in Plain
      /\ Erase(m, 1) /\ waiting_resp_q' = RemoveAt(W, 1)
  BY <1>1, ParseErasesHead DEF Erase
<1>3. W \in Seq(Requests) /\ 1 \in 1..Len(W) /\ Len(W) \in Nat /\ DOMAIN W = 1..Len(W)
  <2>1. W \in Seq(Requests)
    BY <1>1 DEF TypeInv, TypeOK
  <2> QED
    BY <1>2, <2>1, EmptySeq, LenProperties
<1>4. Range(W) \subseteq {W[1]} \cup Range(RemoveAt(W, 1))
  <2> DEFINE V == RemoveAt(W, 1)
  <2>1. /\ DOMAIN V = 1..(Len(W) - 1)
        /\ \A i \in 1..(Len(W) - 1) : V[i] = W[i + 1]
    <3>1. /\ V \in Seq(Requests) /\ Len(V) = Len(W) - 1
          /\ \A j \in 1..(Len(W) - 1) : V[j] = IF j < 1 THEN W[j] ELSE W[j + 1]
      BY <1>3, RemoveAtProperties
    <3>2. \A j \in 1..(Len(W) - 1) : ~(j < 1)
      BY <1>3
    <3> QED
      BY <3>1, <3>2, LenProperties
  <2> HIDE DEF V
  <2>2. ASSUME NEW i \in 1..Len(W), i # 1 PROVE W[i] \in Range(V)
    <3>1. i - 1 \in 1..(Len(W) - 1) /\ (i - 1) + 1 = i
      BY <1>3, <2>2
    <3>2. V[i - 1] = W[i] /\ i - 1 \in DOMAIN V
      BY <2>1, <3>1
    <3> QED
      BY <3>2 DEF Range
  <2>3. Range(W) \subseteq {W[1]} \cup Range(V)
    BY <1>3, <2>2 DEF Range
  <2> QED
    BY <2>3 DEF V
<1>5. ~SendNext /\ ~CloseCommand /\ pc = "inq" /\ UNCHANGED settled
  BY DEF ParseIncomeData, SendNext, CloseCommand, exchange
<1>6. Range(outq) \subseteq Range(outq')
  BY <1>5, OutqKept DEF TypeInv, Next, RunThread
<1>7. Subs \subseteq settled \cup Range(outq) \cup Range(W)
  BY <1>1, <1>5 DEF RestoredInv, InLoop
<1>8. W[1] \in Subs => W[1] \in settled \/ W[1] \in Range(outq')
  <2>1. CASE Ret(m) = -2
    <3>1. outq' = Append(outq, W[1]) /\ W[1] \in Commands /\ outq \in Seq(Commands)
      BY <1>1, <1>2, <1>3, <2>1, ElementOfSeq DEF Erase, TypeInv, TypeOK, Commands
    <3> QED
      BY <3>1, AppendRange
  <2>2. CASE Ret(m) # -2
    <3>1. m.verdict \in {"ok", "error"}
      BY <1>2, <2>2 DEF Ret, Plain
    <3>2. m \in Decided
      BY <1>1, <1>5, HeadTailProperties DEF RestoredInv, Serving, ParseIncomeData
    <3> QED
      BY <1>2, <3>1, <3>2 DEF Decided
  <2> QED
    BY <2>1, <2>2
<1> QED
  BY <1>2, <1>4, <1>6, <1>7, <1>8

LEMMA NextRestored ==
    ASSUME TypeInv, SessionInv, InStepInv, RestoredInv, [Next]_vars
    PROVE  RestoredInv'
<1>0. TypeOK /\ outq \in Seq(Commands) /\ waiting_resp_q \in Seq(Requests)
  BY DEF TypeInv, TypeOK
<1>1. /\ in_hand' \in Seq(Decided') /\ to_client' \in Seq(Decided')
      /\ pc' \in Serving => inq' \in Seq(Decided')
  BY NextDecided
<1>2. ASSUME pc' \notin {"login", "onConnected", "resend", "read", "outq", "inq"}
      PROVE  RestoredInv'
  BY <1>1, <1>2 DEF RestoredInv, InLoop
\* Steps that leave the run thread where it is, or move it on in the loop.
<1>3. ASSUME ~NewSession, ~SendNext, ~CloseCommand, ~ParseIncomeData,
             UNCHANGED waiting_resp_q,
             \/ UNCHANGED <<pc, k>>
             \/ UNCHANGED pc /\ pc = "resend"
             \/ InLoop /\ InLoop'
      PROVE  RestoredInv'
  <2>1. Range(outq) \subseteq Range(outq') /\ settled \subseteq settled'
        /\ (unread' = {} => unread = {})
    BY <1>0, <1>3, OutqKept, SettledGrows, UnreadStays
  <2>2. pc' = "login" => k' = 1
    BY <1>3 DEF RestoredInv, InLoop
  <2>3. ASSUME pc' = "onConnected", NEW i \in 1..Len(Subscriptions), i < k'
        PROVE  Subscriptions[i] \in Range(outq')
    BY <1>3, <2>1, <2>3 DEF RestoredInv, InLoop
  <2>4. pc' = "resend" => Subs \subseteq Range(outq')
    BY <1>3, <2>1 DEF RestoredInv, InLoop
  <2>5. InLoop' /\ unread' = {} =>
          Subs \subseteq settled' \cup Range(outq') \cup Range(waiting_resp_q')
    <3>1. InLoop' => InLoop
      BY <1>3 DEF InLoop
    <3> QED
      BY <1>3, <2>1, <3>1 DEF RestoredInv
  <2> QED
    BY <1>1, <2>2, <2>3, <2>4, <2>5 DEF RestoredInv
<1>4. CASE UNCHANGED vars \/ RunCallback \/ (\E r \in Orders : SendCmd(r)) \/ OrphanExecuted
           \/ LinkLost \/ ServerReplies \/ IoThread
  <2>1. UNCHANGED <<pc, k, waiting_resp_q>>
    BY <1>4 DEF vars, run, RunCallback, SendCmd, OrphanExecuted, LinkLost, ServerReplies, IoThread,
                ReadDone, ReadCallback, StaleCallback
  <2>2. CASE NewSession \/ SendNext \/ CloseCommand \/ ParseIncomeData
    <3>1. ~NewSession
      BY <2>1 DEF NewSession
    <3>2. ~SendNext
      <4>1. ASSUME SendNext PROVE FALSE
        <5>1. PICK W : W = waiting_resp_q
          OBVIOUS
        <5>2. W \in Seq(Commands) /\ W = Append(W, Head(outq)) /\ Head(outq) \in Commands
          <6>1. outq # << >> /\ waiting_resp_q' = Append(waiting_resp_q, Head(outq))
            BY <4>1 DEF SendNext
          <6>2. W \in Seq(Commands)
            BY <1>0, <5>1, SeqMonotonic DEF Commands
          <6> QED
            BY <1>0, <2>1, <5>1, <6>1, <6>2, HeadTailProperties
        <5>3. Len(W) = Len(W) + 1 /\ Len(W) \in Nat
          BY <5>2, AppendProperties, LenProperties
        <5> QED
          BY <5>3
      <4> QED
        BY <4>1
    <3>3. ~CloseCommand
      BY <2>1 DEF CloseCommand, DropSession
    <3>4. CASE ParseIncomeData
      <4>1. Range(outq) \subseteq Range(outq') /\ settled \subseteq settled'
            /\ (unread' = {} => unread = {})
        BY <1>0, <3>1, <3>2, <3>3, OutqKept, SettledGrows, UnreadStays
      <4>2. pc = "inq" /\ pc' = "inq"
        BY <2>1, <3>4 DEF ParseIncomeData
      <4>3. unread' = {} => Subs \subseteq settled' \cup Range(outq') \cup Range(waiting_resp_q')
        BY <2>1, <4>1, <4>2 DEF RestoredInv, InLoop
      <4> QED
        BY <1>1, <4>2, <4>3 DEF RestoredInv, InLoop
    <3> QED
      BY <2>2, <3>1, <3>2, <3>3, <3>4
  <2> QED
    BY <1>3, <2>1, <2>2
<1>5. CASE NewSession \/ ConnectFailed \/ LoginFailed \/ CloseCommand \/ ConnectionClosed \/ PingFailed
  <2>1. pc' \in {"connect", "waitConnected"}
    BY <1>5 DEF NewSession, ConnectFailed, LoginFailed, CloseCommand, ConnectionClosed, PingFailed,
                DropSession
  <2> QED
    BY <1>2, <2>1
<1>6. CASE Connected \/ LoggedIn
  <2>1. pc' \in {"login", "onConnected"} /\ k' = 1
    BY <1>6 DEF Connected, LoggedIn, RestoredInv
  <2>2. \A i \in 1..Len(Subscriptions) : ~(i < k')
    BY <2>1, SubscriptionTypes
  <2> QED
    BY <1>1, <2>1, <2>2 DEF RestoredInv, InLoop
<1>7. CASE Subscribe
  <2>1. /\ pc = "onConnected" /\ pc' = "onConnected" /\ k' = k + 1 /\ k \in Nat
        /\ outq' = Append(outq, Subscriptions[k]) /\ k <= Len(Subscriptions) /\ k >= 1
    BY <1>7 DEF Subscribe, TypeInv, TypeOK, LoopIndex
  <2>2. k \in 1..Len(Subscriptions) /\ Len(Subscriptions) \in Nat
    BY <2>1, SubscriptionTypes
  <2>3. PICK e : e = Subscriptions[k]
    OBVIOUS
  <2>4. Range(outq') = Range(outq) \cup {e}
    <3>1. e \in Commands /\ outq' = Append(outq, e)
      BY <2>1, <2>2, <2>3, SubscriptionTypes
    <3> QED
      BY <1>0, <3>1, AppendRange
  <2>5. ASSUME NEW i \in 1..Len(Subscriptions), i < k' PROVE Subscriptions[i] \in Range(outq')
    <3>1. i < k \/ i = k
      BY <2>1, <2>2, <2>5
    <3> QED
      BY <2>1, <2>3, <2>4, <3>1 DEF RestoredInv
  <2> QED
    BY <1>1, <2>1, <2>5 DEF RestoredInv, InLoop
<1>8. CASE ClearInq
  <2>1. /\ pc = "onConnected" /\ pc' = "resend" /\ k \in Nat /\ k > Len(Subscriptions)
        /\ UNCHANGED outq
    BY <1>8 DEF ClearInq, TypeInv, TypeOK
  <2>2. \A i \in 1..Len(Subscriptions) : i < k
    BY <2>1, SubscriptionTypes
  <2>3. Subs \subseteq Range(outq)
    <3>1. \A i \in 1..Len(Subscriptions) : Subscriptions[i] \in Range(outq)
      BY <2>1, <2>2 DEF RestoredInv
    <3>2. DOMAIN Subscriptions = 1..Len(Subscriptions)
      BY SubscriptionsSeq, LenProperties
    <3> QED
      BY <3>1, <3>2 DEF Subs, Range
  <2> QED
    BY <1>1, <2>1, <2>3 DEF RestoredInv, InLoop
<1>9. CASE Resend
  <2>1. CASE WriteThrows
    <3>1. pc' = "connect"
      BY <2>1 DEF WriteThrows, DropSession
    <3> QED
      BY <1>2, <3>1
  <2>2. CASE ~WriteThrows
    <3>1. pc = "resend" /\ UNCHANGED <<pc, waiting_resp_q>>
      BY <1>9, <2>2 DEF Resend
    <3>2. ~NewSession /\ ~SendNext /\ ~CloseCommand /\ ~ParseIncomeData
      BY <3>1 DEF NewSession, SendNext, CloseCommand, ParseIncomeData
    <3> QED
      BY <1>3, <3>1, <3>2
  <2> QED
    BY <2>1, <2>2
<1>10. CASE ResendDone
  <2>1. pc = "resend" /\ pc' = "read" /\ UNCHANGED outq
    BY <1>10 DEF ResendDone
  <2> QED
    BY <1>1, <2>1 DEF RestoredInv, InLoop
<1>11. CASE StartRead \/ OutqEmpty \/ KeepAlive
  <2>1. InLoop /\ InLoop' /\ UNCHANGED waiting_resp_q /\ pc' # pc
    BY <1>11 DEF StartRead, OutqEmpty, KeepAlive, InLoop
  <2>2. ~NewSession /\ ~SendNext /\ ~CloseCommand /\ ~ParseIncomeData
    <3>1. pc' \in {"read", "outq", "inq"}
      BY <2>1 DEF InLoop
    <3> QED
      BY <2>1, <3>1 DEF NewSession, SendNext, CloseCommand, ParseIncomeData, DropSession,
                        WriteThrows, run
  <2> QED
    BY <1>3, <2>1, <2>2
<1>12. CASE SendNext
  <2>1. CASE WriteThrows
    <3>1. pc' = "connect"
      BY <2>1 DEF WriteThrows, DropSession
    <3> QED
      BY <1>2, <3>1
  <2>2. CASE ~WriteThrows
    <3>1. PICK c : c = Head(outq)
      OBVIOUS
    <3>2. /\ pc = "outq" /\ pc' = "outq" /\ outq # << >> /\ outq' = Tail(outq) /\ c # Close
          /\ waiting_resp_q' = Append(waiting_resp_q, c) /\ UNCHANGED <<settled, unread>>
      BY <1>12, <2>2, <3>1 DEF SendNext, exchange
    <3>3. c \in Requests
      BY <1>0, <3>1, <3>2, HeadTailProperties DEF Commands
    <3>4. Range(outq) = Range(outq') \cup {c}
      BY <1>0, <3>1, <3>2, TailRange
    <3>5. Range(waiting_resp_q') = Range(waiting_resp_q) \cup {c}
      BY <1>0, <3>2, <3>3, AppendRange
    <3>6. unread' = {} => Subs \subseteq settled' \cup Range(outq') \cup Range(waiting_resp_q')
      BY <3>2, <3>4, <3>5 DEF RestoredInv, InLoop
    <3> QED
      BY <1>1, <3>2, <3>6 DEF RestoredInv, InLoop
  <2> QED
    BY <2>1, <2>2
<1>13. CASE ParseIncomeData
  <2>1. pc = "inq" /\ pc' = "inq" /\ UNCHANGED <<settled, unread>>
    BY <1>13 DEF ParseIncomeData, run, exchange
  <2>2. unread' = {} => Subs \subseteq settled' \cup Range(outq') \cup Range(waiting_resp_q')
    BY <1>13, <2>1, ParseRestored
  <2> QED
    BY <1>1, <2>1, <2>2 DEF RestoredInv, InLoop
<1> QED
  BY <1>4, <1>5, <1>6, <1>7, <1>8, <1>9, <1>10, <1>11, <1>12, <1>13 DEF Next, RunThread

\* SubscriptionsRestored: no subscription is forgotten in a session that has come
\* to the loop, whatever of it was lost, refused for now or decided before.
THEOREM SubscriptionsAreRestored == Spec => []SubscriptionsRestored
<1>1. Init => RestoredInv
  BY EmptySeq DEF Init, RestoredInv, Serving, InLoop
<1>2. Init => TypeInv /\ SessionInv /\ StepwiseInv /\ InStepInv
  BY InitInStep
<1>3. TypeInv /\ SessionInv /\ StepwiseInv /\ InStepInv /\ RestoredInv /\ [Next]_vars
        => (TypeInv /\ SessionInv /\ StepwiseInv /\ InStepInv /\ RestoredInv)'
  BY NextType, NextSession, NextStepwise, NextInStep, NextRestored
<1>4. RestoredInv => SubscriptionsRestored
  BY DEF RestoredInv, SubscriptionsRestored
<1> QED
  BY <1>1, <1>2, <1>3, <1>4, PTL DEF Spec

=============================================================================
