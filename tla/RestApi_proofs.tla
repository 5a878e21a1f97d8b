---------------------------- MODULE RestApi_proofs ----------------------------
(***************************************************************************)
(* Proofs about RestApi and its sessions, for any number of calls, candles *)
(* and candles in a page.                                                  *)
(***************************************************************************)
EXTENDS RestApi, FiniteSetTheorems, TLAPS

-----------------------------------------------------------------------------
(* Waiting *)

\* A caller sleeps beside a verdict only if the session was connected before its
\* wait began.  The invariant is inductive as it stands.
THEOREM NoVerdictSleptThrough == Spec => []SleepsOnlyIfLate
<1>1. Init => SleepsOnlyIfLate
  BY DEF Init, SleepsOnlyIfLate
<1>2. SleepsOnlyIfLate /\ [Next]_vars => SleepsOnlyIfLate'
  <2>1. SUFFICES ASSUME SleepsOnlyIfLate, [Next]_vars PROVE SleepsOnlyIfLate'
    OBVIOUS
  <2>2. CASE UNCHANGED session
    BY <2>1, <2>2 DEF SleepsOnlyIfLate, session, chain, verdict, wait
  <2>3. CASE \E k, proxy : Fresh(k, proxy)
    BY <2>3 DEF Fresh, SleepsOnlyIfLate
  <2>4. CASE start \/ Handlers
    <3>1. early' = early
      BY <2>4 DEF start, Handlers, Handler, OnResolve, OnProxyResolve, OnProxyConnect, OnProxyHandshake,
                  OnConnect, OnSslHandshake, OnHandshake
    <3>2. on_fail \/ Connects \/ \E next : Goes(next)
      BY <2>4 DEF start, Handlers, OnResolve, OnProxyResolve, OnProxyConnect, OnProxyHandshake,
                  OnConnect, OnSslHandshake, OnHandshake, SetHostName
    <3> QED
      BY <2>1, <3>1, <3>2 DEF SleepsOnlyIfLate, on_fail, Connects, Goes, Notify, verdict
  <2>5. CASE Waits \/ SpuriousWakeup
    BY <2>1, <2>5 DEF SleepsOnlyIfLate, Waits, WaitUtilConnected, Notified, TimesOut, SpuriousWakeup,
                      Returns, Sleeps, chain, verdict
  <2> QED
    BY <2>1, <2>2, <2>3, <2>4, <2>5 DEF Next, Step, Call, SendCmd, Connecting, WakesSpuriously, Opened, NotConnected,
       Write, Read, Executes, HandleCommand, HandleFills, HandlePage, Grows, Stopped, vars
<1> QED
  BY <1>1, <1>2, PTL DEF Spec

-----------------------------------------------------------------------------
(* Commands *)

\* While a reply is on its way it tells whether the request was executed.
ReplyTells ==
    pc \in {"answered", "handle"} =>
        /\ reply \in {"http error", "garbage", "refused", "done", "done, without a code"}
        /\ reply \in {"done", "done, without a code"} => executed

\* setLeverage and closePosition return true only if the exchange executed the
\* request of this very call.
THEOREM TrueIsDone == Spec => []TrueMeansDone
<1> DEFINE Inv == ReplyTells /\ TrueMeansDone
<1>1. Init => Inv
  BY DEF Init, ReplyTells, TrueMeansDone
<1>2. Inv /\ [Next]_vars => Inv'
  <2>1. SUFFICES ASSUME Inv, [Next]_vars PROVE Inv'
    OBVIOUS
  <2>2. CASE UNCHANGED <<pc, op, ok, executed, reply>>
    BY <2>1, <2>2 DEF ReplyTells, TrueMeansDone
  <2>3. CASE UNCHANGED <<executed, reply>> /\ pc' \notin {"idle", "answered", "handle"}
    BY <2>3 DEF ReplyTells, TrueMeansDone
  <2>4. CASE \E o \in HttpOps \cup {"open"} : Call(o)
    BY <2>4 DEF Call, ReplyTells, TrueMeansDone
  <2>5. CASE Opened
    BY <2>5 DEF Opened, Answers, Commands, ReplyTells, TrueMeansDone
  <2>6. CASE UNCHANGED <<executed, reply>> /\ Answers(FALSE)
    BY <2>6 DEF Answers, ReplyTells, TrueMeansDone
  <2>7. CASE Read
    BY <2>1, <2>7 DEF Read, Answers, exchange, ReplyTells, TrueMeansDone
  <2>8. CASE HandleCommand
    BY <2>1, <2>8 DEF HandleCommand, Answers, exchange, Accepted, Readable, ReplyTells, TrueMeansDone
  <2>9. CASE HandleFills \/ HandlePage
    BY <2>9 DEF HandleFills, HandlePage, Answers, exchange, Commands, ReplyTells, TrueMeansDone
  <2>10. CASE Executes
    BY <2>10 DEF Executes, ReplyTells, TrueMeansDone
  <2> QED
    BY <2>1, <2>2, <2>3, <2>4, <2>5, <2>6, <2>7, <2>8, <2>9, <2>10
    DEF Next, Step, SendCmd, Connecting, WakesSpuriously, NotConnected, Write, Grows, Stopped, call, exchange, vars
<1>3. Inv => TrueMeansDone
  OBVIOUS
<1> QED
  BY <1>1, <1>2, <1>3, PTL DEF Spec

-----------------------------------------------------------------------------
(* Paging *)

\* The newest candles of a page are the last of those asked for, and at least one
\* if there is any.
LEMMA NewestAreLast ==
    ASSUME NEW m \in Nat
    PROVE  \E k \in Nat \ {0} : k <= m + 1 /\ (m >= 1 => k <= m) /\ Newest(1..m) = k..m
<1>1. PageSize \in Nat /\ PageSize >= 1
  BY PagesHold
<1>2. ASSUME NEW t \in 1..m PROVE Cardinality({u \in 1..m : u > t}) = m - t
  <2>1. {u \in 1..m : u > t} = (t + 1)..m
    OBVIOUS
  <2>2. Cardinality((t + 1)..m) = m - t
    BY FS_Interval
  <2> QED
    BY <2>1, <2>2
<1> DEFINE k == IF m >= PageSize THEN m - PageSize + 1 ELSE 1
<1>3. k \in Nat \ {0} /\ k <= m + 1 /\ (m >= 1 => k <= m)
  BY <1>1
<1>4. Newest(1..m) = k..m
  <2>1. ASSUME NEW t \in 1..m PROVE Cardinality({u \in 1..m : u > t}) < PageSize <=> t >= k
    BY <1>1, <1>2, <2>1
  <2>2. Newest(1..m) = {t \in 1..m : t >= k}
    BY <2>1 DEF Newest
  <2>3. {t \in 1..m : t >= k} = k..m
    <3> HIDE DEF k
    <3>1. \A t : t \in {u \in 1..m : u >= k} <=> t \in k..m
      BY <1>3
    <3> QED
      BY <3>1
  <2> QED
    BY <2>2, <2>3
<1> HIDE DEF k
<1> QED
  BY <1>3, <1>4

\* The last candle that has not been gathered, once the first page was made.
Left == IF after_time = 0 THEN first ELSE after_time - 1

\* What is gathered are the candles from after_time to first, each once.
Gathered ==
    /\ candles \in Nat /\ first \in Nat /\ after_time \in Nat /\ out \in Seq(Nat)
    /\ after_time = 0 => out = << >>
    /\ after_time # 0 => /\ after_time <= first
                         /\ Len(out) = first - after_time + 1
                         /\ \A i \in 1..Len(out) : out[i] \in after_time..first
                         /\ \A t \in after_time..first : \E i \in 1..Len(out) : out[i] = t

\* A page holds the last candles of those left, and is empty only if none is left.
PageFrom(k) ==
    /\ k <= Left + 1 /\ (Left >= 1 => k <= Left)
    /\ page \in [1..(Left - k + 1) -> k..Left]
    /\ \A t \in k..Left : \E i \in 1..(Left - k + 1) : page[i] = t

PageHolds ==
    pc \in {"answered", "handle"} /\ op = "candles" /\ reply \in {"done", "done, without a code"} =>
        \E k \in Nat \ {0} : PageFrom(k)

HistoryInv == Gathered /\ ReplyTells /\ PageHolds /\ PagesComplete

LEMMA PageMade ==
    ASSUME NEW m \in Nat, NEW p \in Orders(Newest(1..m))
    PROVE  \E k \in Nat \ {0} :
             /\ k <= m + 1 /\ (m >= 1 => k <= m)
             /\ p \in [1..(m - k + 1) -> k..m]
             /\ \A t \in k..m : \E i \in 1..(m - k + 1) : p[i] = t
<1>1. PICK k \in Nat \ {0} : k <= m + 1 /\ (m >= 1 => k <= m) /\ Newest(1..m) = k..m
  BY NewestAreLast
<1>2. Cardinality(k..m) = m - k + 1
  BY <1>1, FS_Interval
<1>3. /\ p \in [1..(m - k + 1) -> k..m]
      /\ \A t \in k..m : \E i \in DOMAIN p : p[i] = t
  BY <1>1, <1>2 DEF Orders
<1> QED
  BY <1>1, <1>3

LEMMA LeastIsMin ==
    ASSUME NEW S, NEW k \in S, \A t \in S : t \in Nat /\ k <= t
    PROVE  Min(S) = k
<1>1. \E x \in S : \A t \in S : x <= t
  OBVIOUS
<1> DEFINE least == Min(S)
<1>2. least \in S /\ \A t \in S : least <= t
  BY <1>1, Zenon DEF Min
<1> HIDE DEF least
<1>3. least = k
  <2>1. least \in Nat /\ k \in Nat /\ k <= least /\ least <= k
    BY <1>2
  <2> QED
    BY <2>1
<1> QED
  BY <1>3 DEF least

\* The least time of a page, and of those gathered before.
LEMMA OldestFound ==
    ASSUME Gathered, NEW k \in Nat \ {0}, PageFrom(k), k <= Left
    PROVE  Oldest = k
<1>1. Left \in Nat /\ 1..(Left - k + 1) = DOMAIN page
  BY DEF Gathered, Left, PageFrom
<1> DEFINE times == {page[i] : i \in DOMAIN page}
           all == IF after_time = 0 THEN times ELSE times \cup {after_time}
<1>2. k \in all
  BY <1>1 DEF PageFrom
<1>3. \A t \in all : t \in Nat /\ k <= t
  <2>1. \A i \in DOMAIN page : page[i] \in k..Left
    BY <1>1 DEF PageFrom
  <2>2. after_time # 0 => after_time \in Nat /\ k <= after_time
    BY DEF Left, Gathered
  <2> QED
    BY <1>1, <2>1, <2>2
<1>4. Oldest = Min(all)
  BY DEF Oldest
<1> HIDE DEF all
<1> QED
  BY <1>2, <1>3, <1>4, LeastIsMin

LEMMA FunctionIsSeq ==
    ASSUME NEW S, NEW n \in Nat, NEW f \in [1..n -> S]
    PROVE  f \in Seq(S) /\ Len(f) = n
OBVIOUS

LEMMA CatElements ==
    ASSUME NEW S, NEW s \in Seq(S), NEW t \in Seq(S)
    PROVE  /\ s \o t \in Seq(S) /\ Len(s \o t) = Len(s) + Len(t)
           /\ \A i \in 1..Len(s \o t) : (s \o t)[i] = IF i <= Len(s) THEN s[i] ELSE t[i - Len(s)]
OBVIOUS

LEMMA PageGathered ==
    ASSUME Gathered, NEW k \in Nat \ {0}, PageFrom(k), k <= Left,
           after_time' = k, out' = out \o page, candles' = candles, first' = first
    PROVE  Gathered'
<1>1. Left \in Nat /\ page \in Seq(Nat) /\ Len(page) = Left - k + 1 /\ Left <= first
  <2>1. Left \in Nat /\ Left <= first
    BY DEF Gathered, Left
  <2>2. Left - k + 1 \in Nat /\ page \in [1..(Left - k + 1) -> Nat]
    BY <2>1 DEF PageFrom
  <2> QED
    BY <2>1, <2>2, FunctionIsSeq
<1>2. Len(out) = first - Left
  BY SMTT(30) DEF Gathered, Left
<1>3. /\ out' \in Seq(Nat) /\ Len(out') = Len(out) + Len(page)
      /\ \A i \in 1..Len(out') : out'[i] = IF i <= Len(out) THEN out[i] ELSE page[i - Len(out)]
  <2>1. out \in Seq(Nat) /\ page \in Seq(Nat)
    BY <1>1 DEF Gathered
  <2> QED
    BY <2>1, CatElements
<1>4. Len(out') = first' - after_time' + 1 /\ k <= first
  BY <1>1, <1>2, <1>3 DEF Gathered
<1>5. ASSUME NEW i \in 1..Len(out') PROVE out'[i] \in k..first
  <2>1. CASE i <= Len(out)
    <3>1. after_time # 0 /\ out[i] \in after_time..first
      BY <1>3, <1>5, <2>1 DEF Gathered
    <3>2. k <= after_time /\ after_time \in Nat /\ first \in Nat
      BY <3>1 DEF Left, Gathered
    <3>3. out[i] \in k..first
      BY <3>1, <3>2
    <3> QED
      BY <1>3, <2>1, <3>3
  <2>2. CASE i > Len(out)
    <3>1. i - Len(out) \in 1..(Left - k + 1)
      BY <1>1, <1>2, <1>3, <1>5, <2>2 DEF Gathered
    <3>2. page[i - Len(out)] \in k..Left
      BY <3>1 DEF PageFrom
    <3>3. page[i - Len(out)] \in k..first
      BY <1>1, <3>2 DEF Gathered
    <3>4. ~ (i <= Len(out))
      BY <1>2, <2>2 DEF Gathered
    <3> QED
      BY <1>3, <3>3, <3>4
  <2> QED
    BY <1>2, <1>5, <2>1, <2>2 DEF Gathered
<1>6. ASSUME NEW t \in k..first PROVE \E i \in 1..Len(out') : out'[i] = t
  <2>1. CASE t <= Left
    <3>1. PICK i \in 1..(Left - k + 1) : page[i] = t
      BY <2>1 DEF PageFrom
    <3>2. i + Len(out) \in 1..Len(out') /\ i + Len(out) > Len(out) /\ (i + Len(out)) - Len(out) = i
      BY <1>1, <1>2, <1>3, <3>1 DEF Gathered
    <3>3. out'[i + Len(out)] = t
      BY <1>3, <3>1, <3>2
    <3> QED
      BY <3>2, <3>3
  <2>2. CASE t > Left
    <3>1. after_time # 0 /\ t \in after_time..first
      BY <1>6, <2>2 DEF Left, Gathered
    <3>2. PICK i \in 1..Len(out) : out[i] = t
      BY <3>1 DEF Gathered
    <3>3. i \in 1..Len(out') /\ out'[i] = t
      BY <1>1, <1>2, <1>3, <3>2 DEF Gathered
    <3> QED
      BY <3>3
  <2> QED
    BY <1>1, <1>6, <2>1, <2>2 DEF Gathered
<1> QED
  BY <1>3, <1>4, <1>5, <1>6 DEF Gathered

LEMMA GatheredKept ==
    ASSUME Gathered, UNCHANGED <<after_time, out, first>>, candles' \in Nat
    PROVE  Gathered'
BY DEF Gathered

LEMMA PageKept ==
    ASSUME PageHolds, UNCHANGED <<op, reply, page, after_time, first>>,
           pc' \in {"answered", "handle"} => pc \in {"answered", "handle"}
    PROVE  PageHolds'
<1>1. ASSUME NEW k, PageFrom(k) PROVE PageFrom(k)'
  <2>1. Left' = Left
    BY DEF Left
  <2> QED
    BY <1>1, <2>1 DEF PageFrom
<1> QED
  BY <1>1 DEF PageHolds

LEMMA HandlePageKeeps == ASSUME HistoryInv, HandlePage PROVE HistoryInv'
<1>1. /\ UNCHANGED <<executed, reply, page, candles, first>> /\ op = "candles" /\ op' = op
      /\ pc = "handle" /\ pc' \in {"idle", "request"}
  BY DEF HandlePage, exchange, Answers
<1>2. ReplyTells' /\ PageHolds'
  BY <1>1 DEF ReplyTells, PageHolds
<1>3. CASE Answers(FALSE) /\ UNCHANGED history
  <2>1. Gathered'
    BY <1>1, <1>3 DEF history, HistoryInv, Gathered
  <2>2. PagesComplete'
    BY <1>3 DEF Answers, PagesComplete
  <2> QED
    BY <1>2, <2>1, <2>2 DEF HistoryInv
<1>4. Accepted => \E k \in Nat \ {0} : PageFrom(k)
  BY <1>1 DEF HistoryInv, ReplyTells, PageHolds, Accepted, Readable
<1>5. CASE Accepted /\ page = << >> /\ Answers(TRUE) /\ UNCHANGED history
  <2>1. Gathered'
    BY <1>1, <1>5 DEF history, HistoryInv, Gathered
  <2>2. Left = 0
    <3>1. PICK k \in Nat \ {0} : PageFrom(k)
      BY <1>4, <1>5
    <3>2. Left \in Nat /\ DOMAIN page = 1..(Left - k + 1)
      BY <3>1 DEF PageFrom, Left, HistoryInv, Gathered
    <3>3. ~ (k <= Left)
      <4>1. DOMAIN << >> = {}
        OBVIOUS
      <4>2. 1..(Left - k + 1) = {}
        BY <1>5, <3>2, <4>1
      <4> QED
        BY <3>2, <4>2
    <3> QED
      BY <3>1, <3>2, <3>3 DEF PageFrom
  <2>3. Len(out) = first /\ {out[i] : i \in DOMAIN out} = 1..first
    <3>1. CASE after_time = 0
      BY <2>2, <3>1 DEF Left, HistoryInv, Gathered
    <3>2. CASE after_time # 0
      <4>1. after_time = 1
        BY <2>2, <3>2 DEF Left, HistoryInv, Gathered
      <4>2. DOMAIN out = 1..Len(out)
        BY DEF HistoryInv, Gathered
      <4>3. first \in Nat /\ Len(out) = first
        BY <3>2, <4>1 DEF HistoryInv, Gathered
      <4>4. \A i \in DOMAIN out : out[i] \in 1..first
        BY <3>2, <4>1, <4>2 DEF HistoryInv, Gathered
      <4>5. \A t \in 1..first : \E i \in DOMAIN out : out[i] = t
        BY <3>2, <4>1, <4>2 DEF HistoryInv, Gathered
      <4> QED
        BY <4>3, <4>4, <4>5
    <3> QED
      BY <3>1, <3>2
  <2>4. PagesComplete'
    BY <1>1, <1>5, <2>3 DEF history, PagesComplete
  <2> QED
    BY <1>2, <2>1, <2>4 DEF HistoryInv
<1>6. CASE Accepted /\ page # << >> /\ after_time' = Oldest /\ out' = out \o page /\ pc' = "request"
  <2>1. PICK k \in Nat \ {0} : PageFrom(k)
    BY <1>4, <1>6
  <2>2. k <= Left
    <3>1. Left \in Nat /\ DOMAIN page = 1..(Left - k + 1) /\ page # << >>
      BY <1>6, <2>1 DEF PageFrom, Left, HistoryInv, Gathered
    <3>2. Left - k + 1 = 0 => page = << >>
      BY <2>1 DEF PageFrom
    <3> QED
      BY <2>1, <3>1, <3>2 DEF PageFrom
  <2>3. Oldest = k
    BY <2>1, <2>2, OldestFound DEF HistoryInv
  <2>4. Gathered'
    BY <1>1, <1>6, <2>1, <2>2, <2>3, PageGathered DEF HistoryInv
  <2>5. PagesComplete'
    BY <1>6 DEF PagesComplete
  <2> QED
    BY <1>2, <2>4, <2>5 DEF HistoryInv
<1> QED
  BY <1>3, <1>5, <1>6 DEF HandlePage

LEMMA ExecutesKeeps == ASSUME HistoryInv, Executes PROVE HistoryInv'
<1>1. /\ pc' = "answered" /\ op' = op /\ after_time' = after_time /\ out' = out /\ candles' = candles
      /\ first' = (IF op = "candles" /\ after_time = 0 THEN candles ELSE first)
  BY DEF Executes, history
<1>2. Gathered'
  BY <1>1 DEF HistoryInv, Gathered
<1>3. ReplyTells'
  BY DEF Executes, ReplyTells
<1>4. PagesComplete'
  BY <1>1 DEF PagesComplete
<1>5. PageHolds'
  <2>1. SUFFICES ASSUME op = "candles", reply' \in {"done", "done, without a code"}
                 PROVE  \E k \in Nat \ {0} : PageFrom(k)'
    BY <1>1 DEF PageHolds
  <2>2. page' \in Orders(Newest(Asked))
    BY <2>1 DEF Executes
  <2>3. Left' \in Nat /\ Asked = 1..Left'
    <3>1. CASE after_time = 0
      <4>1. Left' = candles /\ Asked = 1..candles
        BY <1>1, <2>1, <3>1 DEF Asked, Left
      <4> QED
        BY <4>1 DEF HistoryInv, Gathered
    <3>2. CASE after_time # 0
      <4>1. Left' = after_time - 1 /\ Asked = 1..(after_time - 1)
        BY <1>1, <3>2 DEF Asked, Left
      <4> QED
        BY <3>2, <4>1 DEF HistoryInv, Gathered
    <3> QED
      BY <3>1, <3>2
  <2>4. PICK k \in Nat \ {0} :
             /\ k <= Left' + 1 /\ (Left' >= 1 => k <= Left')
             /\ page' \in [1..(Left' - k + 1) -> k..Left']
             /\ \A t \in k..Left' : \E i \in 1..(Left' - k + 1) : page'[i] = t
    BY <2>2, <2>3, PageMade
  <2>5. PageFrom(k)'
    BY <2>4 DEF PageFrom
  <2> QED
    BY <2>5
<1> QED
  BY <1>2, <1>3, <1>4, <1>5 DEF HistoryInv

\* A history that was returned with true is complete, for any number of candles and
\* of candles in a page: what has been gathered is always an interval up to the
\* last candle of the first page.
THEOREM HistoriesAreComplete == Spec => []PagesComplete
<1>1. Init => HistoryInv
  <2>1. SUFFICES ASSUME Init PROVE HistoryInv
    OBVIOUS
  <2>2. candles \in Nat /\ first = 0 /\ after_time = 0 /\ out = << >> /\ pc = "idle" /\ ok = FALSE
    BY <2>1, PagesHold DEF Init
  <2> QED
    BY <2>2 DEF HistoryInv, Gathered, ReplyTells, PageHolds, PagesComplete
<1>2. HistoryInv /\ [Next]_vars => HistoryInv'
  <2>1. SUFFICES ASSUME HistoryInv, [Next]_vars PROVE HistoryInv'
    OBVIOUS
  <2>2. CASE UNCHANGED <<call, history, exchange>>
    <3>1. UNCHANGED <<pc, op, ok, after_time, out, executed, reply, page, candles, first>>
      BY <2>2 DEF call, history, exchange
    <3>2. ReplyTells' /\ PagesComplete'
      BY <2>1, <3>1 DEF HistoryInv, ReplyTells, PagesComplete
    <3> QED
      BY <2>1, <3>1, <3>2, GatheredKept, PageKept DEF HistoryInv, Gathered
  <2>3. CASE UNCHANGED <<history, exchange>> /\ op' = op /\ (pc' \in {"idle", "connect", "sent"}) /\ (pc' = "idle" => ~ok')
    BY <2>1, <2>3 DEF history, exchange, HistoryInv, Gathered, ReplyTells, PageHolds, PagesComplete
  <2>4. CASE \E o \in HttpOps \cup {"open"} : Call(o)
    <3>1. /\ pc' = "request" /\ after_time' = 0 /\ out' = << >> /\ UNCHANGED <<candles, first>>
      BY <2>4 DEF Call
    <3>2. Gathered'
      BY <2>1, <3>1 DEF HistoryInv, Gathered
    <3> QED
      BY <3>1, <3>2 DEF HistoryInv, ReplyTells, PageHolds, PagesComplete
  <2>5. CASE Opened \/ HandleCommand \/ HandleFills
    <3>1. UNCHANGED <<history, exchange>> /\ pc' = "idle" /\ op' = op /\ op # "candles"
      BY <2>5 DEF Opened, HandleCommand, HandleFills, Answers, Commands
    <3> QED
      BY <2>1, <3>1 DEF history, exchange, HistoryInv, Gathered, ReplyTells, PageHolds, PagesComplete
  <2>6. CASE Read
    <3>1. CASE Answers(FALSE)
      BY <2>3, <2>6, <3>1 DEF Read, Answers
    <3>2. CASE pc = "answered" /\ pc' = "handle" /\ op' = op /\ UNCHANGED <<history, exchange>>
      <4>1. UNCHANGED <<op, after_time, out, executed, reply, page, candles, first>>
        BY <3>2 DEF history, exchange
      <4>2. ReplyTells' /\ PagesComplete'
        BY <2>1, <3>2, <4>1 DEF HistoryInv, ReplyTells, PagesComplete
      <4> QED
        BY <2>1, <3>2, <4>1, <4>2, GatheredKept, PageKept DEF HistoryInv, Gathered
    <3> QED
      BY <2>6, <3>1, <3>2 DEF Read
  <2>7. CASE HandlePage
    BY <2>1, <2>7, HandlePageKeeps
  <2>8. CASE Executes
    BY <2>1, <2>8, ExecutesKeeps
  <2>9. CASE Grows
    <3>1. /\ UNCHANGED <<call, history, executed, reply, page, first>> /\ candles' = candles + 1
      BY <2>9 DEF Grows
    <3>2. UNCHANGED <<pc, op, ok, after_time, out, executed, reply, page, first>> /\ candles' \in Nat
      BY <2>1, <3>1 DEF call, history, HistoryInv, Gathered
    <3>3. ReplyTells' /\ PagesComplete'
      BY <2>1, <3>2 DEF HistoryInv, ReplyTells, PagesComplete
    <3> QED
      BY <2>1, <3>2, <3>3, GatheredKept, PageKept DEF HistoryInv
  <2>10. CASE SendCmd \/ Connecting \/ WakesSpuriously \/ NotConnected \/ Write \/ Stopped
    BY <2>2, <2>3, <2>10 DEF SendCmd, Connecting, WakesSpuriously, NotConnected, Write, Stopped, Answers, vars
  <2> QED
    BY <2>1, <2>2, <2>4, <2>5, <2>6, <2>7, <2>8, <2>9, <2>10 DEF Next, Step, vars
<1>3. HistoryInv => PagesComplete
  BY DEF HistoryInv
<1> QED
  BY <1>1, <1>2, <1>3, PTL DEF Spec
==============================================================================
