-------------------------- MODULE KeepAlive_proofs ---------------------------
(***************************************************************************)
(* Proofs about the keep-alive, for all times that satisfy TimesNat.  How  *)
(* long the connection took, MaxConnect, may be anything.                  *)
(***************************************************************************)
EXTENDS KeepAlive, TLAPS

\* A thread that has come round is not late with a check.
Punctual ==
    /\ read_age <= ping_age
    /\ checked /\ phase = "loop" => read_age <= Idle /\ ping_age <= PingEvery
    /\ phase = "connecting" => pong_age <= MaxConnect /\ ping_age = 0 /\ pings = 0

(***************************************************************************)
(* In the loop the last sign of life either came after the last ping, and  *)
(* then read_age covers it; or before, and then the ping was at most a     *)
(* period and Grace later, or the check before it would have failed.       *)
(***************************************************************************)
SilenceInv ==
    phase = "loop" =>
        /\ quiet <= pong_age
        /\ quiet <= ping_age => quiet <= read_age
        /\ quiet > ping_age => read_age = ping_age /\ quiet - ping_age <= Idle + 1 + Grace

(***************************************************************************)
(* A ping is sent only when the last pong was at most Grace before the     *)
(* ping before, or when the connection was quick enough; so at each ping   *)
(* the pong or the beginning of the loop is at most a period and Grace     *)
(* away.  A connection that took longer than Grace fails at its first      *)
(* check, and how much longer does not matter.                             *)
(***************************************************************************)
DeafnessInv ==
    phase = "loop" =>
        /\ deaf <= pong_age
        /\ deaf - ping_age <= PingEvery + 1 + Grace

LivePeerInv ==
    (phase = "loop" /\ ~late) => IF pings > 0 THEN ping_age <= Idle ELSE pong_age - ping_age <= Grace

KeepAliveInv == TypeOK /\ Punctual /\ SilenceInv /\ DeafnessInv /\ LivePeerInv /\ LivePeerKept

LEMMA InitKeepAlive == Init => KeepAliveInv
<1> SUFFICES ASSUME Init PROVE KeepAliveInv
  OBVIOUS
<1>1. TypeOK
  <2>1. checked \in BOOLEAN /\ late \in BOOLEAN
    BY Zenon DEF Init
  <2>2. /\ read_age \in 0..(Idle + 1) /\ ping_age \in 0..(PingEvery + 1)
        /\ pong_age \in Nat /\ quiet \in Nat /\ deaf \in Nat /\ pings \in 0..MaxPings
    BY TimesNat DEF Init
  <2> QED
    BY <2>1, <2>2, Zenon DEF Init, TypeOK
<1>2. Punctual
  BY TimesNat DEF Init, Punctual
<1>3. SilenceInv /\ DeafnessInv /\ LivePeerInv /\ LivePeerKept
  BY DEF Init, SilenceInv, DeafnessInv, LivePeerInv, LivePeerKept
<1> QED
  BY <1>1, <1>2, <1>3 DEF KeepAliveInv

LEMMA NextKeepAlive == KeepAliveInv /\ [Next]_vars => KeepAliveInv'
<1> SUFFICES ASSUME KeepAliveInv, [Next]_vars
             PROVE  KeepAliveInv'
  OBVIOUS
<1> USE TimesNat
    DEF KeepAliveInv, TypeOK, Punctual, SilenceInv, DeafnessInv, LivePeerInv, LivePeerKept
<1>1. CASE Tick
  <2>1. CASE phase = "connecting"
    <3>1. TypeOK'
      <4>1. checked' \in BOOLEAN /\ late' \in BOOLEAN
        BY <1>1, <2>1, Zenon DEF Tick
      <4>2. /\ read_age' \in 0..(Idle + 1) /\ ping_age' \in 0..(PingEvery + 1)
            /\ pong_age' \in Nat /\ quiet' \in Nat /\ deaf' \in Nat /\ pings' \in 0..MaxPings
        BY <1>1, <2>1 DEF Tick
      <4> QED
        BY <1>1, <2>1, <4>1, <4>2 DEF Tick
    <3>2. Punctual'
      BY <1>1, <2>1 DEF Tick
    <3> QED
      BY <1>1, <2>1, <3>1, <3>2 DEF Tick
  <2>2. CASE phase = "loop"
    <3>1. TypeOK'
      <4>1. checked' \in BOOLEAN /\ late' \in BOOLEAN
        BY <1>1, <2>2, Zenon DEF Tick
      <4>2. /\ read_age' \in 0..(Idle + 1) /\ ping_age' \in 0..(PingEvery + 1)
            /\ pong_age' \in Nat /\ quiet' \in Nat /\ deaf' \in Nat /\ pings' \in 0..MaxPings
        BY <1>1, <2>2 DEF Tick
      <4> QED
        BY <1>1, <2>2, <4>1, <4>2 DEF Tick
    <3>2. Punctual'
      BY <1>1, <2>2 DEF Tick
    <3>3. SilenceInv'
      BY <1>1, <2>2 DEF Tick
    <3>4. DeafnessInv' /\ LivePeerKept'
      BY <1>1, <2>2 DEF Tick
    <3>5. LivePeerInv'
      <4>1. CASE pings > 0 /\ ping_age >= Idle
        <5>1. late'
          BY <1>1, <2>2, <4>1 DEF Tick
        <5> QED
          BY <5>1
      <4>2. CASE ~(pings > 0 /\ ping_age >= Idle)
        <5>1. /\ late' = late /\ pings' = pings /\ phase = "loop"
              /\ ping_age' = ping_age + 1 /\ pong_age' = pong_age + 1
          BY <1>1, <2>2, <4>2 DEF Tick
        <5> QED
          BY <4>2, <5>1
      <4> QED
        BY <4>1, <4>2
    <3> QED
      BY <3>1, <3>2, <3>3, <3>4, <3>5
  <2> QED
    BY <1>1, <2>1, <2>2 DEF Tick
<1>2. CASE EnterLoop
  <2>1. TypeOK'
    <3>1. checked' \in BOOLEAN /\ late' \in BOOLEAN
      BY <1>2, Zenon DEF EnterLoop
    <3>2. /\ read_age' \in 0..(Idle + 1) /\ ping_age' \in 0..(PingEvery + 1)
          /\ pong_age' \in Nat /\ quiet' \in Nat /\ deaf' \in Nat /\ pings' \in 0..MaxPings
      BY <1>2 DEF EnterLoop
    <3> QED
      BY <1>2, <3>1, <3>2 DEF EnterLoop
  <2>2. Punctual'
    BY <1>2 DEF EnterLoop
  <2>3. SilenceInv'
    BY <1>2 DEF EnterLoop
  <2>4. DeafnessInv'
    BY <1>2 DEF EnterLoop
  <2>5. LivePeerInv' /\ LivePeerKept'
    BY <1>2 DEF EnterLoop
  <2> QED
    BY <2>1, <2>2, <2>3, <2>4, <2>5
<1>3. CASE Message
  BY <1>3 DEF Message
<1>4. CASE Pong
  BY <1>4 DEF Pong
<1>5. CASE Falter
  BY <1>5 DEF Falter
<1>6. CASE NotDue
  BY <1>6 DEF NotDue, Due
<1>7. CASE Ping
  BY <1>7 DEF Ping, Due, PongMissing, MorePings
<1>8. CASE PingFailed
  BY <1>8 DEF PingFailed, Due, PongMissing
<1>9. CASE UNCHANGED vars
  BY <1>9 DEF vars
<1> QED
  BY <1>1, <1>2, <1>3, <1>4, <1>5, <1>6, <1>7, <1>8, <1>9 DEF Next, Check

THEOREM KeepAliveInvHolds == Spec => []KeepAliveInv
BY InitKeepAlive, NextKeepAlive, PTL DEF Spec

\* The clocks of the keep-alive and its connection keep their types, for any times.
THEOREM TypeCorrect == Spec => []TypeOK
<1>1. KeepAliveInv => TypeOK
  BY DEF KeepAliveInv
<1> QED
  BY <1>1, KeepAliveInvHolds, PTL

\* SilenceEnds: how long a silent connection can last.
THEOREM SilenceIsBounded == Spec => []SilenceEnds
<1>1. KeepAliveInv => SilenceEnds
  BY TimesNat DEF KeepAliveInv, TypeOK, SilenceInv, SilenceEnds
<1> QED
  BY <1>1, KeepAliveInvHolds, PTL

\* DeafnessEnds: how long a connection without pongs can last, from its last pong or
\* from the beginning of the loop, whatever time connecting and the login took.
THEOREM DeafnessIsBounded == Spec => []DeafnessEnds
<1>1. KeepAliveInv => DeafnessEnds
  BY TimesNat DEF KeepAliveInv, TypeOK, DeafnessInv, DeafnessEnds
<1> QED
  BY <1>1, KeepAliveInvHolds, PTL

\* LivePeerKept: a prompt exchange is never given up by the keep-alive.
THEOREM LivePeerIsKept == Spec => []LivePeerKept
<1>1. KeepAliveInv => LivePeerKept
  BY DEF KeepAliveInv
<1> QED
  BY <1>1, KeepAliveInvHolds, PTL
=============================================================================
