---------------------------- MODULE Client_proofs ----------------------------
(***************************************************************************)
(* Proofs about Client::start, for any number of channels.                 *)
(***************************************************************************)
EXTENDS Client, TLAPS

LEMMA NamesOfChannels ==
    /\ Len(Channels) \in Nat /\ Len(Channels) >= 1
    /\ \A i \in 1..Len(Channels) : Channels[i] \in Names
    /\ \A c \in Names : \E i \in 1..Len(Channels) : Channels[i] = c
    /\ \A i, j \in 1..Len(Channels) : Channels[i] = Channels[j] => i = j
<1>1. Len(Channels) \in Nat /\ DOMAIN Channels = 1..Len(Channels) /\ Len(Channels) # 0
  BY ChannelsAreDistinct
<1> QED
  BY <1>1, ChannelsAreDistinct DEF Names, Range, IsInjective

(***************************************************************************)
(* How far start() has come: the channels up to the one it works on.       *)
(***************************************************************************)
Building == main \in {"build", "derive"}
BuiltSoFar ==
    /\ Building => \A i \in 1..(n - 1) : Channels[i] \in built
    /\ ~Building => Names \subseteq built

\* Sessions connect only once the I/O thread runs, which is after the building.
IoAfterBuilding ==
    /\ io => ~Building
    /\ \A c \in Names : phase[c] \in {"subscribing", "up"} => io

AwaitedSoFar ==
    /\ main \in {"await", "asleep"} => \A i \in 1..(n - 1) : Channels[i] \in opened \cup spurious
    /\ main = "awake" => \A i \in 1..n : Channels[i] \in opened \cup spurious
    /\ main = "startIo" => n = 1

\* connected_ speaks of this connection or of one that was.
ConnectedMeans ==
    /\ \A c \in Names : connected[c] => c \in opened
    /\ \A c \in Names : phase[c] = "up" => connected[c]
    /\ main = "asleep" => ~connected[Channels[n]]

StartInv ==
    /\ TypeOK
    /\ BuiltSoFar
    /\ IoAfterBuilding
    /\ AwaitedSoFar
    /\ ConnectedMeans
    /\ StartedMeansOpened

LEMMA InitStart == Init => StartInv
<1> SUFFICES ASSUME Init
             PROVE  StartInv
  OBVIOUS
<1>1. TypeOK
  <2>1. 0 \in 0..MaxDrops /\ 1 \in 1..Len(Channels)
    BY NamesOfChannels, MaxDropsNat
  <2>2. phase \in [Names -> Phases] /\ connected \in [Names -> BOOLEAN] /\ drops \in [Names -> 0..MaxDrops]
    BY <2>1 DEF Init, Phases
  <2> QED
    BY <2>1, <2>2 DEF Init, TypeOK, MainStates
<1>2. BuiltSoFar
  BY NamesOfChannels DEF Init, BuiltSoFar, Building
<1>3. IoAfterBuilding /\ AwaitedSoFar /\ StartedMeansOpened
  BY DEF Init, IoAfterBuilding, AwaitedSoFar, StartedMeansOpened
<1>4. ConnectedMeans
  BY DEF Init, ConnectedMeans
<1> QED
  BY <1>1, <1>2, <1>3, <1>4 DEF StartInv

\* What Return needs and gives.
LEMMA ReturnAwaited ==
    ASSUME TypeOK, \A i \in 1..n : Channels[i] \in opened \cup spurious, Return,
           UNCHANGED <<opened, spurious>>
    PROVE  AwaitedSoFar' /\ StartedMeansOpened'
<1>1. n \in 1..Len(Channels) /\ Len(Channels) \in Nat
  BY NamesOfChannels DEF TypeOK
<1>2. CASE n < Len(Channels)
  <2>1. main' = "await" /\ n' = n + 1
    BY <1>2 DEF Return
  <2>2. \A i \in 1..(n' - 1) : i \in 1..n
    BY <1>1, <2>1
  <2> QED
    BY <2>1, <2>2 DEF AwaitedSoFar, StartedMeansOpened
<1>3. CASE ~(n < Len(Channels))
  <2>1. main' = "started" /\ n = Len(Channels)
    BY <1>1, <1>3 DEF Return
  <2>2. Names \subseteq opened \cup spurious
    BY <2>1, NamesOfChannels
  <2> QED
    BY <2>1, <2>2 DEF AwaitedSoFar, StartedMeansOpened
<1> QED
  BY <1>2, <1>3

LEMMA MainStart == StartInv /\ (MainStep \/ SpuriousWakeup) => StartInv'
<1> SUFFICES ASSUME StartInv, MainStep \/ SpuriousWakeup
             PROVE  StartInv'
  OBVIOUS
<1> USE NamesOfChannels
    DEF StartInv, TypeOK, MainStates, Phases, BuiltSoFar, Building, IoAfterBuilding, AwaitedSoFar,
        ConnectedMeans, StartedMeansOpened
<1>1. CASE Build
  <2>1. TypeOK'
    BY <1>1 DEF Build, Enter
  <2>2. BuiltSoFar' /\ IoAfterBuilding'
    BY <1>1 DEF Build, Enter
  <2>3. AwaitedSoFar' /\ StartedMeansOpened'
    BY <1>1 DEF Build, Enter
  <2>4. ConnectedMeans'
    BY <1>1 DEF Build, Enter
  <2> QED
    BY <2>1, <2>2, <2>3, <2>4
<1>2. CASE Derive
  <2>1. TypeOK'
    BY <1>2 DEF Derive
  <2>2. BuiltSoFar'
    <3>1. \A i \in 1..n : Channels[i] \in built'
      BY <1>2 DEF Derive
    <3>2. CASE n < Len(Channels)
      BY <1>2, <3>1, <3>2 DEF Derive
    <3>3. CASE ~(n < Len(Channels))
      <4>1. n = Len(Channels)
        BY <3>3
      <4>2. Names \subseteq built'
        BY <3>1, <4>1
      <4> QED
        BY <1>2, <3>3, <4>2 DEF Derive
    <3> QED
      BY <3>2, <3>3
  <2>3. IoAfterBuilding' /\ AwaitedSoFar' /\ StartedMeansOpened'
    BY <1>2 DEF Derive
  <2>4. ConnectedMeans'
    BY <1>2 DEF Derive
  <2> QED
    BY <2>1, <2>2, <2>3, <2>4
<1>3. CASE StartIo
  <2>1. TypeOK'
    BY <1>3 DEF StartIo
  <2>2. BuiltSoFar' /\ IoAfterBuilding'
    BY <1>3 DEF StartIo
  <2>3. AwaitedSoFar' /\ StartedMeansOpened'
    BY <1>3 DEF StartIo
  <2>4. ConnectedMeans'
    BY <1>3 DEF StartIo
  <2> QED
    BY <2>1, <2>2, <2>3, <2>4
<1>4. CASE WaitConnected
  <2>1. TypeOK'
    BY <1>4 DEF WaitConnected, Return
  <2>2. BuiltSoFar' /\ IoAfterBuilding'
    BY <1>4 DEF WaitConnected, Return
  <2>3. AwaitedSoFar' /\ StartedMeansOpened'
    <3>1. CASE connected[Channels[n]]
      <4>1. \A i \in 1..n : Channels[i] \in opened \cup spurious
        BY <1>4, <3>1 DEF WaitConnected
      <4>2. Return /\ UNCHANGED <<opened, spurious>>
        BY <1>4, <3>1 DEF WaitConnected
      <4>3. TypeOK
        OBVIOUS
      <4> HIDE DEF TypeOK, AwaitedSoFar, StartedMeansOpened
      <4> QED
        BY <4>1, <4>2, <4>3, ReturnAwaited
    <3>2. CASE ~connected[Channels[n]]
      BY <1>4, <3>2 DEF WaitConnected
    <3> QED
      BY <3>1, <3>2
  <2>4. ConnectedMeans'
    BY <1>4 DEF WaitConnected, Return
  <2> QED
    BY <2>1, <2>2, <2>3, <2>4
<1>5. CASE WokenUp
  <2>1. TypeOK' /\ BuiltSoFar' /\ IoAfterBuilding' /\ ConnectedMeans'
    BY <1>5 DEF WokenUp, Return
  <2>2. AwaitedSoFar' /\ StartedMeansOpened'
    <3>1. TypeOK /\ Return /\ UNCHANGED <<opened, spurious>>
      BY <1>5 DEF WokenUp
    <3>2. \A i \in 1..n : Channels[i] \in opened \cup spurious
      BY <1>5 DEF WokenUp
    <3> HIDE DEF TypeOK, AwaitedSoFar, StartedMeansOpened
    <3> QED
      BY <3>1, <3>2, ReturnAwaited
  <2> QED
    BY <2>1, <2>2
<1>6. CASE SpuriousWakeup
  BY <1>6 DEF SpuriousWakeup
<1> QED
  BY <1>1, <1>2, <1>3, <1>4, <1>5, <1>6 DEF MainStep

LEMMA RunStart == StartInv /\ (\E c \in Names : RunStep(c)) => StartInv'
<1> SUFFICES ASSUME StartInv, NEW c \in Names, RunStep(c)
             PROVE  StartInv'
  OBVIOUS
<1> USE NamesOfChannels, MaxDropsNat
    DEF StartInv, TypeOK, MainStates, Phases, BuiltSoFar, Building, IoAfterBuilding, AwaitedSoFar,
        ConnectedMeans, StartedMeansOpened, Enter
<1>1. CASE StartSession(c)
  BY <1>1 DEF StartSession
<1>2. CASE SessionFailed(c)
  <2>1. TypeOK'
    <3>1. drops' \in [Names -> 0..MaxDrops]
      <4>1. drops[c] \in 0..MaxDrops
        OBVIOUS
      <4>2. drops[c] < MaxDrops => drops[c] + 1 \in 0..MaxDrops
        BY <4>1
      <4> QED
        BY <1>2, <4>2 DEF SessionFailed, Dropped
    <3>2. phase' \in [Names -> Phases]
      BY <1>2 DEF SessionFailed, Dropped
    <3> QED
      BY <1>2, <3>1, <3>2 DEF SessionFailed
  <2>2. BuiltSoFar' /\ IoAfterBuilding'
    BY <1>2 DEF SessionFailed, Dropped
  <2>3. AwaitedSoFar' /\ StartedMeansOpened'
    BY <1>2 DEF SessionFailed, Dropped
  <2>4. ConnectedMeans'
    BY <1>2 DEF SessionFailed, Dropped
  <2> QED
    BY <2>1, <2>2, <2>3, <2>4
<1>3. CASE Established(c)
  BY <1>3 DEF Established
<1>4. CASE Ready(c)
  BY <1>4 DEF Ready
<1>5. CASE Lost(c)
  BY <1>5 DEF Lost, Dropped
<1> QED
  BY <1>1, <1>2, <1>3, <1>4, <1>5 DEF RunStep

THEOREM StartInvHolds == Spec => []StartInv
<1>1. StartInv /\ UNCHANGED vars => StartInv'
  BY DEF StartInv, TypeOK, BuiltSoFar, Building, IoAfterBuilding, AwaitedSoFar, ConnectedMeans,
         StartedMeansOpened, vars
<1>2. StartInv /\ [Next]_vars => StartInv'
  BY <1>1, MainStart, RunStart DEF Next
<1> QED
  BY <1>2, InitStart, PTL DEF Spec

\* The variables of the program start keep their types, for any list of channels.
THEOREM TypeCorrect == Spec => []TypeOK
<1>1. StartInv => TypeOK
  BY DEF StartInv
<1> QED
  BY <1>1, StartInvHolds, PTL

\* NoCallBeforeBuilt: onConnected is never called on an object under construction,
\* however the construction and the run threads interleave.
THEOREM VirtualCallsAreSafe == Spec => []NoCallBeforeBuilt
<1>1. StartInv => NoCallBeforeBuilt
  BY DEF StartInv, IoAfterBuilding, BuiltSoFar, NoCallBeforeBuilt
<1> QED
  BY <1>1, StartInvHolds, PTL

\* StartedMeansOpened: start() has waited for every channel.
THEOREM StartWaitsForAll == Spec => []StartedMeansOpened
<1>1. StartInv => StartedMeansOpened
  BY DEF StartInv
<1> QED
  BY <1>1, StartInvHolds, PTL

\* NoMissedConnection: the main thread does not sleep on a channel that is up.
THEOREM NoConnectionMissed == Spec => []NoMissedConnection
<1>1. StartInv => NoMissedConnection
  BY NamesOfChannels DEF StartInv, TypeOK, ConnectedMeans, NoMissedConnection
<1> QED
  BY <1>1, StartInvHolds, PTL
=============================================================================
