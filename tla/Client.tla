------------------------------- MODULE Client --------------------------------
(***************************************************************************)
(* Client::start (okex/client.cpp): the main thread builds the channels,   *)
(* starts the I/O thread and waits until every channel has connected       *)
(* (Channel::waitConnected).  The threads of a channel are started by the  *)
(* constructor of its base class, before the object is a Public- or        *)
(* PrivateChannel.  Of the run thread only the phases of a connection are  *)
(* kept; module Channel has the rest.                                      *)
(***************************************************************************)
EXTENDS Integers, Sequences, SequencesExt

CONSTANTS
    Channels,       \* the channels, in the order start() builds and awaits them
    MaxDrops        \* bound: failed attempts and lost connections, per channel

ASSUME ChannelsAreDistinct ==
    Channels \in Seq(Range(Channels)) /\ Channels # << >> /\ IsInjective(Channels)
ASSUME MaxDropsNat == MaxDrops \in Nat

Names == Range(Channels)

VARIABLES
    main,       \* where start() stands
    n,          \* index of the channel it builds or awaits
    built,      \* channels whose constructors, derived class included, are done
    io,         \* does the I/O thread run?
    phase,      \* per channel, the phase of its run thread
    connected,  \* connected_
    opened,     \* channels that have been connected at least once
    spurious,   \* channels whose wait a spurious wake-up ended
    drops       \* per channel, failed attempts and lost connections

vars == <<main, n, built, io, phase, connected, opened, spurious, drops>>

(***************************************************************************)
(* build    base constructor, which starts the threads                     *)
(* derive   the object becomes one of the derived class                    *)
(* startIo  every channel is built                                         *)
(* await    about to lock cond_mutex_ of channel n                         *)
(* asleep   in conn_condition_.wait        awake: the wait has ended       *)
(***************************************************************************)
MainStates == {"build", "derive", "startIo", "await", "asleep", "awake", "started"}

\* none: no thread yet; connecting: in waitUtilConnected or the login;
\* subscribing: in onConnected; up: connected_ has been set.
Phases == {"none", "connect", "connecting", "subscribing", "up"}

Init == /\ main = "build" /\ n = 1
        /\ built = {}
        /\ io = FALSE
        /\ phase = [c \in Names |-> "none"]
        /\ connected = [c \in Names |-> FALSE]
        /\ opened = {} /\ spurious = {}
        /\ drops = [c \in Names |-> 0]

Enter(c, p) == phase' = [phase EXCEPT ![c] = p]

-----------------------------------------------------------------------------
(* The main thread *)

\* Fault: the I/O thread is started before the channels are built.
BuildWithIo ==
    /\ main = "build"
    /\ main' = "derive"
    /\ Enter(Channels[n], "connect")
    /\ io' = TRUE
    /\ UNCHANGED <<n, built, connected, opened, spurious, drops>>

\* Channel::Channel: the run thread starts.
Build ==
    /\ main = "build"
    /\ main' = "derive"
    /\ Enter(Channels[n], "connect")
    /\ UNCHANGED <<n, built, io, connected, opened, spurious, drops>>

Derive ==
    /\ main = "derive"
    /\ built' = built \cup {Channels[n]}
    /\ IF n < Len(Channels) THEN main' = "build" /\ n' = n + 1
                            ELSE main' = "startIo" /\ n' = 1
    /\ UNCHANGED <<io, phase, connected, opened, spurious, drops>>

StartIo ==
    /\ main = "startIo"
    /\ io' = TRUE
    /\ main' = "await"
    /\ UNCHANGED <<n, built, phase, connected, opened, spurious, drops>>

\* Fault: only the first channel is awaited.
ReturnAtFirst == main' = "started" /\ UNCHANGED n

\* waitConnected has returned for channel n.
Return == IF n < Len(Channels) THEN main' = "await" /\ n' = n + 1
                               ELSE main' = "started" /\ UNCHANGED n

\* The critical section of waitConnected, up to the wait.
WaitConnected ==
    /\ main = "await"
    /\ IF connected[Channels[n]] THEN Return ELSE main' = "asleep" /\ UNCHANGED n
    /\ UNCHANGED <<built, io, phase, connected, opened, spurious, drops>>

\* The wait has no predicate: connected_ is not looked at again.
WokenUp ==
    /\ main = "awake"
    /\ Return
    /\ UNCHANGED <<built, io, phase, connected, opened, spurious, drops>>

SpuriousWakeup ==
    /\ main = "asleep"
    /\ main' = "awake"
    /\ spurious' = spurious \cup {Channels[n]}
    /\ UNCHANGED <<n, built, io, phase, connected, opened, drops>>

-----------------------------------------------------------------------------
(* The run thread of channel c *)

\* connected_ is reset, without the mutex, and the session started.
StartSession(c) ==
    /\ phase[c] = "connect"
    /\ connected' = [connected EXCEPT ![c] = FALSE]
    /\ Enter(c, "connecting")
    /\ UNCHANGED <<main, n, built, io, opened, spurious, drops>>

Dropped(c) ==
    /\ drops[c] < MaxDrops
    /\ drops' = [drops EXCEPT ![c] = @ + 1]
    /\ Enter(c, "connect")

\* The 10 s are over, or the connection or the login failed.  Without the I/O
\* thread nothing else can happen.
SessionFailed(c) ==
    /\ phase[c] = "connecting"
    /\ IF io THEN Dropped(c) ELSE Enter(c, "connect") /\ UNCHANGED drops
    /\ UNCHANGED <<main, n, built, io, connected, opened, spurious>>

\* The I/O thread has finished the handshake, and the login went well.
Established(c) ==
    /\ phase[c] = "connecting"
    /\ io
    /\ Enter(c, "subscribing")
    /\ UNCHANGED <<main, n, built, io, connected, opened, spurious, drops>>

\* Fault: nobody is told.
ReadySilently(c) ==
    /\ phase[c] = "subscribing"
    /\ connected' = [connected EXCEPT ![c] = TRUE]
    /\ opened' = opened \cup {c}
    /\ Enter(c, "up")
    /\ UNCHANGED <<main, n, built, io, spurious, drops>>

\* onConnected has returned: set connected_ and notify, under the mutex.
Ready(c) ==
    /\ phase[c] = "subscribing"
    /\ connected' = [connected EXCEPT ![c] = TRUE]
    /\ opened' = opened \cup {c}
    /\ Enter(c, "up")
    /\ main' = IF main = "asleep" /\ Channels[n] = c THEN "awake" ELSE main
    /\ UNCHANGED <<n, built, io, spurious, drops>>

\* Any exception of the loop; connected_ stays TRUE until the next attempt.
Lost(c) ==
    /\ phase[c] = "up"
    /\ Dropped(c)
    /\ UNCHANGED <<main, n, built, io, connected, opened, spurious>>

-----------------------------------------------------------------------------

MainStep == Build \/ Derive \/ StartIo \/ WaitConnected \/ WokenUp

RunStep(c) == StartSession(c) \/ Established(c) \/ Ready(c) \/ SessionFailed(c) \/ Lost(c)

Next == MainStep \/ SpuriousWakeup \/ \E c \in Names : RunStep(c)

\* The threads run, and a connection attempt that can succeed does in the end.
Fairness ==
    /\ WF_vars(MainStep)
    /\ \A c \in Names : /\ WF_vars(StartSession(c))
                        /\ SF_vars(Established(c))
                        /\ WF_vars(Ready(c))

Spec == Init /\ [][Next]_vars /\ Fairness

-----------------------------------------------------------------------------
(* Properties *)

\* Every variable has its type.
TypeOK ==
    /\ main \in MainStates
    /\ n \in 1..Len(Channels)
    /\ built \subseteq Names
    /\ io \in BOOLEAN
    /\ phase \in [Names -> Phases]
    /\ connected \in [Names -> BOOLEAN]
    /\ opened \subseteq Names
    /\ spurious \subseteq Names
    /\ drops \in [Names -> 0..MaxDrops]

\* The run thread calls onConnected, which is pure virtual in Channel, only on an
\* object whose construction is finished, although it runs during that
\* construction: no session connects before the I/O thread is started.
NoCallBeforeBuilt == \A c \in Names : phase[c] = "subscribing" => c \in built

\* When start() returns, every channel has been connected and has subscribed at
\* least once, unless a spurious wake-up ended the wait for it.
StartedMeansOpened == main = "started" => Names \subseteq opened \cup spurious

\* The main thread never sleeps beside a channel that is up: it would miss the
\* only notification of that connection.
NoMissedConnection == main = "asleep" => phase[Channels[n]] # "up"

\* start() returns, however the connections come and go before they last.
StartReturns == <>(main = "started")
==============================================================================
