------------------------------ MODULE KeepAlive ------------------------------
(***************************************************************************)
(* The keep-alive of Channel::run (okex/channel.cpp), of which module      *)
(* Channel only keeps that it passes or fails.  Time is discrete; the time *)
(* points of the code are kept as their ages:                              *)
(*    read_age  now - last_read        ping_age  now - last_ping_tp        *)
(*    pong_age  now - last_pong_tp                                         *)
(* The run thread comes round at least once per unit of time.              *)
(***************************************************************************)
EXTENDS Integers

CONSTANTS
    Idle,        \* 15 s: without a message for longer, the thread pings
    PingEvery,   \* 1 min: it pings at least that often
    Grace,       \* 10 s: by how much the last ping may be ahead of the last pong
    MaxConnect,  \* bound: time from the WSSession's construction to the loop, which
                 \* the code leaves open: the login waits for its reply without a limit
    MaxPings     \* bound: pings the exchange may still answer

ASSUME TimesNat == /\ Idle \in Nat /\ PingEvery \in Nat /\ Grace \in Nat /\ MaxConnect \in Nat
                   /\ MaxPings \in Nat \ {0}
                   /\ Grace < Idle /\ Idle < PingEvery

VARIABLES
    phase,       \* "connecting", "loop", "failed": the session is given up
    read_age, ping_age, pong_age,
    checked,     \* has the thread come round in this unit of time?
    pings,       \* pings the exchange may still answer
    peer,        \* "alive", "deaf": sends but answers no ping, "dead"
    quiet,       \* age of the last sign of life: message, pong or connection
    deaf,        \* age of the last pong, or of the connection if there was none
    late         \* has a pong been later than Idle, or the connection than Grace?

vars == <<phase, read_age, ping_age, pong_age, checked, pings, peer, quiet, deaf, late>>

\* last_pong_tp_ is initialised when the WSSession is constructed.
Init == /\ phase = "connecting"
        /\ read_age = 0 /\ ping_age = 0 /\ pong_age = 0
        /\ checked = FALSE /\ pings = 0
        /\ peer = "alive"
        /\ quiet = 0 /\ deaf = 0
        /\ late = FALSE

\* A unit of time goes by.
Tick ==
    /\ \/ phase = "connecting" /\ pong_age < MaxConnect /\ UNCHANGED <<read_age, ping_age, late>>
       \/ /\ phase = "loop" /\ checked
          /\ read_age' = read_age + 1
          /\ ping_age' = ping_age + 1
          /\ late' = IF pings > 0 /\ ping_age >= Idle THEN TRUE ELSE late
    /\ pong_age' = pong_age + 1
    /\ quiet' = quiet + 1 /\ deaf' = deaf + 1
    /\ checked' = FALSE
    /\ UNCHANGED <<phase, pings, peer>>

\* Connected, logged in, subscribed: last_read and last_ping_tp are set to now.
EnterLoop ==
    /\ phase = "connecting"
    /\ phase' = "loop"
    /\ read_age' = 0 /\ ping_age' = 0
    /\ quiet' = 0 /\ deaf' = 0
    /\ late' = IF pong_age > Grace THEN TRUE ELSE late
    /\ UNCHANGED <<pong_age, checked, pings, peer>>

-----------------------------------------------------------------------------
(* The exchange: it sends messages and answers pings, until it stops to.    *)

Message ==
    /\ phase = "loop" /\ peer # "dead"
    /\ read_age' = 0
    /\ quiet' = 0
    /\ UNCHANGED <<phase, ping_age, pong_age, checked, pings, peer, deaf, late>>

\* The control callback, on the I/O thread.
Pong ==
    /\ phase = "loop" /\ peer = "alive"
    /\ pings > 0
    /\ pings' = pings - 1
    /\ pong_age' = 0
    /\ quiet' = 0 /\ deaf' = 0
    /\ UNCHANGED <<phase, read_age, ping_age, checked, peer, late>>

Falter ==
    /\ \/ peer = "alive" /\ peer' \in {"deaf", "dead"}
       \/ peer = "deaf" /\ peer' = "dead"
    /\ UNCHANGED <<phase, read_age, ping_age, pong_age, checked, pings, quiet, deaf, late>>

-----------------------------------------------------------------------------
(* The check at the end of each round *)

Due == read_age > Idle \/ ping_age > PingEvery

\* Fault: the age of the last pong is taken, not its distance from the last ping.
PongMissingByAge == pong_age > Grace

PongMissing == pong_age - ping_age > Grace

NotDue ==
    /\ phase = "loop" /\ ~checked
    /\ ~Due
    /\ checked' = TRUE
    /\ UNCHANGED <<phase, read_age, ping_age, pong_age, pings, peer, quiet, deaf, late>>

MorePings == IF pings < MaxPings THEN pings + 1 ELSE pings

\* Fault: last_ping_tp is left as it was.
PingUntimed ==
    /\ phase = "loop" /\ ~checked
    /\ Due /\ ~PongMissing
    /\ read_age' = 0 /\ pings' = MorePings
    /\ checked' = TRUE
    /\ UNCHANGED <<phase, ping_age, pong_age, peer, quiet, deaf, late>>

\* Fault: the thread waits for the pong to the ping before.
PingAfterPong ==
    /\ phase = "loop" /\ ~checked
    /\ Due /\ ~PongMissing
    /\ pings = 0
    /\ read_age' = 0 /\ ping_age' = 0
    /\ pings' = MorePings
    /\ checked' = TRUE
    /\ UNCHANGED <<phase, pong_age, peer, quiet, deaf, late>>

Ping ==
    /\ phase = "loop" /\ ~checked
    /\ Due /\ ~PongMissing
    /\ read_age' = 0 /\ ping_age' = 0
    /\ pings' = MorePings
    /\ checked' = TRUE
    /\ UNCHANGED <<phase, pong_age, peer, quiet, deaf, late>>

\* "ping failed!"
PingFailed ==
    /\ phase = "loop" /\ ~checked
    /\ Due /\ PongMissing
    /\ phase' = "failed"
    /\ UNCHANGED <<read_age, ping_age, pong_age, checked, pings, peer, quiet, deaf, late>>

-----------------------------------------------------------------------------

Check == NotDue \/ Ping \/ PingFailed

Next == Tick \/ EnterLoop \/ Message \/ Pong \/ Falter \/ Check

\* Time passes and the run thread runs; the exchange owes nothing, not even the
\* reply to the login, so that the loop need not be reached.
Fairness == WF_vars(Tick) /\ WF_vars(Check)

Spec == Init /\ [][Next]_vars /\ Fairness

-----------------------------------------------------------------------------
(* Properties *)

\* Every variable has its type; the ages stay within what the check allows.
TypeOK ==
    /\ phase \in {"connecting", "loop", "failed"}
    /\ read_age \in 0..(Idle + 1)
    /\ ping_age \in 0..(PingEvery + 1)
    /\ pong_age \in Nat /\ quiet \in Nat /\ deaf \in Nat /\ pings \in 0..MaxPings
    /\ checked \in BOOLEAN /\ late \in BOOLEAN
    /\ peer \in {"alive", "deaf", "dead"}

\* A connection on which nothing at all arrives is given up within two periods of
\* silence and Grace: a check may still be content with a pong that came just
\* before the last ping but one.
SilenceEnds == phase = "loop" => quiet <= 2 * (Idle + 1) + Grace

\* One on which messages arrive and pongs do not, within two periods of PingEvery
\* and Grace from the last pong or from when the loop began, however long the
\* connection and the login had taken before.
DeafnessEnds == phase = "loop" => deaf <= 2 * (PingEvery + 1) + Grace

\* A connection that came up within Grace and whose pongs come within Idle is
\* never given up.
LivePeerKept == phase = "failed" => late

\* An exchange that is dead once the loop runs does not go unnoticed for ever.
DeathNoticed == phase = "loop" /\ peer = "dead" ~> phase = "failed"

\* "ping failed!" is said of a session on which a ping has been sent.
PingFailedMeansPinged == phase = "failed" => pings > 0
==============================================================================
