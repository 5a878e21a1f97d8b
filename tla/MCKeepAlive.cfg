SPECIFICATION Spec
CONSTANTS
    Idle = 3
    PingEvery = 12
    Grace = 2
    MaxConnect = 14
    MaxPings = 2
INVARIANTS
    SilenceEnds
    DeafnessEnds
    LivePeerKept
PROPERTIES
    DeathNoticed
\* A session that was given up stays so.
CHECK_DEADLOCK FALSE
