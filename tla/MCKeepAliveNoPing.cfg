SPECIFICATION Spec
CONSTANTS
    Idle = 3
    PingEvery = 12
    Grace = 2
    MaxConnect = 14
    MaxPings = 2
INVARIANT PingFailedMeansPinged
\* A session that was given up stays so.
CHECK_DEADLOCK FALSE
