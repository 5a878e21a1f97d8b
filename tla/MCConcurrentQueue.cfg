SPECIFICATION Spec
CONSTANTS
    Values = {v1, v2}
    Producers = {p1, p2}
    Consumers = {c1, c2}
    NoValue = NoValue
    Failed = Failed
    MaxLen = 2
INVARIANTS
    NoLostWakeup
    StoppedMeansDrained
PROPERTIES
    ValueWakesWaiter
    AbortEndsWait
    ImplementsFifo
