SPECIFICATION Spec
CONSTANTS
    Positions = {p1, p2}
    Currencies = {usdt}
    Sizes = {0, 1, 2}
    Absent = Absent
    MaxChanges = 3
    MaxFaults = 2
INVARIANTS
    OpenIsCurrent
    StaleOnlyIfUnseen
PROPERTIES
    Converges
\* No change and no failure left, everything parsed: the model stops there.
CHECK_DEADLOCK FALSE
