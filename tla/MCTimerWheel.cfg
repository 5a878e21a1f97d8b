SPECIFICATION Spec
CONSTANTS
    Nodes = {n1, n2}
    Reused = {n2}
    Careless = FALSE
    Levels = 3
    Size0 = 2
    SizeN = 4
    NoNode = NoNode
    Durations = {1, 24}
    MaxRemoves = 1
INVARIANTS
    OnTime
    DestroyedIsUnused
PROPERTIES
    CancelHolds
    Taken
\* A wheel that is destroyed stays so.
CHECK_DEADLOCK FALSE
