SPECIFICATION Spec
CONSTANTS
    Nodes = {n1, n2}
    Reused = {n1}
    Careless = TRUE
    Levels = 3
    Size0 = 2
    SizeN = 4
    NoNode = NoNode
    Durations = {1, 24}
    MaxRemoves = 1
INVARIANT PushesUnlinked
CHECK_DEADLOCK FALSE
