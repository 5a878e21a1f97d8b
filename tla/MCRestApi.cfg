SPECIFICATION Spec
CONSTANTS
    MaxCalls = 2
    MaxTime = 5
    PageSize = 2
INVARIANTS
    SleepsOnlyIfLate
    TrueMeansDone
    PagesComplete
PROPERTY
    CallsReturn
