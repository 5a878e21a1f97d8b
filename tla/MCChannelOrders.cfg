SPECIFICATION Spec
CONSTANTS
    account = account
    positions = positions
    Orders = {o1, b1}
    Batches = {b1}
    Subscriptions <- NoSubscription
    LoginRequired = TRUE
    Close = Close
    MaxFaults = 2
INVARIANTS
    RequestConserved
    AnsweredTruthfully
    OncePerSession
PROPERTIES
    ImplementsService
