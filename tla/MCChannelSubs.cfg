SPECIFICATION Spec
CONSTANTS
    account = account
    positions = positions
    Orders = {}
    Batches = {}
    Subscriptions <- TwoSubscriptions
    LoginRequired = TRUE
    Close = Close
    MaxFaults = 2
INVARIANTS
    NothingStaleInq
    RepliesInOrder
    SubscriptionsRestored
    NoReconnectStorm
