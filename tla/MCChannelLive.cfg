SPECIFICATION Spec
CONSTANTS
    account = account
    positions = positions
    Orders = {o1}
    Batches = {}
    Subscriptions <- NoSubscription
    LoginRequired = TRUE
    Close = Close
    MaxFaults = 3
PROPERTIES
    OrderAnswered
    ReloginFollowed
