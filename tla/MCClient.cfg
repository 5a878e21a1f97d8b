SPECIFICATION Spec
CONSTANTS
    public_channel = public_channel
    private_channel = private_channel
    Channels <- BothChannels
    MaxDrops = 2
INVARIANTS
    NoCallBeforeBuilt
    StartedMeansOpened
    NoMissedConnection
PROPERTIES
    StartReturns
\* All channels up, nothing fails any more: the model stops there.
CHECK_DEADLOCK FALSE
