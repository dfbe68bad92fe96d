CONSTANTS
    CHANNELS = 2
    MAXMSG = 2
    Contents = {a, b}
    MaxFrames = 3
    MaxBatch = 1
    MaxChanges = 2
SPECIFICATION FairBridgeSpec
INVARIANTS BridgeTypeOK OnceInOrder CommandIsComplete
PROPERTY ChannelsRecover
