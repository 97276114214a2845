SPECIFICATION HidSpec
CONSTANTS
    Cid = {c1, c2}
    NullCid = NullCid
    Broadcast = Broadcast
    ChannelCount = 2
    MaxPayload = 2
    InitData = 1
    ContData = 1
    NonceLen = 1
    MaxLen = 2
    MaxSeq = 0
    GenMod = 2
    TimeMod = 2
    MessageTimeout = 1
    QueueFullMax = 0
    HostReport <- MCTwoHosts
    RxDepth = 1
    MaxUsbGen = 1
    ResponseReports = 1
    ResetCalls = FALSE
    Impatient = {"transport", "consumer"}
VIEW MCView
PROPERTIES
    OrphansOnlyBy
