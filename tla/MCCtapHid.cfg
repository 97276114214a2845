SPECIFICATION HidSpec
CONSTANTS
    Cid = {c1}
    NullCid = NullCid
    Broadcast = Broadcast
    ChannelCount = 1
    MaxPayload = 1
    InitData = 1
    ContData = 1
    NonceLen = 1
    MaxLen = 1
    MaxSeq = 0
    GenMod = 2
    TimeMod = 2
    MessageTimeout = 1
    QueueFullMax = 0
    HostReport <- MCHostReport
    RxDepth = 1
    MaxUsbGen = 2
    ResponseReports = 2
    ResetCalls = TRUE
    Impatient = {"transport", "consumer", "resetter"}
VIEW MCView
INVARIANTS
    ClaimCurrent
    MessageOfConnection
    NoLostWake
PROPERTIES
    OrphansOnlyBy
    NoInterleaving
    ImplementsService
