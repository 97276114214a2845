SPECIFICATION FairSpec
CONSTANTS
    Cid = {c1, c2}
    NullCid = NullCid
    Broadcast = Broadcast
    ChannelCount = 2
    MaxPayload = 2
    InitData = 1
    ContData = 1
    NonceLen = 2
    MaxLen = 2
    MaxSeq = 1
    GenMod = 2
    TimeMod = 2
    MessageTimeout = 1
    QueueFullMax = 0
PROPERTIES
    PartialEnds
