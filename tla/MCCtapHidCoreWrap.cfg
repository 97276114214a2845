SPECIFICATION Spec
CONSTANTS
    Cid = {c1}
    NullCid = NullCid
    Broadcast = Broadcast
    ChannelCount = 1
    MaxPayload = 1
    InitData = 1
    ContData = 1
    NonceLen = 2
    MaxLen = 2
    MaxSeq = 0
    GenMod = 3
    TimeMod = 2
    MessageTimeout = 1
    QueueFullMax = 0
INVARIANTS
    PingTokenNonZero
