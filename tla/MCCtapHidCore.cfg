SPECIFICATION Spec
CONSTANTS
    Cid = {c1, c2, c3}
    NullCid = NullCid
    Broadcast = Broadcast
    ChannelCount = 2
    MaxPayload = 4
    InitData = 1
    ContData = 2
    NonceLen = 2
    MaxLen = 5
    MaxSeq = 1
    GenMod = 2
    TimeMod = 3
    MessageTimeout = 2
    QueueFullMax = 1
VIEW CoreView
SYMMETRY CidSymmetry
INVARIANTS
    TypeOK
    UniqueCids
    TransactionOwned
    FlagsInScope
    BuffersExact
    TimeoutExact
PROPERTIES
    NonInterference
