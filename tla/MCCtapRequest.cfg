SPECIFICATION Spec
CONSTANTS
    Heads <- MCHeads
    Top <- MCTop
    IntMax = 65536
    MaxItems = 32
    MaxBytes = 2048
    MaxDepth = 1
    MaxList = 1
    MaxSeen = 32
    HashLen = 32
    TopPairs = 5
    NestedItems = 4
INVARIANTS
    InStep
    VerdictRight
    KeysOnce
    HeadsCanonical
