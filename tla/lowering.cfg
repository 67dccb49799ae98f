SPECIFICATION LoweringSpec
CONSTANTS
    WordBits = 8
    MixParameters <- MCMixParameters
    Word <- Words
    kHaltContinuation = 15
    Xor <- WordXor
    Mix64 <- mix64
    ContinuationKey = 113
    LaneTag = 69
    ProofTag = 77
    WordBytes = 2
    Add <- WordAdd
    Sub <- WordSub
    Mul <- WordMul
    MixWord <- mix_word
    Seed = 45
    Tag <- MCTag
    MaxOrigin = 63
    MaxNodeId = 442
    MaxCarriers = 110
    Sources <- MCSources
INVARIANTS
    NothingThrows
    LoweredIsAcceptable
    OriginsUnique
    SidecarAccountsForWrites
CHECK_DEADLOCK FALSE
