SPECIFICATION StoreSpec
CONSTANTS
    WordBits = 6
    MixParameters <- MCMixParameters
    Word <- Words
    kHaltContinuation = 7
    Xor <- WordXor
    Mix64 <- mix64
    ContinuationKey = 11
    LaneTag = 19
    ProofTag = 42
    WordBytes = 1
    Add <- WordAdd
    Sub <- WordSub
    Mul <- WordMul
    MixWord <- mix_word
    Seed = 45
    Tag <- MCTag
    Bits <- OneBits
    CarrierLimits = {2, 34, 35, 37, 38, 40}
    Origins = {1, 2}
    Written = {0, 37}
    Blinds <- MCBlinds
    Foreign <- MCForeign
INVARIANTS
    ReadsBack
    CarriersHandedOutOnce
    AcceptedLayoutsHold
