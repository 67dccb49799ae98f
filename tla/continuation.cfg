SPECIFICATION TransferSpec
CONSTANTS
    WordBits = 8
    MixParameters <- MCMixParameters
    Word <- Words
    kHaltContinuation = 15
    Xor <- WordXor
    Mix64 <- mix64
    ContinuationKey = 113
    LaneTag = 69
    ProofTag = 77
    WordBytes = 1
    Blinds <- MCBlinds
    Bits <- OneBits
INVARIANTS
    TransferOpens
    PartialTransferRefused
CHECK_DEADLOCK FALSE
