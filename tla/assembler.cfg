SPECIFICATION AssemblerSpec
CONSTANTS
    WordBits = 20
    MixParameters <- MCMixParameters
    Word <- Words
    kHaltContinuation = 1023
    Xor <- WordXor
    Mix64 <- mix64
    ContinuationKey = 271828
    LaneTag = 355113
    ProofTag = 577215
    Modules <- NoModules
    PlanLimits <- MCPlanLimits
    ModuleLimits <- MCModuleLimits
    Fingerprint = 77
    WordBytes = 2
    Programs <- MCPrograms
INVARIANTS
    AssembledModulesVerify
    OffsetsAreBoundaries
    RelocationsLand
CHECK_DEADLOCK FALSE
