SPECIFICATION RepeatedSpec
CONSTANTS
    WordBits = 20
    MixParameters <- MCMixParameters
    Word <- Words
    kHaltContinuation = 1023
    Xor <- WordXor
    Mix64 <- mix64
    ContinuationKey = 271828
    LaneTag = 355113
    ProofTag = 577215
    Modules <- WellFormed
    PlanLimits <- MCPlanLimits
    ModuleLimits <- MCModuleLimits
    Fingerprint = 77
    WordBytes = 2
    ByteBase = 1024
    Compute <- Arithmetic
    Arguments <- MCArguments
    IslandBudgets = {0, 1, 3}
INVARIANTS
    RunsAreRepeatable
    BudgetOnlyTruncates
CHECK_DEADLOCK FALSE
