SPECIFICATION Spec
CONSTANTS
    WordBits = 20
    MixParameters <- MCMixParameters
    Word <- Words
    kHaltContinuation = 1023
    Xor <- WordXor
    Mix64 <- mix64
    ContinuationKey = 271828
    LaneTag = 355113
    ProofTag = 577215
    Modules <- MCModules
    PlanLimits <- MCPlanLimits
    ModuleLimits <- MCModuleLimits
    Fingerprint = 77
    WordBytes = 2
    ByteBase = 1024
    Compute <- Arithmetic
    Arguments <- MCArguments
    IslandBudgets = {0, 1, 3}
INVARIANTS
    TypeOK
    Invariant
    BoundariesTile
    BoundariesAccepted
    VerifierSound
    ReadOnlyAbiIntact
    BudgetExact
    TraceTellsTheRun
PROPERTIES
    ImplementsAtomicIslands
    VerificationEnds
    RunEnds
CHECK_DEADLOCK FALSE
