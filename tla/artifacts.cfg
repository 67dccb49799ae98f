SPECIFICATION ArtifactsSpec
CONSTANTS
    WordBytes = 8
    ModuleLimits <- MCModuleLimits
    FingerprintOf <- MCFingerprintOf
    CompiledModule <- ModuleFor
    b1 = b1
    b2 = b2
    Builders = {b1, b2}
    SeedOf <- MCSeedOf
    OldSeed <- MCOldSeed
    Cuts = {20, 66}
    None = None
INVARIANTS
    LoadedFilesAreWhole
    AcceptedPairIsOneBuild
    UndisturbedBuildIsAccepted
CHECK_DEADLOCK FALSE
