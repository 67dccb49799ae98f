SPECIFICATION DamageSpec
CONSTANTS
    WordBytes = 8
    ModuleLimits <- MCModuleLimits
    FingerprintOf <- MCFingerprintOf
    SampleModules <- MCSampleModules
    SampleSeeds <- Seeds
    EditedOffsets = {0, 4, 6, 8, 12, 16, 20, 24, 28, 32, 40, 44, 50, 63, 65, 67, 70}
    CutLengths = {0, 24, 31, 40, 64, 66}
    MaxEdits = 2
INVARIANTS
    ParseIsStrict
    DamageIsRefused
CHECK_DEADLOCK FALSE
