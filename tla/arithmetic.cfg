SPECIFICATION ArithmeticSpec
CONSTANTS
    WordBits = 8
    MixParameters <- MCMixParameters
INVARIANTS
    WrapsAsIntegers
    ShiftsMoveBits
    SignedOrderIsFlippedUnsigned
    MixingIsInjective
