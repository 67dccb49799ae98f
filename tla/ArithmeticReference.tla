-------------------------- MODULE ArithmeticReference --------------------------
(***************************************************************************)
(* The primitive arithmetic against independent definitions: positional    *)
(* bits for the shifts and rotations, integer arithmetic for the products, *)
(* floor division for the arithmetic shift, the two's-complement order for *)
(* the comparisons.  The state is a pair of operands that a walk takes     *)
(* through every pair of words, as a node may be given any two.            *)
(***************************************************************************)
EXTENDS WordArithmetic

VARIABLES left, right

operands == <<left, right>>

ArithmeticInit == left = 0 /\ right = 0

StepRight == right' = (right + 1) % Modulus /\ UNCHANGED left
StepLeft == right = 0 /\ left' = (left + 1) % Modulus /\ UNCHANGED right

ArithmeticNext == StepRight \/ StepLeft

ArithmeticSpec == ArithmeticInit /\ [][ArithmeticNext]_operands

-----------------------------------------------------------------------------
Result(kind) == Arithmetic(kind, 0, <<left, right>>)
Bit(word, i) == (word \div 2 ^ i) % 2
BitsAre(word, bit(_)) == \A i \in 0 .. (WordBits - 1) : Bit(word, i) = bit(i)
d == Distance(right)

\* The wrapping arithmetic agrees with the integers modulo 2^w, and the bitwise
\* nodes with their truth tables (handlers add to negate).
WrapsAsIntegers ==
    /\ Result("Add") = (left + right) % Modulus
    /\ Result("Mul") = (left * right) % Modulus
    /\ (Result("Sub") + right) % Modulus = left
    /\ (Result("Neg") + left) % Modulus = 0
    /\ BitsAre(Result("Xor"), LAMBDA i : IF Bit(left, i) = Bit(right, i) THEN 0 ELSE 1)
    /\ BitsAre(Result("Or"), LAMBDA i : IF Bit(left, i) = 1 \/ Bit(right, i) = 1 THEN 1 ELSE 0)
    /\ BitsAre(Result("And"), LAMBDA i : IF Bit(left, i) = 1 /\ Bit(right, i) = 1 THEN 1 ELSE 0)

\* Shifts and rotations move each bit by the distance modulo the width, a zero
\* distance and the sign included, and a rotation undoes the opposite one
\* (handlers shl, shr, sar, rol, ror).
ShiftsMoveBits ==
    /\ BitsAre(Result("Shl"), LAMBDA i : IF i < d THEN 0 ELSE Bit(left, i - d))
    /\ BitsAre(Result("Shr"), LAMBDA i : IF i + d < WordBits THEN Bit(left, i + d) ELSE 0)
    /\ Result("Sar") = (Signed(left) \div 2 ^ d) % Modulus
    /\ BitsAre(Result("Rol"), LAMBDA i : Bit(left, (i - d) % WordBits))
    /\ WordRor(Result("Rol"), right) = left

\* Whatever the signs, the signed comparisons order words as two's-complement
\* integers: flipping the sign bit turns the signed order into the unsigned
\* one (handler compare).
SignedOrderIsFlippedUnsigned ==
    LET flip(word) == WordXor(word, SignBit)
        compare(condition, a, b) == Arithmetic("Compare", condition, <<a, b>>)
    IN  /\ compare(4, left, right) = compare(2, flip(left), flip(right))
        /\ compare(5, left, right) = compare(3, flip(left), flip(right))

\* Both mixing functions lose nothing: mix64 is injective, so distinct keys,
\* masks and proofs stay distinct, and mix_word is injective in its right
\* operand for a fixed left one (mix64 of profile.cpp, mix_word of physical.cpp).
MixingIsInjective ==
    left # right =>
        /\ mix64(left) # mix64(right)
        /\ mix_word(0, left, 1) # mix_word(0, right, 1)
        /\ mix_word(SignBit, left, 0) # mix_word(SignBit, right, 0)
=============================================================================
