---------------------------- MODULE WordArithmetic ----------------------------
(***************************************************************************)
(* The machine word and the arithmetic of the primitive nodes (the handlers*)
(* of TargetLocalFusedExecutor in runtime.cpp), of mix_word (physical.cpp) *)
(* and of mix64 (profile.cpp), for a word of WordBits bits.  A word is a   *)
(* natural number; every operation wraps as the C++ one does.  The shift   *)
(* distances and the odd multipliers of the two mixing functions are scaled*)
(* with the word and given as one record.                                  *)
(***************************************************************************)
EXTENDS Integers, Sequences

CONSTANTS WordBits, MixParameters

ASSUME WordBitsAssumption == WordBits \in 2 .. 20

Modulus == 2 ^ WordBits
Words == 0 .. (Modulus - 1)
SignBit == 2 ^ (WordBits - 1)

\* The word a bit operation makes of two others, from the lowest bit up.
BitByBit(op(_, _), a, b) ==
    LET low[x \in Words, y \in Words, n \in 0 .. WordBits] ==
            IF n = 0 THEN 0
            ELSE op(x % 2, y % 2) + 2 * low[x \div 2, y \div 2, n - 1]
    IN  low[a, b, WordBits]

WordXor(a, b) == BitByBit(LAMBDA x, y : (x + y) % 2, a, b)
WordAnd(a, b) == BitByBit(LAMBDA x, y : x * y, a, b)
WordNot(a) == Modulus - 1 - a
WordOr(a, b) == WordNot(WordAnd(WordNot(a), WordNot(b)))

WordAdd(a, b) == (a + b) % Modulus
WordSub(a, b) == (a - b) % Modulus
WordNeg(a) == WordSub(0, a)

\* Mutant: the right operand's upper half is lost.
WordMulTruncated(a, b) == (a * (b % 2 ^ (WordBits \div 2))) % Modulus

\* The product modulo 2^WordBits, by halves so that no intermediate value
\* leaves the integers TLC computes with.  The function has TLC compute both
\* factors first.
WordMul(a, b) ==
    LET half == 2 ^ (WordBits \div 2)
        rest == Modulus \div half
        product[x \in Words, y \in Words] ==
            (x * (y % half) + ((x * (y \div half)) % rest) * half) % Modulus
    IN  product[a, b]

\* Every shift takes its distance modulo the width: the & 63U of the handlers.
Distance(word) == word % WordBits

WordShl(a, amount) == WordMul(a, 2 ^ Distance(amount))
WordShr(a, amount) == a \div 2 ^ Distance(amount)

\* Mutant: a zero distance fills in the sign as well.
WordSarFilling(a, amount) ==
    LET shifted == a \div 2 ^ Distance(amount)
        fill == WordShl(WordNot(0), WordBits - Distance(amount))
    IN  IF a >= SignBit THEN WordOr(shifted, fill) ELSE shifted

\* A zero distance is answered before the sign is filled in: the fill would
\* shift by the whole width, which is undefined (the hardware takes that
\* distance modulo the width, so the fill would be all ones).
WordSar(a, amount) ==
    LET distance == Distance(amount)
        shifted == a \div 2 ^ distance
        fill == WordShl(WordNot(0), WordBits - distance)
    IN  IF distance = 0 THEN a
        ELSE IF a >= SignBit THEN WordOr(shifted, fill) ELSE shifted

WordRol(a, amount) ==
    LET distance == Distance(amount)
    IN  WordAdd(WordMul(a, 2 ^ distance), a \div 2 ^ (WordBits - distance))

WordRor(a, amount) == WordRol(a, WordBits - Distance(amount))

\* Mutant: the most negative word counts as positive.
SignedExceptLeast(a) == IF a > SignBit THEN a - Modulus ELSE a

\* std::bit_cast<std::int64_t>
Signed(a) == IF a >= SignBit THEN a - Modulus ELSE a

\* The six CompareConditions, in the order of the enumeration.
Holds(condition, a, b) ==
    CASE condition = 0 -> a = b
      [] condition = 1 -> a # b
      [] condition = 2 -> a < b
      [] condition = 3 -> a <= b
      [] condition = 4 -> Signed(a) < Signed(b)
      [] condition = 5 -> Signed(a) <= Signed(b)

\* Mutant: the shifted word replaces the word.
ShiftOnly(a, distance) == a \div 2 ^ distance

XorShift(a, distance) ==
    LET shifted[x \in Words] == WordXor(x, x \div 2 ^ distance) IN shifted[a]

\* The two multiply rounds that mix_word and mix64 end with.
Finalise(a) ==
    LET once == WordMul(XorShift(a, MixParameters.shifts[1]), MixParameters.factors[1])
        twice == WordMul(XorShift(once, MixParameters.shifts[2]), MixParameters.factors[2])
    IN  XorShift(twice, MixParameters.shifts[3])

mix64(a) == Finalise(WordAdd(a, MixParameters.gamma))

mix_word(left, right, salt) ==
    LET value == WordAdd(WordAdd(left, MixParameters.gamma), salt)
        stirred == WordAdd(WordAdd(WordAdd(right, MixParameters.delta),
                                   WordShl(value, MixParameters.up)),
                           WordShr(value, MixParameters.down))
    IN  Finalise(WordXor(value, stirred))

\* The result of a node that only computes on other nodes' values.
Arithmetic(kind, immediate, values) ==
    CASE kind = "Add" -> WordAdd(values[1], values[2])
      [] kind = "Sub" -> WordSub(values[1], values[2])
      [] kind = "Mul" -> WordMul(values[1], values[2])
      [] kind = "Xor" -> WordXor(values[1], values[2])
      [] kind = "And" -> WordAnd(values[1], values[2])
      [] kind = "Or"  -> WordOr(values[1], values[2])
      [] kind = "Not" -> WordNot(values[1])
      [] kind = "Neg" -> WordNeg(values[1])
      [] kind = "Shl" -> WordShl(values[1], values[2])
      [] kind = "Shr" -> WordShr(values[1], values[2])
      [] kind = "Sar" -> WordSar(values[1], values[2])
      [] kind = "Rol" -> WordRol(values[1], values[2])
      [] kind = "Ror" -> WordRor(values[1], values[2])
      [] kind = "Compare" -> IF Holds(immediate, values[1], values[2]) THEN 1 ELSE 0
      [] kind = "Mix" -> mix_word(values[1], values[2], immediate)
=============================================================================
