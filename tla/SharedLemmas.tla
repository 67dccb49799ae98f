----------------------------- MODULE SharedLemmas -----------------------------
(***************************************************************************)
(* What several of the proofs use.                                         *)
(*                                                                         *)
(* First the laws of the word operations that ContinuationCodec leaves     *)
(* open.  A word stands for the set of its one bits, exclusive or is the   *)
(* symmetric difference of those sets, an offset in the upper half shares  *)
(* no bit with one in the lower half, and the finaliser loses nothing.     *)
(* The model checker evaluates every law on the words of WordArithmetic.   *)
(* The proofs about continuations, physical values and the assembler use   *)
(* them; those about the machine and the lowering use none of them.        *)
(*                                                                         *)
(* Then induction over the numbers up to a bound, for the recursive        *)
(* functions of this project: cursors over a stream, sums of sizes, the    *)
(* bytes of a word.  The library's induction theorems take the induction   *)
(* formula as an operator; here it is the set of the numbers it holds for, *)
(* and its least counterexample is taken with WFMin.                       *)
(***************************************************************************)
EXTENDS ContinuationCodec, WellFoundedInduction, TLAPS

CONSTANT Bits(_)  \* the positions of a word's one bits

ASSUME OffsetsAreWords ==
    /\ kHaltContinuation \in Nat
    /\ Offset \subseteq Word
    /\ \A o \in Offset : HighHalf(o) \in Word

ASSUME TagsAreWords == {ContinuationKey, LaneTag, ProofTag} \subseteq Word

ASSUME BitsIdentify == \A a, b \in Word : Bits(a) = Bits(b) => a = b

ASSUME XorIsBitwise ==
    \A a, b \in Word :
        /\ Xor(a, b) \in Word
        /\ Bits(Xor(a, b)) = (Bits(a) \ Bits(b)) \cup (Bits(b) \ Bits(a))

ASSUME HalvesAreDisjoint ==
    \A o, p \in Offset : Bits(HighHalf(o)) \cap Bits(p) = {}

ASSUME MixLosesNothing ==
    /\ \A a \in Word : Mix64(a) \in Word
    /\ \A a, b \in Word : Mix64(a) = Mix64(b) => a = b

-----------------------------------------------------------------------------
(***************************************************************************)
(* Exclusive or on words, for the proofs about continuations and about     *)
(* physical values.                                                        *)
(***************************************************************************)

\* Applying a mask twice gives the word back (how open undoes seal, and how
\* the shares of split_value join).
LEMMA XorCancels ==
    ASSUME NEW a \in Word, NEW b \in Word
    PROVE  Xor(Xor(a, b), b) = a
<1> DEFINE x == Xor(a, b)
<1>1. x \in Word /\ Xor(x, b) \in Word
  BY XorIsBitwise
<1>2. Bits(x) = (Bits(a) \ Bits(b)) \cup (Bits(b) \ Bits(a))
  BY XorIsBitwise
<1>3. Bits(Xor(x, b)) = (Bits(x) \ Bits(b)) \cup (Bits(b) \ Bits(x))
  BY <1>1, XorIsBitwise
<1>4. Bits(Xor(x, b)) = Bits(a)
  BY <1>2, <1>3
<1> QED
  BY <1>1, <1>4, BitsIdentify

LEMMA XorCommutes ==
    ASSUME NEW a \in Word, NEW b \in Word
    PROVE  Xor(a, b) = Xor(b, a)
<1>1. Xor(a, b) \in Word /\ Xor(b, a) \in Word
  BY XorIsBitwise
<1>2. Bits(Xor(a, b)) = (Bits(a) \ Bits(b)) \cup (Bits(b) \ Bits(a))
  BY XorIsBitwise
<1>3. Bits(Xor(b, a)) = (Bits(b) \ Bits(a)) \cup (Bits(a) \ Bits(b))
  BY XorIsBitwise
<1>4. Bits(Xor(a, b)) = Bits(Xor(b, a))
  BY <1>2, <1>3
<1> QED
  BY <1>1, <1>4, BitsIdentify

LEMMA XorAssociates ==
    ASSUME NEW a \in Word, NEW b \in Word, NEW c \in Word
    PROVE  Xor(Xor(a, b), c) = Xor(a, Xor(b, c))
<1> DEFINE ab == Xor(a, b)
           bc == Xor(b, c)
<1>1. ab \in Word /\ bc \in Word /\ Xor(ab, c) \in Word /\ Xor(a, bc) \in Word
  BY XorIsBitwise
<1>2. /\ Bits(ab) = (Bits(a) \ Bits(b)) \cup (Bits(b) \ Bits(a))
      /\ Bits(bc) = (Bits(b) \ Bits(c)) \cup (Bits(c) \ Bits(b))
  BY XorIsBitwise
<1>3. /\ Bits(Xor(ab, c)) = (Bits(ab) \ Bits(c)) \cup (Bits(c) \ Bits(ab))
      /\ Bits(Xor(a, bc)) = (Bits(a) \ Bits(bc)) \cup (Bits(bc) \ Bits(a))
  BY <1>1, XorIsBitwise
<1>4. Bits(Xor(ab, c)) = Bits(Xor(a, bc))
  BY <1>2, <1>3
<1> QED
  BY <1>1, <1>4, BitsIdentify

\* A mask can be dropped from both sides of an equation.
LEMMA XorIsInjective ==
    ASSUME NEW a \in Word, NEW b \in Word, NEW c \in Word
    PROVE  /\ Xor(a, c) = Xor(b, c) => a = b
           /\ Xor(c, a) = Xor(c, b) => a = b
BY XorCancels, XorCommutes

-----------------------------------------------------------------------------
(***************************************************************************)
(* The codec: what seal makes is words, and open takes it apart again.     *)
(***************************************************************************)

LEMMA SealTyped ==
    ASSUME NEW o \in Offset
    PROVE  /\ o \in Word /\ LaneMask \in Word
           /\ Seal(o).lane = Xor(o, LaneMask)
           /\ Seal(o).lane \in Word /\ Seal(o).proof \in Word
<1>1. o \in Word /\ HighHalf(o) \in Word
  BY OffsetsAreWords
<1>2. ContinuationKey \in Word /\ LaneTag \in Word /\ ProofTag \in Word
  BY TagsAreWords
<1>3. LaneMask \in Word
  BY <1>2, XorIsBitwise, MixLosesNothing DEF LaneMask
<1>4. Xor(o, LaneMask) \in Word
  BY <1>1, <1>3, XorIsBitwise
<1>5. Xor(Xor(Xor(ContinuationKey, HighHalf(o)), Xor(o, LaneMask)), ProofTag) \in Word
  BY <1>1, <1>2, <1>4, XorIsBitwise
<1>6. Proof(o, Xor(o, LaneMask)) \in Word
  BY <1>5, MixLosesNothing DEF Proof
<1> QED
  BY <1>1, <1>3, <1>4, <1>6 DEF Seal

\* What seal makes of an offset, open takes apart again.
LEMMA SealOpens ==
    ASSUME NEW o \in Offset
    PROVE  Open(Seal(o)) = o
<1>1. Xor(Seal(o).lane, LaneMask) = o
  BY SealTyped, XorCancels
<1> QED
  BY <1>1 DEF Open

-----------------------------------------------------------------------------
(***************************************************************************)
(* Induction up to a bound.                                                *)
(***************************************************************************)

\* A set of numbers that is not empty has a least one.
LEMMA LeastExists ==
    ASSUME NEW S \in SUBSET Nat, S # {}
    PROVE  \E m \in S : \A n \in S : m <= n
<1> DEFINE R == OpToRel(<, Nat)
<1>1. \A pair \in Nat \X Nat : pair[1] < pair[2] => pair \in R
  BY Zenon DEF OpToRel
<1>2. PICK x \in S : \A y \in S : ~ (<<y, x>> \in R)
  BY WFMin, NatLessThanWellFounded, Zenon
<1> HIDE DEF R
<1>3. \A y \in S : <<y, x>> \in Nat \X Nat /\ (<<y, x>>)[1] = y /\ (<<y, x>>)[2] = x
  OBVIOUS
<1>4. \A y \in S : ~ (y < x)
  BY <1>1, <1>2, <1>3, Zenon
<1> QED
  BY <1>4

\* A property of numbers up to a bound, by its least counterexample.
LEMMA UpTo ==
    ASSUME NEW bound \in Nat, NEW Holding \in SUBSET (0 .. bound),
           0 \in Holding,
           \A k \in 1 .. bound : k - 1 \in Holding => k \in Holding
    PROVE  Holding = 0 .. bound
<1> DEFINE Failing == (0 .. bound) \ Holding
<1>1. Failing \in SUBSET Nat
  OBVIOUS
<1>2. ASSUME Failing # {} PROVE FALSE
  <2> HIDE DEF Failing
  <2>1. PICK k \in Failing : \A n \in Failing : k <= n
    BY <1>1, <1>2, LeastExists
  <2> USE DEF Failing
  <2>2. k \in 1 .. bound /\ k - 1 \in 0 .. bound
    BY <2>1
  <2>3. k - 1 \in Holding
    BY <2>1, <2>2
  <2> QED
    BY <2>1, <2>2, <2>3
<1> QED
  BY <1>2

\* A bounded set of numbers that is not empty has a greatest one.
LEMMA GreatestExists ==
    ASSUME NEW bound \in Nat, NEW S \in SUBSET (0 .. bound), S # {}
    PROVE  \E m \in S : \A n \in S : n <= m
<1> DEFINE Mirrored == {bound - n : n \in S}
<1>1. Mirrored \in SUBSET Nat /\ Mirrored # {}
  <2>1. \A n \in S : bound - n \in Nat
    OBVIOUS
  <2>2. PICK n \in S : TRUE
    OBVIOUS
  <2>3. bound - n \in Mirrored
    OBVIOUS
  <2> QED
    BY <2>1, <2>3
<1>2. PICK least \in Mirrored : \A n \in Mirrored : least <= n
  <2> HIDE DEF Mirrored
  <2> QED
    BY <1>1, LeastExists
<1>3. PICK m \in S : least = bound - m
  OBVIOUS
<1>4. ASSUME NEW n \in S PROVE n <= m
  <2>1. bound - m <= bound - n
    BY <1>2, <1>3
  <2> QED
    BY <2>1
<1> QED
  BY <1>4

(***************************************************************************)
(* Running totals.                                                         *)
(***************************************************************************)

\* end gives, for each number of items, where they end when the first starts
\* at base and each takes its size.
IsRunning(end, base, sizes, count) ==
    end = [n \in 0 .. count |-> IF n = 0 THEN base ELSE end[n - 1] + sizes[n]]

Running(base, sizes, count) == CHOOSE end : IsRunning(end, base, sizes, count)

LEMMA RunningExists ==
    ASSUME NEW base, NEW sizes, NEW count \in Nat
    PROVE  \E end : IsRunning(end, base, sizes, count)
<1> DEFINE Body(g, n) == IF n = 0 THEN base ELSE g[n - 1] + sizes[n]
           Solves(g, k) == g = [n \in 0 .. k |-> Body(g, n)]
           Solved == {k \in 0 .. count : \E g : Solves(g, k)}
<1>1. 0 \in Solved
  <2> DEFINE g == [n \in 0 .. 0 |-> base]
  <2>1. \A n \in 0 .. 0 : Body(g, n) = base
    OBVIOUS
  <2>2. Solves(g, 0)
    <3> HIDE DEF Body
    <3> QED
      BY <2>1
  <2> HIDE DEF g, Solves
  <2> QED
    BY <2>2
<1>2. ASSUME NEW k \in 1 .. count, k - 1 \in Solved PROVE k \in Solved
  <2>1. PICK g : Solves(g, k - 1)
    BY <1>2
  <2> DEFINE h == [n \in 0 .. k |-> Body(g, n)]
  <2>2. ASSUME NEW n \in 0 .. (k - 1) PROVE h[n] = g[n]
    <3> HIDE DEF Body
    <3> QED
      BY <2>1
  <2>3. ASSUME NEW n \in 0 .. k PROVE Body(h, n) = Body(g, n)
    <3> HIDE DEF h
    <3>1. n = 0 \/ h[n - 1] = g[n - 1]
      BY <2>2
    <3> QED
      BY <3>1
  <2>4. Solves(h, k)
    <3> HIDE DEF Body
    <3> QED
      BY <2>3
  <2> HIDE DEF h, Solves
  <2> QED
    BY <2>4
<1> HIDE DEF Solves
<1>3. Solved \in SUBSET (0 .. count)
  OBVIOUS
<1>4. count \in Solved
  <2> HIDE DEF Solved
  <2> QED
    BY <1>1, <1>2, <1>3, UpTo
<1>5. PICK g : Solves(g, count)
  BY <1>4
<1> QED
  BY <1>5 DEF IsRunning, Solves

LEMMA RunningSteps ==
    ASSUME NEW base \in Nat, NEW count \in Nat, NEW sizes,
           \A n \in 1 .. count : sizes[n] \in Nat,
           NEW end, end = Running(base, sizes, count)
    PROVE  /\ end[0] = base
           /\ \A n \in 1 .. count : end[n] = end[n - 1] + sizes[n]
           /\ \A n \in 0 .. count : end[n] \in Nat
<1>0. IsRunning(end, base, sizes, count)
  BY RunningExists DEF Running
<1> DEFINE Typed == {n \in 0 .. count : end[n] \in Nat}
<1>1. end[0] = base
  BY <1>0 DEF IsRunning
<1>2. ASSUME NEW n \in 1 .. count PROVE end[n] = end[n - 1] + sizes[n]
  <2>1. n \in 0 .. count /\ n # 0
    OBVIOUS
  <2> QED
    BY <1>0, <2>1, Zenon DEF IsRunning
<1>3. \A n \in 1 .. count : n - 1 \in Typed => n \in Typed
  BY <1>2
<1>4. 0 \in Typed /\ Typed \in SUBSET (0 .. count)
  BY <1>1
<1>5. Typed = 0 .. count
  <2> HIDE DEF Typed
  <2> QED
    BY <1>3, <1>4, UpTo
<1> QED
  BY <1>1, <1>2, <1>5

\* No item ends after the last one.
LEMMA RunningGrows ==
    ASSUME NEW base \in Nat, NEW count \in Nat, NEW sizes,
           \A n \in 1 .. count : sizes[n] \in Nat,
           NEW end, end = Running(base, sizes, count)
    PROVE  \A n \in 0 .. count : end[n] <= end[count]
<1> DEFINE Below == {k \in 0 .. count : end[count - k] <= end[count]}
<1>1. /\ \A n \in 1 .. count : end[n] = end[n - 1] + sizes[n]
      /\ \A n \in 0 .. count : end[n] \in Nat
  BY RunningSteps
<1>2. 0 \in Below /\ Below \in SUBSET (0 .. count)
  BY <1>1
<1>3. ASSUME NEW k \in 1 .. count, k - 1 \in Below PROVE k \in Below
  <2>1. count - k + 1 \in 1 .. count /\ count - (k - 1) = count - k + 1
    OBVIOUS
  <2>2. /\ end[count - k + 1] = end[count - k + 1 - 1] + sizes[count - k + 1]
        /\ sizes[count - k + 1] \in Nat /\ end[count - k + 1] \in Nat
        /\ end[count - k + 1] <= end[count]
    BY <1>1, <1>3, <2>1
  <2>3. count - k + 1 - 1 = count - k /\ count - k \in 0 .. count
    OBVIOUS
  <2>4. end[count - k] \in Nat /\ end[count] \in Nat
    BY <1>1, <2>3
  <2> QED
    BY <2>2, <2>3, <2>4
<1>4. Below = 0 .. count
  <2> HIDE DEF Below
  <2> QED
    BY <1>2, <1>3, UpTo
<1>5. ASSUME NEW n \in 0 .. count PROVE end[n] <= end[count]
  <2>1. count - n \in 0 .. count /\ count - (count - n) = n
    OBVIOUS
  <2>2. count - n \in Below
    <3> HIDE DEF Below
    <3> QED
      BY <1>4, <2>1
  <2>3. end[count - (count - n)] <= end[count]
    BY <2>2
  <2> QED
    BY <2>1, <2>3
<1> QED
  BY <1>5
==============================================================================
