---------------------------- MODULE PhysicalProofs ----------------------------
(***************************************************************************)
(* Proofs about physical values, for every word, seed, limit and sequence  *)
(* of calls that obey the laws of SharedLemmas and those of the wrapping   *)
(* arithmetic stated first, which the model checker evaluates: words are a *)
(* commutative ring, subtraction undoes addition, the square of an odd     *)
(* word is one more than a multiple of eight, and eight vanishes when it   *)
(* is squared six times, once for each turn of the loop in inverse_odd     *)
(* (2^192 is 0 in any word of up to 192 bits).                             *)
(***************************************************************************)
EXTENDS PhysicalStore, SharedLemmas

ASSUME RingConstants == 0 \in Word /\ 1 \in Word /\ 2 \in Word /\ 8 \in Word

ASSUME RingClosed ==
    \A a, b \in Word : Add(a, b) \in Word /\ Sub(a, b) \in Word /\ Mul(a, b) \in Word

ASSUME AdditionLaws ==
    /\ \A a, b, c \in Word : Add(Add(a, b), c) = Add(a, Add(b, c))
    /\ \A a, b \in Word : Add(a, b) = Add(b, a) /\ Add(Sub(a, b), b) = a
    /\ \A a \in Word : Add(a, 0) = a
    /\ Add(1, 1) = 2

ASSUME MultiplicationLaws ==
    /\ \A a, b, c \in Word : /\ Mul(Mul(a, b), c) = Mul(a, Mul(b, c))
                             /\ Mul(a, Add(b, c)) = Add(Mul(a, b), Mul(a, c))
    /\ \A a, b \in Word : Mul(a, b) = Mul(b, a)
    /\ \A a \in Word : Mul(a, 1) = a /\ Mul(a, 0) = 0

Square(word) == Mul(word, word)

ASSUME OddSquares ==
    \A a \in Word : a % 2 = 1 => \E q \in Word : Sub(1, Square(a)) = Mul(8, q)

ASSUME EightVanishes == Square(Square(Square(Square(Square(Square(8)))))) = 0

ASSUME WordsAreNaturals == \A a \in Word : a \in Nat /\ MadeOdd(a) \in Word

ASSUME SaltsAreWords ==
    \A origin \in Word, slot \in 0 .. 6 : OriginSalt(origin, slot) \in Word

(***************************************************************************)
(* Arithmetic.                                                             *)
(***************************************************************************)

\* What is added on the right can be dropped from both sides.
LEMMA AddIsInjective ==
    ASSUME NEW a \in Word, NEW b \in Word, NEW c \in Word, Add(a, c) = Add(b, c)
    PROVE  a = b
<1> DEFINE z == Sub(0, c)
<1>1. z \in Word /\ Add(c, z) = 0
  BY RingConstants, RingClosed, AdditionLaws
<1>2. /\ Add(Add(a, c), z) = Add(a, Add(c, z))
      /\ Add(Add(b, c), z) = Add(b, Add(c, z))
  BY <1>1, AdditionLaws
<1>3. Add(a, 0) = a /\ Add(b, 0) = b
  BY AdditionLaws
<1> QED
  BY <1>1, <1>2, <1>3

\* Subtraction undoes addition.
LEMMA SubUndoesAdd ==
    ASSUME NEW a \in Word, NEW b \in Word
    PROVE  Sub(Add(a, b), b) = a
<1>1. Add(a, b) \in Word
  BY RingClosed
<1>2. Sub(Add(a, b), b) \in Word /\ Add(Sub(Add(a, b), b), b) = Add(a, b)
  BY <1>1, RingClosed, AdditionLaws
<1> QED
  BY <1>2, AddIsInjective

\* A factor distributes over a difference.
LEMMA MulOverSub ==
    ASSUME NEW a \in Word, NEW b \in Word, NEW c \in Word
    PROVE  Mul(a, Sub(b, c)) = Sub(Mul(a, b), Mul(a, c))
<1> DEFINE difference == Sub(b, c)
<1>1. difference \in Word /\ Add(difference, c) = b
  BY RingClosed, AdditionLaws
<1>2. Mul(a, Add(difference, c)) = Add(Mul(a, difference), Mul(a, c))
  BY <1>1, MultiplicationLaws
<1>3. Mul(a, difference) \in Word /\ Mul(a, c) \in Word
  BY <1>1, RingClosed
<1>4. Sub(Add(Mul(a, difference), Mul(a, c)), Mul(a, c)) = Mul(a, difference)
  BY <1>3, SubUndoesAdd
<1> QED
  BY <1>1, <1>2, <1>4

\* The square of a product is the product of the squares.
LEMMA SquareOfProduct ==
    ASSUME NEW a \in Word, NEW b \in Word
    PROVE  /\ Square(Mul(a, b)) = Mul(Square(a), Square(b))
           /\ Square(a) \in Word
<1> DEFINE bb == Mul(b, b)
           ab == Mul(a, b)
           aab == Mul(a, ab)
<1>1. bb \in Word /\ ab \in Word /\ aab \in Word /\ Mul(a, a) \in Word
  BY RingClosed
<1>2. Mul(ab, ab) = Mul(Mul(ab, a), b)
  BY <1>1, MultiplicationLaws
<1>3. Mul(ab, a) = aab
  BY <1>1, MultiplicationLaws
<1>4. aab = Mul(Mul(a, a), b)
  BY <1>1, MultiplicationLaws
<1>5. Mul(Mul(Mul(a, a), b), b) = Mul(Mul(a, a), bb)
  BY <1>1, MultiplicationLaws
<1> QED
  BY <1>1, <1>2, <1>3, <1>4, <1>5 DEF Square

(***************************************************************************)
(* The inverse of an affine map.                                           *)
(***************************************************************************)

\* One turn of Newton's iteration squares the error.
LEMMA NewtonSquaresTheError ==
    ASSUME NEW w \in Word, NEW x \in Word
    PROVE  /\ NewtonStep(w, x) \in Word
           /\ Sub(1, Mul(w, NewtonStep(w, x))) = Square(Sub(1, Mul(w, x)))
<1> DEFINE p == Mul(w, x)
           e == Sub(1, p)
<1>1. p \in Word /\ Sub(2, p) \in Word /\ e \in Word /\ NewtonStep(w, x) \in Word
  BY RingConstants, RingClosed DEF NewtonStep
<1>2. Mul(w, NewtonStep(w, x)) = Mul(p, Sub(2, p))
  BY <1>1, MultiplicationLaws DEF NewtonStep
<1>3. Add(e, p) = 1
  BY <1>1, RingConstants, AdditionLaws
<1>4. Sub(2, p) = Add(e, 1)
  <2>1. Add(Add(e, 1), p) = Add(Add(e, p), 1)
    BY <1>1, RingConstants, AdditionLaws
  <2>2. Add(Add(e, 1), p) = 2
    BY <2>1, <1>3, AdditionLaws
  <2>3. Add(e, 1) \in Word
    BY <1>1, RingConstants, RingClosed
  <2> QED
    BY <2>2, <2>3, <1>1, SubUndoesAdd
<1>5. Mul(p, Add(e, 1)) = Add(Mul(p, e), p)
  BY <1>1, RingConstants, MultiplicationLaws
<1>6. Add(Mul(e, e), Mul(e, p)) = e
  <2>1. Mul(e, Add(e, p)) = Add(Mul(e, e), Mul(e, p))
    BY <1>1, MultiplicationLaws
  <2> QED
    BY <2>1, <1>1, <1>3, MultiplicationLaws
<1>7. Add(Mul(e, e), Add(Mul(p, e), p)) = 1
  <2>1. Mul(e, e) \in Word /\ Mul(p, e) \in Word /\ Mul(p, e) = Mul(e, p)
    BY <1>1, RingClosed, MultiplicationLaws
  <2>2. Add(Mul(e, e), Add(Mul(p, e), p)) = Add(Add(Mul(e, e), Mul(p, e)), p)
    BY <2>1, <1>1, AdditionLaws
  <2> QED
    BY <2>1, <2>2, <1>6, <1>3
<1>8. Mul(e, e) \in Word /\ Add(Mul(p, e), p) \in Word
  BY <1>1, RingClosed
<1>9. Sub(1, Add(Mul(p, e), p)) = Mul(e, e)
  BY <1>7, <1>8, SubUndoesAdd
<1> QED
  BY <1>1, <1>2, <1>4, <1>5, <1>9 DEF Square

\* Six squarings make nothing of the error that an odd word starts with.
LEMMA SixSquaresVanish ==
    ASSUME NEW q \in Word
    PROVE  Square(Square(Square(Square(Square(Square(Mul(8, q))))))) = 0
<1> DEFINE e1 == Square(8)
           e2 == Square(e1)
           e3 == Square(e2)
           e4 == Square(e3)
           e5 == Square(e4)
           q1 == Square(q)
           q2 == Square(q1)
           q3 == Square(q2)
           q4 == Square(q3)
           q5 == Square(q4)
<1>1. e1 \in Word /\ q1 \in Word /\ Square(Mul(8, q)) = Mul(e1, q1)
  BY RingConstants, SquareOfProduct
<1>2. e2 \in Word /\ q2 \in Word /\ Square(Mul(e1, q1)) = Mul(e2, q2)
  BY <1>1, SquareOfProduct
<1>3. e3 \in Word /\ q3 \in Word /\ Square(Mul(e2, q2)) = Mul(e3, q3)
  BY <1>2, SquareOfProduct
<1>4. e4 \in Word /\ q4 \in Word /\ Square(Mul(e3, q3)) = Mul(e4, q4)
  BY <1>3, SquareOfProduct
<1>5. e5 \in Word /\ q5 \in Word /\ Square(Mul(e4, q4)) = Mul(e5, q5)
  BY <1>4, SquareOfProduct
<1>6. Square(q5) \in Word /\ Square(Mul(e5, q5)) = Mul(Square(e5), Square(q5))
  BY <1>5, SquareOfProduct
<1>7. Square(e5) = 0
  BY EightVanishes
<1>8. Mul(0, Square(q5)) = 0
  BY <1>6, RingConstants, MultiplicationLaws
<1> QED
  BY <1>1, <1>2, <1>3, <1>4, <1>5, <1>6, <1>7, <1>8

\* inverse_odd finds the inverse of every odd word.
THEOREM InverseOddInverts ==
    ASSUME NEW w \in Word, w % 2 = 1
    PROVE  inverse_odd(w) \in Word /\ Mul(w, inverse_odd(w)) = 1
<1> DEFINE x1 == NewtonStep(w, w)
           x2 == NewtonStep(w, x1)
           x3 == NewtonStep(w, x2)
           x4 == NewtonStep(w, x3)
           x5 == NewtonStep(w, x4)
           x6 == NewtonStep(w, x5)
           error(x) == Sub(1, Mul(w, x))
<1>1. x1 \in Word /\ error(x1) = Square(error(w))
  BY NewtonSquaresTheError
<1>2. x2 \in Word /\ error(x2) = Square(error(x1))
  BY <1>1, NewtonSquaresTheError
<1>3. x3 \in Word /\ error(x3) = Square(error(x2))
  BY <1>2, NewtonSquaresTheError
<1>4. x4 \in Word /\ error(x4) = Square(error(x3))
  BY <1>3, NewtonSquaresTheError
<1>5. x5 \in Word /\ error(x5) = Square(error(x4))
  BY <1>4, NewtonSquaresTheError
<1>6. x6 \in Word /\ error(x6) = Square(error(x5))
  BY <1>5, NewtonSquaresTheError
<1>7. PICK q \in Word : error(w) = Mul(8, q)
  BY OddSquares DEF Square
<1>8. error(x6) = 0
  <2>1. error(x6) = Square(Square(Square(Square(Square(Square(error(w)))))))
    <3> HIDE DEF x1, x2, x3, x4, x5, x6, error
    <3> QED
      BY <1>1, <1>2, <1>3, <1>4, <1>5, <1>6
  <2> HIDE DEF x6, error
  <2> QED
    BY <2>1, <1>7, SixSquaresVanish
<1>9. Mul(w, x6) = 1
  <2> HIDE DEF x6
  <2>1. Mul(w, x6) \in Word
    BY <1>6, RingClosed
  <2>2. Add(0, Mul(w, x6)) = 1
    BY <2>1, <1>8, RingConstants, AdditionLaws
  <2> QED
    BY <2>1, <2>2, RingConstants, AdditionLaws
<1>10. inverse_odd(w) = x6
  <2> DEFINE next == [inverse \in Word |-> NewtonStep(w, inverse)]
  <2>1. inverse_odd(w) = next[next[next[next[next[next[w]]]]]]
    BY DEF inverse_odd
  <2>2. \A x \in Word : next[x] = NewtonStep(w, x)
    OBVIOUS
  <2> HIDE DEF next
  <2>3. next[w] = x1
    BY <2>2
  <2>4. next[x1] = x2
    BY <2>2, <1>1
  <2>5. next[x2] = x3
    BY <2>2, <1>2
  <2>6. next[x3] = x4
    BY <2>2, <1>3
  <2>7. next[x4] = x5
    BY <2>2, <1>4
  <2>8. next[x5] = x6
    BY <2>2, <1>5
  <2> QED
    BY <2>1, <2>3, <2>4, <2>5, <2>6, <2>7, <2>8
<1> QED
  BY <1>6, <1>9, <1>10

\* The maps that can be inverted.
OddMap == [multiplier : {m \in Word : m % 2 = 1}, addend : Word]

\* What a map stores, the inverse map reads.
LEMMA InverseUndoesApply ==
    ASSUME NEW multiplier \in Word, multiplier % 2 = 1, NEW addend \in Word,
           NEW map, map.multiplier = multiplier, map.addend = addend, NEW x \in Word
    PROVE  /\ Apply(map, x) \in Word
           /\ Apply(InverseMap(map), Apply(map, x)) = x
<1> DEFINE inverse == inverse_odd(multiplier)
           product == Mul(multiplier, x)
           shift == Mul(inverse, addend)
<1>1. inverse \in Word /\ Mul(multiplier, inverse) = 1
  BY InverseOddInverts
<1>2. product \in Word /\ Add(product, addend) \in Word
  BY RingClosed
<1> HIDE DEF inverse
<1>3. shift \in Word /\ Sub(0, shift) \in Word /\ Mul(inverse, product) \in Word
  BY <1>1, <1>2, RingConstants, RingClosed
<1>4. Mul(inverse, product) = x
  <2>1. Mul(inverse, product) = Mul(Mul(inverse, multiplier), x)
    BY <1>1, MultiplicationLaws
  <2>2. Mul(inverse, multiplier) = 1
    BY <1>1, MultiplicationLaws
  <2>3. Mul(1, x) = x
    BY RingConstants, MultiplicationLaws
  <2> QED
    BY <2>1, <2>2, <2>3
<1>5. Mul(inverse, Add(product, addend)) = Add(x, shift)
  BY <1>1, <1>2, <1>4, MultiplicationLaws
<1>6. Add(Add(x, shift), Sub(0, shift)) = x
  <2>1. Add(Add(x, shift), Sub(0, shift)) = Add(x, Add(shift, Sub(0, shift)))
    BY <1>3, AdditionLaws
  <2>2. Add(shift, Sub(0, shift)) = 0
    BY <1>3, RingConstants, AdditionLaws
  <2> QED
    BY <2>1, <2>2, AdditionLaws
<1>7. Apply(map, x) = Add(product, addend)
  BY DEF Apply
<1>8. Apply(InverseMap(map), Apply(map, x)) = Add(Mul(inverse, Add(product, addend)), Sub(0, shift))
  BY <1>7 DEF Apply, InverseMap, inverse
<1> QED
  BY <1>2, <1>5, <1>6, <1>7, <1>8

\* compose applies the inner map first.
LEMMA ComposeAppliesInnerFirst ==
    ASSUME NEW outer \in OddMap, NEW inner \in OddMap, NEW x \in Word
    PROVE  Apply(Compose(outer, inner), x) = Apply(outer, Apply(inner, x))
<1> DEFINE mo == outer.multiplier
           mi == inner.multiplier
           ao == outer.addend
           ai == inner.addend
           mx == Mul(mi, x)
           ma == Mul(mo, ai)
<1>1. mo \in Word /\ mi \in Word /\ ao \in Word /\ ai \in Word
  BY DEF OddMap
<1>2. mx \in Word /\ ma \in Word /\ Mul(mo, mx) \in Word
  BY <1>1, RingClosed
<1>3. Apply(outer, Apply(inner, x)) = Add(Mul(mo, Add(mx, ai)), ao)
  BY DEF Apply
<1>4. Apply(Compose(outer, inner), x) = Add(Mul(Mul(mo, mi), x), Add(ma, ao))
  BY DEF Apply, Compose
<1> HIDE DEF mo, mi, ao, ai
<1>5. Mul(Mul(mo, mi), x) = Mul(mo, mx)
  BY <1>1, MultiplicationLaws
<1>6. Mul(mo, Add(mx, ai)) = Add(Mul(mo, mx), ma)
  BY <1>1, <1>2, MultiplicationLaws
<1>7. Add(Add(Mul(mo, mx), ma), ao) = Add(Mul(mo, mx), Add(ma, ao))
  BY <1>1, <1>2, AdditionLaws
<1> QED
  BY <1>3, <1>4, <1>5, <1>6, <1>7

(***************************************************************************)
(* Shares.                                                                 *)
(***************************************************************************)

\* Splitting and joining are inverse, in both families.
LEMMA SharesJoin ==
    ASSUME NEW family, NEW word \in Word, NEW first \in Word, NEW second \in Word
    PROVE  /\ \A i \in 1 .. 3 : split_value(family, word, first, second)[i] \in Word
           /\ join_shares(family, split_value(family, word, first, second)[1],
                          split_value(family, word, first, second)[2],
                          split_value(family, word, first, second)[3]) = word
<1>1. CASE family = "Xor"
  <2> DEFINE w1 == Xor(word, first)
             w2 == Xor(w1, second)
             fs == Xor(first, second)
  <2>1. w1 \in Word /\ w2 \in Word /\ fs \in Word
    BY XorIsBitwise
  <2>2. w2 = Xor(word, fs)
    BY XorAssociates
  <2>3. Xor(fs, w2) = word
    <3>1. Xor(fs, w2) = Xor(Xor(word, fs), fs)
      BY <2>1, <2>2, XorCommutes
    <3> QED
      BY <3>1, <2>1, XorCancels
  <2> QED
    BY <1>1, <2>1, <2>3 DEF split_value, join_shares, JoinXor
<1>2. CASE family # "Xor"
  <2> DEFINE w1 == Sub(word, first)
             w2 == Sub(w1, second)
  <2>1. w1 \in Word /\ w2 \in Word
    BY RingClosed
  <2>2. Add(Add(first, second), w2) = Add(first, Add(w2, second))
    BY <2>1, AdditionLaws
  <2>3. Add(w2, second) = w1 /\ Add(w1, first) = word
    BY <2>1, AdditionLaws
  <2>4. Add(Add(first, second), w2) = word
    BY <2>1, <2>2, <2>3, AdditionLaws
  <2> QED
    BY <1>2, <2>1, <2>4 DEF split_value, join_shares
<1> QED
  BY <1>1, <1>2

\* What the layouts that are written through look like.
Typed(value) ==
    \A i \in 1 .. 3 : /\ value.shares[i].carrier \in Nat
                       /\ value.shares[i].storage.multiplier \in Word
                       /\ value.shares[i].storage.addend \in Word

\* A value whose layout is accepted reads back as the word written.
THEOREM ReadAfterWrite ==
    ASSUME NEW value, NEW count \in Nat, Typed(value), LayoutValid(value, count),
           NEW carriers_ \in [0 .. (count - 1) -> Word],
           NEW word \in Word, NEW first \in Word, NEW second \in Word
    PROVE  /\ write_physical_value(value, word, first, second, carriers_)
                  \in [0 .. (count - 1) -> Word]
           /\ read_physical_value(value,
                  write_physical_value(value, word, first, second, carriers_)) = word
<1> DEFINE split == split_value(value.family, word, first, second)
           written == write_physical_value(value, word, first, second, carriers_)
           at(i) == value.shares[i].carrier
<1>1. \A i \in 1 .. 3 : split[i] \in Word
  BY SharesJoin
<1>2. \A i \in 1 .. 3 : Apply(value.shares[i].storage, split[i]) \in Word
  BY <1>1, InverseUndoesApply DEF Typed, LayoutValid
<1>3. \A i, j \in 1 .. 3 : at(i) = at(j) => i = j
  <2>1. ASSUME NEW i \in 1 .. 3, NEW j \in 1 .. 3, j < i PROVE at(j) # at(i)
    BY <2>1 DEF LayoutValid
  <2> QED
    BY <2>1
<1>4. written \in [0 .. (count - 1) -> Word]
  <2>1. ASSUME NEW c \in 0 .. (count - 1) PROVE written[c] \in Word
    BY <1>2 DEF write_physical_value
  <2>2. written = [c \in 0 .. (count - 1) |-> written[c]]
    BY DEF write_physical_value
  <2> QED
    BY <2>1, <2>2
<1>5. ASSUME NEW i \in 1 .. 3 PROVE written[at(i)] = Apply(value.shares[i].storage, split[i])
  <2>1. at(i) \in 0 .. (count - 1)
    BY DEF Typed, LayoutValid
  <2>2. (CHOOSE j \in 1 .. 3 : at(j) = at(i)) = i
    BY <1>3
  <2> QED
    BY <2>1, <2>2 DEF write_physical_value
<1>6. ASSUME NEW i \in 1 .. 3
      PROVE  Apply(InverseMap(value.shares[i].storage), written[at(i)]) = split[i]
  <2> DEFINE map == value.shares[i].storage
  <2>1. /\ map.multiplier \in Word /\ map.multiplier % 2 = 1
        /\ map.addend \in Word
    BY DEF Typed, LayoutValid
  <2>2. split[i] \in Word
    BY <1>1
  <2>3. written[at(i)] = Apply(map, split[i])
    BY <1>5
  <2> HIDE DEF map, split, written, at
  <2>4. Apply(InverseMap(map), Apply(map, split[i])) = split[i]
    BY <2>1, <2>2, InverseUndoesApply
  <2>5. Apply(InverseMap(map), written[at(i)]) = split[i]
    BY <2>3, <2>4
  <2> QED
    BY <2>5 DEF map
<1>7. join_shares(value.family, split[1], split[2], split[3]) = word
  BY SharesJoin
<1>8. read_physical_value(value, written) = word
  <2> HIDE DEF written, split
  <2>1. read_physical_value(value, written) = join_shares(value.family, split[1], split[2], split[3])
    BY <1>6 DEF read_physical_value
  <2> QED
    BY <2>1, <1>7
<1> QED
  BY <1>4, <1>8

\* Writing one value leaves every value on other carriers as it was.
LEMMA WriteElsewhere ==
    ASSUME NEW value, NEW other, NEW count \in Nat, Typed(other), LayoutValid(other, count),
           CarriersOf(value) \cap CarriersOf(other) = {},
           NEW carriers_ \in [0 .. (count - 1) -> Word],
           NEW word, NEW first, NEW second
    PROVE  read_physical_value(other, write_physical_value(value, word, first, second, carriers_))
               = read_physical_value(other, carriers_)
<1> DEFINE written == write_physical_value(value, word, first, second, carriers_)
           at(i) == other.shares[i].carrier
<1>1. ASSUME NEW i \in 1 .. 3 PROVE written[at(i)] = carriers_[at(i)]
  <2>1. at(i) \in 0 .. (count - 1)
    BY DEF Typed, LayoutValid
  <2>2. ~ \E j \in 1 .. 3 : value.shares[j].carrier = at(i)
    BY DEF CarriersOf
  <2> QED
    BY <2>1, <2>2 DEF write_physical_value
<1>2. read_physical_value(other, written) = read_physical_value(other, carriers_)
  <2> HIDE DEF written
  <2>1. written[at(1)] = carriers_[at(1)] /\ written[at(2)] = carriers_[at(2)]
            /\ written[at(3)] = carriers_[at(3)]
    BY <1>1
  <2> QED
    BY <2>1 DEF read_physical_value
<1> QED
  BY <1>2

(***************************************************************************)
(* The store.                                                              *)
(***************************************************************************)

\* The carriers of the n-th value allocated.
Laid(value, n) ==
    /\ \A i \in 1 .. 3 :
           value.shares[i].carrier = kFirstAllocatedCarrier + 3 * (n - 1) + (i - 1)
    /\ \A i \in 1 .. 3 : /\ value.shares[i].storage.multiplier \in Word
                          /\ value.shares[i].storage.multiplier % 2 = 1
                          /\ value.shares[i].storage.addend \in Word

\* What every call preserves: the allocated values lie one after the other, and
\* the carriers and the history cover them.
StoreInvariant ==
    /\ max_carriers_ \in Nat
    /\ DOMAIN allocated_ = 1 .. Len(allocated_) /\ Len(allocated_) \in Nat
    /\ next_ = kFirstAllocatedCarrier + 3 * Len(allocated_)
    /\ allocated_ # << >> => next_ <= max_carriers_
    /\ \A n \in 1 .. Len(allocated_) : Laid(allocated_[n], n)
    /\ Allocating => logical = << >>
    /\ ~ Allocating => /\ carriers \in [0 .. (next_ - 1) -> Word]
                      /\ logical \in [1 .. Len(allocated_) -> Word \cup {Refused}]
    /\ ReadsBack
    /\ outcome = "exhausted" => max_carriers_ - next_ < kPhysicalShares
    /\ outcome # "lost"

\* A value laid below the next carrier is a layout that may be written through.
LEMMA LaidIsValid ==
    ASSUME NEW value, NEW n \in Nat \ {0}, Laid(value, n),
           NEW count \in Nat, kFirstAllocatedCarrier + 3 * n <= count
    PROVE  Typed(value) /\ LayoutValid(value, count)
BY DEF Laid, Typed, LayoutValid, kFirstAllocatedCarrier

\* Two values laid one after the other share no carrier.
LEMMA LaidApart ==
    ASSUME NEW value, NEW n \in Nat \ {0}, Laid(value, n),
           NEW other, NEW m \in Nat \ {0}, Laid(other, m), n # m
    PROVE  CarriersOf(value) \cap CarriersOf(other) = {}
BY DEF Laid, CarriersOf, kFirstAllocatedCarrier

\* allocate lays the value out on the next three carriers.
LEMMA AllocatedIsLaid ==
    ASSUME NEW n \in Nat \ {0}, NEW origin \in Word, NEW domain
    PROVE  Laid(Allocated(kFirstAllocatedCarrier + 3 * (n - 1), domain, origin), n)
<1> DEFINE value == Allocated(kFirstAllocatedCarrier + 3 * (n - 1), domain, origin)
<1>1. ASSUME NEW i \in 1 .. 3
      PROVE  /\ value.shares[i].carrier = kFirstAllocatedCarrier + 3 * (n - 1) + (i - 1)
             /\ value.shares[i].storage.multiplier = MadeOdd(OriginSalt(origin, 2 * i - 1))
             /\ value.shares[i].storage.addend = OriginSalt(origin, 2 * i)
  BY DEF Allocated, kPhysicalShares, kFirstAllocatedCarrier
<1>2. ASSUME NEW i \in 1 .. 3
      PROVE  OriginSalt(origin, 2 * i - 1) \in Word /\ OriginSalt(origin, 2 * i) \in Word
  BY SaltsAreWords
<1>3. ASSUME NEW w \in Word PROVE MadeOdd(w) \in Word /\ MadeOdd(w) % 2 = 1
  BY WordsAreNaturals DEF MadeOdd
<1> HIDE DEF value
<1>4. ASSUME NEW i \in 1 .. 3
      PROVE  /\ value.shares[i].storage.multiplier \in Word
             /\ value.shares[i].storage.multiplier % 2 = 1
             /\ value.shares[i].storage.addend \in Word
  BY <1>1, <1>2, <1>3
<1>5. Laid(value, n)
  BY <1>1, <1>4 DEF Laid
<1> QED
  BY <1>5 DEF value

LEMMA StoreInvariantInit == StoreInit => StoreInvariant
<1> SUFFICES ASSUME StoreInit PROVE StoreInvariant
  OBVIOUS
<1>1. max_carriers_ \in Nat
  BY StoreAssumption DEF StoreInit
<1>2. ReadsBack
  BY DEF StoreInit, ReadsBack
<1> QED
  BY <1>1, <1>2 DEF StoreInit, StoreInvariant, Allocating, kFirstAllocatedCarrier

LEMMA AllocateKeeps ==
    ASSUME StoreInvariant, Allocate
    PROVE  StoreInvariant'
<1> DEFINE n == Len(allocated_) + 1
<1>1. PICK origin \in Origins :
          allocated_' = Append(allocated_, Allocated(next_, "Integer", origin))
  BY DEF Allocate
<1>2. n \in Nat \ {0} /\ next_ = kFirstAllocatedCarrier + 3 * (n - 1)
  BY DEF StoreInvariant, kFirstAllocatedCarrier
<1>3. Laid(Allocated(next_, "Integer", origin), n)
  BY <1>2, AllocatedIsLaid, StoreAssumption
<1>4. /\ Len(allocated_') = n /\ DOMAIN allocated_' = 1 .. n
      /\ \A k \in 1 .. Len(allocated_) : allocated_'[k] = allocated_[k]
      /\ allocated_'[n] = Allocated(next_, "Integer", origin)
  <2> HIDE DEF n
  <2>1. DOMAIN allocated_ = 1 .. Len(allocated_) /\ Len(allocated_) \in Nat
    BY DEF StoreInvariant
  <2> QED
    BY <1>1, <2>1 DEF n
<1>5. \A k \in 1 .. Len(allocated_') : Laid(allocated_'[k], k)
  BY <1>3, <1>4 DEF StoreInvariant
<1>6. /\ next_' = kFirstAllocatedCarrier + 3 * Len(allocated_')
      /\ next_' <= max_carriers_'
  BY <1>2, <1>4 DEF StoreInvariant, Allocate, HasRoom, kPhysicalShares, kFirstAllocatedCarrier
<1>7. Allocating /\ carriers' = carriers /\ logical' = << >>
  BY DEF StoreInvariant, Allocate
<1>8. ReadsBack'
  BY <1>7 DEF ReadsBack
<1>9. max_carriers_' \in Nat /\ outcome' = "ok" /\ Len(allocated_') \in Nat
  BY <1>2, <1>4 DEF StoreInvariant, Allocate
<1> QED
  BY <1>4, <1>5, <1>6, <1>7, <1>8, <1>9 DEF StoreInvariant, Allocating

LEMMA FinishKeeps ==
    ASSUME StoreInvariant, FinishAllocation
    PROVE  StoreInvariant'
<1>1. next_ \in Nat /\ next_ > 0
  BY DEF StoreInvariant, kFirstAllocatedCarrier
<1>2. carriers' = [c \in 0 .. (next_ - 1) |-> 0]
  BY DEF FinishAllocation
<1>3. carriers' \in [0 .. (next_ - 1) -> Word]
  BY <1>2, RingConstants
<1>4. 0 \in DOMAIN carriers'
  BY <1>1, <1>2
<1>5. carriers' # << >>
  BY <1>4
<1>6. logical' = [n \in 1 .. Len(allocated_) |-> Refused]
  BY DEF FinishAllocation, StoreInvariant
<1>7. ReadsBack'
  BY <1>6 DEF ReadsBack
<1> QED
  BY <1>3, <1>5, <1>6, <1>7 DEF StoreInvariant, FinishAllocation, Allocating

\* Between the calls that write, every allocated value is a valid layout.
LEMMA AllocatedAreValid ==
    ASSUME StoreInvariant
    PROVE  /\ next_ \in Nat
           /\ \A n \in 1 .. Len(allocated_) :
                  Typed(allocated_[n]) /\ LayoutValid(allocated_[n], next_)
           /\ \A n, m \in 1 .. Len(allocated_) :
                  n # m => CarriersOf(allocated_[n]) \cap CarriersOf(allocated_[m]) = {}
<1>1. next_ \in Nat
  BY DEF StoreInvariant, kFirstAllocatedCarrier
<1>2. ASSUME NEW n \in 1 .. Len(allocated_)
      PROVE  Typed(allocated_[n]) /\ LayoutValid(allocated_[n], next_)
  <2>1. n \in Nat \ {0} /\ kFirstAllocatedCarrier + 3 * n <= next_ /\ Laid(allocated_[n], n)
    BY DEF StoreInvariant, kFirstAllocatedCarrier
  <2> QED
    BY <1>1, <2>1, LaidIsValid
<1>3. ASSUME NEW n \in 1 .. Len(allocated_), NEW m \in 1 .. Len(allocated_), n # m
      PROVE  CarriersOf(allocated_[n]) \cap CarriersOf(allocated_[m]) = {}
  <2>1. n \in Nat \ {0} /\ m \in Nat \ {0} /\ Laid(allocated_[n], n) /\ Laid(allocated_[m], m)
    BY DEF StoreInvariant
  <2> QED
    BY <1>3, <2>1, LaidApart
<1> QED
  BY <1>1, <1>2, <1>3

LEMMA WriteKeeps ==
    ASSUME StoreInvariant, Write
    PROVE  StoreInvariant'
<1>1. PICK n \in DOMAIN allocated_, word \in Written, blind \in Blinds :
          /\ carriers' = write_physical_value(allocated_[n], word, blind[1], blind[2], carriers)
          /\ logical' = [logical EXCEPT ![n] = word]
  BY DEF Write
<1>2. /\ n \in 1 .. Len(allocated_)
      /\ carriers \in [0 .. (next_ - 1) -> Word]
      /\ logical \in [1 .. Len(allocated_) -> Word \cup {Refused}]
  BY DEF StoreInvariant, Write
<1>3. word \in Word /\ blind[1] \in Word /\ blind[2] \in Word
  BY StoreAssumption
<1>4. Typed(allocated_[n]) /\ LayoutValid(allocated_[n], next_) /\ next_ \in Nat
  BY <1>2, AllocatedAreValid
<1>5. /\ carriers' \in [0 .. (next_ - 1) -> Word]
      /\ read_physical_value(allocated_[n], carriers') = word
  <2> DEFINE value == allocated_[n]
             first == blind[1]
             second == blind[2]
             written == write_physical_value(value, word, first, second, carriers)
  <2>1. /\ written \in [0 .. (next_ - 1) -> Word]
        /\ read_physical_value(value, written) = word
    <3>1. /\ Typed(value) /\ LayoutValid(value, next_) /\ next_ \in Nat
          /\ carriers \in [0 .. (next_ - 1) -> Word]
          /\ word \in Word /\ first \in Word /\ second \in Word
      BY <1>2, <1>3, <1>4
    <3> HIDE DEF value, first, second
    <3> QED
      BY <3>1, ReadAfterWrite
  <2>2. carriers' = written
    BY <1>1
  <2> HIDE DEF written
  <2> QED
    BY <2>1, <2>2
<1>6. ASSUME NEW m \in 1 .. Len(allocated_), m # n
      PROVE  read_physical_value(allocated_[m], carriers')
                 = read_physical_value(allocated_[m], carriers)
  <2>1. /\ Typed(allocated_[m]) /\ LayoutValid(allocated_[m], next_)
        /\ CarriersOf(allocated_[n]) \cap CarriersOf(allocated_[m]) = {}
    BY <1>2, <1>6, AllocatedAreValid
  <2> DEFINE value == allocated_[n]
             other == allocated_[m]
             first == blind[1]
             second == blind[2]
             written == write_physical_value(value, word, first, second, carriers)
  <2>2. read_physical_value(other, written) = read_physical_value(other, carriers)
    <3>1. /\ Typed(other) /\ LayoutValid(other, next_) /\ next_ \in Nat
          /\ carriers \in [0 .. (next_ - 1) -> Word]
          /\ CarriersOf(value) \cap CarriersOf(other) = {}
      BY <1>2, <1>4, <2>1
    <3> HIDE DEF value, other, first, second
    <3> QED
      BY <3>1, WriteElsewhere
  <2>3. carriers' = written
    BY <1>1
  <2> HIDE DEF written
  <2> QED
    BY <2>2, <2>3
<1>7. logical' \in [1 .. Len(allocated_) -> Word \cup {Refused}]
  BY <1>1, <1>2, <1>3
<1>8. allocated_' = allocated_ /\ next_' = next_ /\ max_carriers_' = max_carriers_
          /\ outcome' = "ok"
  BY DEF Write
<1>9. ReadsBack'
  <2> SUFFICES ASSUME NEW m \in DOMAIN logical', logical'[m] # Refused
               PROVE  read_physical_value(allocated_[m], carriers') = logical'[m]
    BY <1>8 DEF ReadsBack
  <2>1. m \in 1 .. Len(allocated_) /\ m \in DOMAIN logical
    BY <1>2, <1>7
  <2>2. CASE m = n
    BY <1>1, <1>2, <1>5, <2>2
  <2>3. CASE m # n
    BY <1>1, <1>2, <1>6, <2>1, <2>3 DEF StoreInvariant, ReadsBack
  <2> QED
    BY <2>2, <2>3
<1>10. carriers' # << >>
  <2>1. 0 \in DOMAIN carriers'
    BY <1>5 DEF StoreInvariant, kFirstAllocatedCarrier
  <2> QED
    BY <2>1
<1> QED
  BY <1>5, <1>7, <1>8, <1>9, <1>10 DEF StoreInvariant, Allocating

LEMMA WriteForeignKeeps ==
    ASSUME StoreInvariant, WriteForeign
    PROVE  StoreInvariant'
<1>1. /\ carriers \in [0 .. (next_ - 1) -> Word]
      /\ logical \in [1 .. Len(allocated_) -> Word \cup {Refused}]
      /\ DOMAIN allocated_ = 1 .. Len(allocated_)
  BY DEF StoreInvariant, WriteForeign
<1>2. allocated_' = allocated_ /\ next_' = next_ /\ max_carriers_' = max_carriers_
  BY DEF WriteForeign
<1>3. PICK value \in Foreign, word \in Written, blind \in Blinds :
          IF LayoutValid(value, next_)
          THEN /\ carriers' = write_physical_value(value, word, blind[1], blind[2], carriers)
               /\ logical' = [n \in DOMAIN logical |->
                                 IF CarriersOf(value) \cap CarriersOf(allocated_[n]) = {}
                                 THEN logical[n] ELSE Refused]
               /\ outcome' = IF read_physical_value(value, carriers') = word
                             THEN "ok" ELSE "lost"
          ELSE outcome' = "refused" /\ UNCHANGED <<carriers, logical>>
  BY DEF WriteForeign
<1>4. CASE ~ LayoutValid(value, next_)
  <2>1. outcome' = "refused" /\ carriers' = carriers /\ logical' = logical
    BY <1>3, <1>4
  <2>2. ReadsBack'
    BY <1>2, <2>1 DEF StoreInvariant, ReadsBack
  <2> QED
    BY <1>2, <2>1, <2>2 DEF StoreInvariant, Allocating
<1>5. CASE LayoutValid(value, next_)
  <2>1. Typed(value)
    BY StoreAssumption DEF Typed
  <2>2. word \in Word /\ blind[1] \in Word /\ blind[2] \in Word
    BY StoreAssumption
  <2>3. next_ \in Nat
    BY AllocatedAreValid
  <2>4. carriers' = write_physical_value(value, word, blind[1], blind[2], carriers)
    BY <1>3, <1>5
  <2>5. /\ carriers' \in [0 .. (next_ - 1) -> Word]
        /\ read_physical_value(value, carriers') = word
    BY <1>1, <1>5, <2>1, <2>2, <2>3, <2>4, ReadAfterWrite
  <2>6. outcome' = "ok"
    BY <1>3, <1>5, <2>5
  <2>7. logical' \in [1 .. Len(allocated_) -> Word \cup {Refused}]
    BY <1>1, <1>3, <1>5
  <2>8. ReadsBack'
    <3> SUFFICES ASSUME NEW m \in DOMAIN logical', logical'[m] # Refused
                 PROVE  read_physical_value(allocated_[m], carriers') = logical'[m]
      BY <1>2 DEF ReadsBack
    <3>1. m \in 1 .. Len(allocated_) /\ m \in DOMAIN logical
      BY <1>1, <2>7
    <3>2. /\ CarriersOf(value) \cap CarriersOf(allocated_[m]) = {}
          /\ logical'[m] = logical[m]
      BY <1>3, <1>5, <3>1
    <3>3. Typed(allocated_[m]) /\ LayoutValid(allocated_[m], next_)
      BY <3>1, AllocatedAreValid
    <3>4. read_physical_value(allocated_[m], carriers')
              = read_physical_value(allocated_[m], carriers)
      <4> DEFINE other == allocated_[m]
                 first == blind[1]
                 second == blind[2]
                 written == write_physical_value(value, word, first, second, carriers)
      <4>1. read_physical_value(other, written) = read_physical_value(other, carriers)
        <5>1. /\ Typed(other) /\ LayoutValid(other, next_) /\ next_ \in Nat
              /\ carriers \in [0 .. (next_ - 1) -> Word]
              /\ CarriersOf(value) \cap CarriersOf(other) = {}
          BY <1>1, <2>3, <3>2, <3>3
        <5> HIDE DEF other, first, second
        <5> QED
          BY <5>1, WriteElsewhere
      <4>2. carriers' = written
        BY <2>4
      <4> HIDE DEF written
      <4> QED
        BY <4>1, <4>2
    <3> QED
      BY <3>1, <3>2, <3>4 DEF StoreInvariant, ReadsBack
  <2>9. carriers' # << >>
    <3>1. 0 \in DOMAIN carriers'
      BY <2>5 DEF StoreInvariant, kFirstAllocatedCarrier
    <3> QED
      BY <3>1
  <2> QED
    BY <1>2, <2>5, <2>6, <2>7, <2>8, <2>9 DEF StoreInvariant, Allocating
<1> QED
  BY <1>4, <1>5

LEMMA StoreInvariantStep == StoreInvariant /\ [StoreNext]_storeVars => StoreInvariant'
<1> SUFFICES ASSUME StoreInvariant, [StoreNext]_storeVars PROVE StoreInvariant'
  OBVIOUS
<1>1. CASE Allocate
  BY <1>1, AllocateKeeps
<1>2. CASE RefuseAllocation
  <2>1. ReadsBack'
    BY <1>2 DEF RefuseAllocation, StoreInvariant, ReadsBack
  <2>2. max_carriers_ - next_ < kPhysicalShares
    BY <1>2 DEF RefuseAllocation, HasRoom, StoreInvariant, kPhysicalShares,
                kFirstAllocatedCarrier
  <2> QED
    BY <1>2, <2>1, <2>2 DEF RefuseAllocation, StoreInvariant, Allocating, kPhysicalShares
<1>3. CASE FinishAllocation
  BY <1>3, FinishKeeps
<1>4. CASE Write
  BY <1>4, WriteKeeps
<1>5. CASE WriteForeign
  BY <1>5, WriteForeignKeeps
<1>6. CASE UNCHANGED storeVars
  <2>1. ReadsBack'
    BY <1>6 DEF storeVars, StoreInvariant, ReadsBack
  <2> QED
    BY <1>6, <2>1 DEF storeVars, StoreInvariant, Allocating, kPhysicalShares
<1> QED
  BY <1>1, <1>2, <1>3, <1>4, <1>5, <1>6 DEF StoreNext

THEOREM StoreKeepsInvariant == StoreSpec => []StoreInvariant
BY StoreInvariantInit, StoreInvariantStep, PTL DEF StoreSpec

\* A value reads back as the word last written to it, for every word, seed and
\* sequence of allocations and writes (allocate, read_physical_value,
\* write_physical_value).
THEOREM ValuesReadBack == StoreSpec => []ReadsBack
<1>1. StoreInvariant => ReadsBack
  BY DEF StoreInvariant
<1> QED
  BY <1>1, StoreKeepsInvariant, PTL

\* No carrier is handed out twice, none at or above the limit, and three at a
\* time are refused only when there are not three (allocate).
THEOREM CarriersAreHandedOutOnce == StoreSpec => []CarriersHandedOutOnce
<1>1. StoreInvariant => CarriersHandedOutOnce
  <2> SUFFICES ASSUME StoreInvariant PROVE CarriersHandedOutOnce
    OBVIOUS
  <2>1. ASSUME NEW n \in DOMAIN allocated_, NEW i \in 1 .. 3
        PROVE  /\ allocated_[n].shares[i].carrier \in kFirstAllocatedCarrier .. (next_ - 1)
               /\ allocated_[n].shares[i].carrier
                      = kFirstAllocatedCarrier + 3 * (n - 1) + (i - 1)
    <3>1. /\ n \in 1 .. Len(allocated_) /\ Len(allocated_) \in Nat
          /\ next_ = kFirstAllocatedCarrier + 3 * Len(allocated_)
          /\ Laid(allocated_[n], n)
      BY DEF StoreInvariant
    <3>2. allocated_[n].shares[i].carrier = kFirstAllocatedCarrier + 3 * (n - 1) + (i - 1)
      BY <3>1 DEF Laid, kFirstAllocatedCarrier
    <3> QED
      BY <3>1, <3>2, SMTT(30) DEF kFirstAllocatedCarrier
  <2>2. ASSUME NEW n \in DOMAIN allocated_, NEW m \in DOMAIN allocated_,
               NEW i \in 1 .. 3, NEW j \in 1 .. 3,
               allocated_[n].shares[i].carrier = allocated_[m].shares[j].carrier
        PROVE  n = m /\ i = j
    <3>1. n \in Nat /\ m \in Nat
      BY DEF StoreInvariant
    <3>2. 3 * (n - 1) + (i - 1) = 3 * (m - 1) + (j - 1)
      BY <2>1, <2>2, <3>1 DEF kFirstAllocatedCarrier
    <3> QED
      BY <3>1, <3>2
  <2>3. /\ next_ = kFirstAllocatedCarrier + kPhysicalShares * Len(allocated_)
        /\ allocated_ # << >> => next_ <= max_carriers_
        /\ outcome = "exhausted" => max_carriers_ - next_ < kPhysicalShares
    BY DEF StoreInvariant, kPhysicalShares
  <2> QED
    BY <2>1, <2>2, <2>3 DEF CarriersHandedOutOnce
<1> QED
  BY <1>1, StoreKeepsInvariant, PTL

\* A layout that validate_physical_layout accepts loses nothing.
THEOREM AcceptedLayoutsLoseNothing == StoreSpec => []AcceptedLayoutsHold
<1>1. StoreInvariant => AcceptedLayoutsHold
  BY DEF StoreInvariant, AcceptedLayoutsHold
<1> QED
  BY <1>1, StoreKeepsInvariant, PTL
=============================================================================
