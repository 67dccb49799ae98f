---------------------------- MODULE PhysicalValues ----------------------------
(***************************************************************************)
(* The values of physical.cpp and the compiler's CarrierAllocator.  A      *)
(* logical word lives in three carriers: it is split into three shares     *)
(* that join by exclusive or or by addition, and each share is stored      *)
(* through an affine map of its own.  Reading a value back applies the     *)
(* inverse maps, whose multipliers are found by Newton's iteration.  The   *)
(* word operations are parameters, as in ContinuationCodec.                *)
(***************************************************************************)
EXTENDS PhysicalCode

CONSTANTS
    Add(_, _), Sub(_, _), Mul(_, _), \* wrapping arithmetic on words
    MixWord(_, _, _),                \* mix_word
    Seed,                            \* the profile's seed
    Tag(_)                           \* the constant a salt or a factor is named for

\* mix_word of the seed, an origin and a slot: origin_salt and compiler_salt
\* differ in the last constant.
Salt(origin, slot, kind) ==
    MixWord(Xor(Seed, Mul(origin, Tag("origin"))), Mul(slot, Tag("slot")), Tag(kind))

OriginSalt(origin, slot) == Salt(origin, slot, "allocator")
CompilerSalt(origin, name) == Salt(origin, Tag(name), "compiler")

(***************************************************************************)
(* AffineMap.                                                              *)
(***************************************************************************)
Identity == [multiplier |-> 1, addend |-> 0]

Apply(map, word) == Add(Mul(map.multiplier, word), map.addend)

\* Mutant: the sign of the correction.
NewtonStepUp(word, inverse) == Mul(inverse, Add(2, Mul(word, inverse)))

NewtonStep(word, inverse) == Mul(inverse, Sub(2, Mul(word, inverse)))

\* The six turns of the loop.  An odd word is its own inverse modulo eight, and
\* each turn doubles the number of bits that are right.
inverse_odd(word) ==
    LET next[inverse \in Word] == NewtonStep(word, inverse)
    IN  next[next[next[next[next[next[word]]]]]]

InverseMap(map) ==
    LET multiplier == inverse_odd(map.multiplier)
    IN  [multiplier |-> multiplier, addend |-> Sub(0, Mul(multiplier, map.addend))]

Compose(outer, inner) ==
    [multiplier |-> Mul(outer.multiplier, inner.multiplier),
     addend     |-> Add(Mul(outer.multiplier, inner.addend), outer.addend)]

(***************************************************************************)
(* Shares.                                                                 *)
(***************************************************************************)

split_value(family, word, first, second) ==
    <<first, second,
      IF family = "Xor" THEN Xor(Xor(word, first), second)
                        ELSE Sub(Sub(word, first), second)>>

join_shares(family, first, second, third) ==
    IF family = "Xor" THEN JoinXor(first, second, third)
                      ELSE Add(Add(first, second), third)

\* Mutant: an even multiplier passes.
LayoutValidEven(value, carrier_count) ==
    \A i \in 1 .. 3 :
        /\ value.shares[i].carrier < carrier_count
        /\ \A prior \in 1 .. (i - 1) :
               value.shares[prior].carrier # value.shares[i].carrier

\* validate_physical_layout for values whose domain and family are in range.
LayoutValid(value, carrier_count) ==
    \A i \in 1 .. 3 :
        /\ value.shares[i].carrier < carrier_count
        /\ value.shares[i].storage.multiplier % 2 = 1
        /\ \A prior \in 1 .. (i - 1) :
               value.shares[prior].carrier # value.shares[i].carrier

read_physical_value(value, carriers) ==
    LET logical(i) ==
            Apply(InverseMap(value.shares[i].storage), carriers[value.shares[i].carrier])
    IN  join_shares(value.family, logical(1), logical(2), logical(3))

\* The carriers after write_physical_value.
write_physical_value(value, word, first, second, carriers) ==
    LET split == split_value(value.family, word, first, second)
    IN  [c \in DOMAIN carriers |->
            IF \E i \in 1 .. 3 : value.shares[i].carrier = c
            THEN LET i == CHOOSE i \in 1 .. 3 : value.shares[i].carrier = c
                 IN  Apply(value.shares[i].storage, split[i])
            ELSE carriers[c]]

(***************************************************************************)
(* CarrierAllocator, and the fixed values of the continuation and the      *)
(* return value.                                                           *)
(***************************************************************************)
kPhysicalShares == 3

\* Mutant: room for one carrier is enough.
HasRoomForOne(next, max_carriers) == next < max_carriers

HasRoom(next, max_carriers) ==
    max_carriers >= kPhysicalShares /\ next <= max_carriers - kPhysicalShares

\* What | 1 makes of a word.
MadeOdd(word) == IF word % 2 = 0 THEN word + 1 ELSE word

\* The value that the carriers from next on are given to.
Allocated(next, domain, origin) ==
    [domain |-> domain,
     family |-> IF OriginSalt(origin, 0) % 2 = 0 THEN "Xor" ELSE "Additive",
     origin |-> origin,
     shares |-> [i \in 1 .. kPhysicalShares |->
                    [carrier |-> next + i - 1,
                     storage |-> [multiplier |-> MadeOdd(OriginSalt(origin, 2 * i - 1)),
                                  addend     |-> OriginSalt(origin, 2 * i)]]]]

fixed_value(domain, first) ==
    [domain |-> domain, family |-> "Xor", origin |-> 0,
     shares |-> [i \in 1 .. kPhysicalShares |->
                    [carrier |-> first + i - 1, storage |-> Identity]]]
=============================================================================
