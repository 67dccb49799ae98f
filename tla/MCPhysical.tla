------------------------------ MODULE MCPhysical ------------------------------
(* Up to two values of a six-bit word, with limits on both sides of room for   *)
(* none, one and two, and layouts of a caller's own that are right, reuse a    *)
(* carrier, leave the carrier file, or cannot be inverted.                     *)
EXTENDS PhysicalProofs, WordArithmetic

MCMixParameters ==
    [gamma |-> 29, delta |-> 51, up |-> 2, down |-> 1,
     shifts |-> <<3, 2, 3>>, factors |-> <<43, 61>>]

MCTag(name) ==
    CASE name = "origin" -> 37
      [] name = "slot" -> 47
      [] name = "allocator" -> 27

\* The positions of a word's one bits.
OneBits(word) == {i \in 0 .. (WordBits - 1) : (word \div 2 ^ i) % 2 = 1}

MCBlinds == {<<0, 0>>, <<37, 63>>}

Share(carrier, multiplier, addend) ==
    [carrier |-> carrier, storage |-> [multiplier |-> multiplier, addend |-> addend]]

Layout(family, first, second, third) ==
    [domain |-> "Integer", family |-> family, origin |-> 0,
     shares |-> <<first, second, third>>]

MCForeign ==
    {Layout("Xor", Share(36, 5, 1), Share(33, 63, 0), Share(34, 1, 9)),
     Layout("Additive", Share(1, 3, 7), Share(1, 3, 7), Share(2, 9, 4)),
     Layout("Additive", Share(34, 7, 2), Share(0, 1, 0), Share(35, 1, 0)),
     Layout("Xor", Share(3, 1, 0), Share(4, 6, 3), Share(5, 1, 0))}
=============================================================================
