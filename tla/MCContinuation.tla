---------------------------- MODULE MCContinuation ----------------------------
(* Sixteen offsets in an eight-bit word. *)
EXTENDS ContinuationTransfer, SharedLemmas, WordArithmetic

MCMixParameters ==
    [gamma |-> 157, delta |-> 209, up |-> 2, down |-> 1,
     shifts |-> <<4, 3, 4>>, factors |-> <<185, 235>>]

MCBlinds == {<<0, 0>>, <<201, 86>>}

\* The positions of a word's one bits.
OneBits(word) == {i \in 0 .. (WordBits - 1) : (word \div 2 ^ i) % 2 = 1}
=============================================================================
