----------------------------- MODULE MCArithmetic -----------------------------
(* An eight-bit word: all 65536 pairs of operands. *)
EXTENDS ArithmeticReference

MCMixParameters ==
    [gamma |-> 157, delta |-> 209, up |-> 2, down |-> 1,
     shifts |-> <<4, 3, 4>>, factors |-> <<185, 235>>]
=============================================================================
