------------------------------ MODULE MachineWord ------------------------------
(* What MachineIR, the module format and the island streams agree on.           *)

EXTENDS Naturals

\* The width of a word in bytes, eight in the code: the wider of the two widths
\* a load or a store may have.
CONSTANT WordBytes

ASSUME WordBytesAssumption == WordBytes \in Nat \ {0}

\* The argument carriers there are (module.hpp).
kMaximumArguments == 16
=============================================================================
