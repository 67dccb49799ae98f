---------------------------- MODULE EncodingTable ----------------------------
(***************************************************************************)
(* PrimitiveEncoding of profile.cpp: the encoded byte of every primitive   *)
(* kind, the first entries of a shuffled list of all byte values.  The     *)
(* shuffle takes its positions from a stream of mix64 values; here every   *)
(* position in range may come, so every seed is covered.                   *)
(***************************************************************************)
EXTENDS Integers

CONSTANTS
    CodeCount, \* the byte values, 256 in the code
    KindCount, \* kPrimitiveSchemaCount
    Unknown    \* decode's refusal

ASSUME CountsAssumption ==
    /\ CodeCount \in Nat
    /\ KindCount \in 1 .. CodeCount
    /\ Unknown \notin 0 .. (KindCount - 1)

Codes == 0 .. (CodeCount - 1)
Kinds == 0 .. (KindCount - 1)

VARIABLES
    candidates, \* the list being shuffled
    index       \* the loop's index

tableVars == <<candidates, index>>

TableInit ==
    /\ candidates = [code \in Codes |-> code] \* std::iota
    /\ index = CodeCount - 1

\* Mutant: one of the two places keeps its value.
MovedInto(selected) == [candidates EXCEPT ![index] = candidates[selected]]

\* std::swap
Swapped(selected) ==
    [candidates EXCEPT ![index] = candidates[selected], ![selected] = candidates[index]]

Shuffle ==
    /\ index > 0
    /\ \E selected \in 0 .. index : candidates' = Swapped(selected)
    /\ index' = index - 1

TableSpec == TableInit /\ [][Shuffle]_tableVars

\* The table the profile keeps, and the two directions of it.  std::find takes the
\* first entry.
encoded == [kind \in Kinds |-> candidates[kind]]

encode(kind) == IF kind \in Kinds THEN encoded[kind] ELSE 0

IsFirst(kind, byte) ==
    encoded[kind] = byte /\ \A earlier \in Kinds : earlier < kind => encoded[earlier] # byte

decode(byte) ==
    IF \E kind \in Kinds : encoded[kind] = byte
    THEN CHOOSE kind \in Kinds : IsFirst(kind, byte)
    ELSE Unknown

-----------------------------------------------------------------------------
\* Every kind decodes to itself, and a byte that decodes at all is the code of the
\* kind it decodes to: the compiler, the verifier and the runtime agree on every
\* opcode, whatever the seed (encode, decode).
CodesDecodeToTheirKind ==
    /\ \A kind \in Kinds : decode(encode(kind)) = kind
    /\ \A byte \in Codes : decode(byte) # Unknown => encode(decode(byte)) = byte

-----------------------------------------------------------------------------
TableTypeOK ==
    /\ candidates \in [Codes -> Codes]
    /\ index \in Int /\ index < CodeCount

\* No byte value is in two places: what makes the table readable backwards.
NoCodeTwice ==
    \A a, b \in Codes : candidates[a] = candidates[b] => a = b

TableInvariant == TableTypeOK /\ NoCodeTwice
=============================================================================
