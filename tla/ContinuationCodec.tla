-------------------------- MODULE ContinuationCodec --------------------------
(***************************************************************************)
(* ContinuationCodec of profile.cpp.  A continuation is the sealed offset  *)
(* of the island to run next: a lane, the offset under a mask derived from *)
(* the profile's key, and a proof that binds the offset and the lane to    *)
(* that key.  The word operations are parameters: Xor is the bitwise       *)
(* exclusive or of two words, Mix64 the finaliser mix64 of profile.cpp.    *)
(* The model checker instantiates them on a scaled-down word; the proofs   *)
(* use only the laws of SharedLemmas.                                          *)
(***************************************************************************)
EXTENDS Integers

CONSTANTS
    Word,              \* the values of a machine word, an initial segment of Nat
    kHaltContinuation, \* the largest island offset, reserved for halting
    Xor(_, _),         \* bitwise exclusive or
    Mix64(_),          \* the 64-bit finaliser
    ContinuationKey,   \* the profile's continuation_key_
    LaneTag,           \* 0x434F4E54494E5545
    ProofTag           \* 0x50524F4F4656514D

\* kHaltContinuation is an unsigned 32-bit constant.
ASSUME HaltAssumption == kHaltContinuation \in Nat

\* The domain of std::uint32_t island offsets, the halt marker included.
Offset == 0 .. kHaltContinuation

\* What open returns in place of an offset when it refuses.
Refused == -1

LaneMask == Mix64(Xor(ContinuationKey, LaneTag))

\* The offset shifted to the upper half of a word, so that it shares no bit
\* with an unshifted offset.
HighHalf(offset) == offset * (kHaltContinuation + 1)

Proof(offset, lane) ==
    Mix64(Xor(Xor(Xor(ContinuationKey, HighHalf(offset)), lane), ProofTag))

Seal(offset) ==
    LET lane == Xor(offset, LaneMask)
    IN  [lane |-> lane, proof |-> Proof(offset, lane)]

\* Mutant: the proof is not compared.
OpenUnproven(continuation) ==
    LET decoded == Xor(continuation.lane, LaneMask)
    IN  IF decoded \in Offset THEN decoded ELSE Refused

\* open: the lane must decode into the offset domain, and sealing the
\* decoded offset again must reproduce both words.
Open(continuation) ==
    LET decoded == Xor(continuation.lane, LaneMask)
    IN  IF decoded \in Offset /\ Seal(decoded) = continuation
        THEN decoded
        ELSE Refused

\* Mutant: the third share is left out.
JoinTwo(first, second, third) == Xor(first, second)

\* The join of the three shares a logical word is spread over.
JoinXor(first, second, third) == Xor(Xor(first, second), third)
=============================================================================
