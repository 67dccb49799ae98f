-------------------------- MODULE ContinuationProofs --------------------------
(***************************************************************************)
(* Proofs about sealed continuations, for every word size, key, tags and   *)
(* finaliser that obey the laws of SharedLemmas.                            *)
(***************************************************************************)
EXTENDS ContinuationTransfer, SharedLemmas

\* An offset beside its shifted copy determines the offset.
LEMMA HalvesIdentify ==
    ASSUME NEW o \in Offset, NEW p \in Offset, Xor(HighHalf(o), o) = Xor(HighHalf(p), p)
    PROVE  o = p
<1>1. o \in Word /\ p \in Word /\ HighHalf(o) \in Word /\ HighHalf(p) \in Word
  BY OffsetsAreWords
<1>2. /\ Bits(Xor(HighHalf(o), o)) = (Bits(HighHalf(o)) \ Bits(o)) \cup (Bits(o) \ Bits(HighHalf(o)))
      /\ Bits(Xor(HighHalf(p), p)) = (Bits(HighHalf(p)) \ Bits(p)) \cup (Bits(p) \ Bits(HighHalf(p)))
  BY <1>1, XorIsBitwise
<1>3. /\ Bits(HighHalf(o)) \cap Bits(o) = {} /\ Bits(HighHalf(o)) \cap Bits(p) = {}
      /\ Bits(HighHalf(p)) \cap Bits(o) = {} /\ Bits(HighHalf(p)) \cap Bits(p) = {}
  BY HalvesAreDisjoint
<1>4. Bits(o) = Bits(p)
  BY <1>2, <1>3
<1> QED
  BY <1>1, <1>4, BitsIdentify

(***************************************************************************)
(* The codec.                                                              *)
(***************************************************************************)

\* open gives an offset only for the two words seal makes of it.
LEMMA OpenedIsSealed ==
    ASSUME NEW continuation, Open(continuation) # Refused
    PROVE  Open(continuation) \in Offset /\ Seal(Open(continuation)) = continuation
BY DEF Open

LEMMA LaneIdentifies ==
    ASSUME NEW o \in Offset, NEW p \in Offset, Seal(o).lane = Seal(p).lane
    PROVE  o = p
BY SealTyped, XorIsInjective

\* No two offsets have the same proof: the proof mixes the lane with the offset
\* in the other half of the word, and neither hides the other.
LEMMA ProofIdentifies ==
    ASSUME NEW o \in Offset, NEW p \in Offset, Seal(o).proof = Seal(p).proof
    PROVE  o = p
<1> DEFINE K == ContinuationKey
           L(q) == Xor(q, LaneMask)
<1>1. /\ K \in Word /\ ProofTag \in Word /\ LaneMask \in Word
      /\ o \in Word /\ p \in Word /\ HighHalf(o) \in Word /\ HighHalf(p) \in Word
  BY SealTyped, TagsAreWords, OffsetsAreWords
<1>2. /\ L(o) \in Word /\ L(p) \in Word
      /\ Xor(K, HighHalf(o)) \in Word /\ Xor(K, HighHalf(p)) \in Word
  BY <1>1, XorIsBitwise
<1>3. /\ Xor(Xor(K, HighHalf(o)), L(o)) \in Word
      /\ Xor(Xor(K, HighHalf(p)), L(p)) \in Word
  BY <1>2, XorIsBitwise
<1>4. /\ Xor(Xor(Xor(K, HighHalf(o)), L(o)), ProofTag) \in Word
      /\ Xor(Xor(Xor(K, HighHalf(p)), L(p)), ProofTag) \in Word
  BY <1>1, <1>3, XorIsBitwise
<1>5. Mix64(Xor(Xor(Xor(K, HighHalf(o)), L(o)), ProofTag))
          = Mix64(Xor(Xor(Xor(K, HighHalf(p)), L(p)), ProofTag))
  BY DEF Seal, Proof
<1>6. Xor(Xor(Xor(K, HighHalf(o)), L(o)), ProofTag)
          = Xor(Xor(Xor(K, HighHalf(p)), L(p)), ProofTag)
  BY <1>4, <1>5, MixLosesNothing
<1>7. Xor(Xor(K, HighHalf(o)), L(o)) = Xor(Xor(K, HighHalf(p)), L(p))
  BY <1>1, <1>3, <1>6, XorIsInjective
<1>8. ASSUME NEW q \in {o, p}
      PROVE  /\ Xor(HighHalf(q), q) \in Word
             /\ Xor(Xor(K, HighHalf(q)), L(q)) = Xor(K, Xor(Xor(HighHalf(q), q), LaneMask))
             /\ Xor(Xor(HighHalf(q), q), LaneMask) \in Word
  <2>1. q \in Word /\ HighHalf(q) \in Word /\ L(q) \in Word /\ Xor(HighHalf(q), q) \in Word
    BY <1>1, <1>2, XorIsBitwise
  <2>2. Xor(Xor(K, HighHalf(q)), L(q)) = Xor(K, Xor(HighHalf(q), L(q)))
    BY <1>1, <2>1, XorAssociates
  <2>3. Xor(HighHalf(q), L(q)) = Xor(Xor(HighHalf(q), q), LaneMask)
    BY <1>1, <2>1, XorAssociates
  <2>4. Xor(Xor(HighHalf(q), q), LaneMask) \in Word
    BY <1>1, <2>1, XorIsBitwise
  <2> QED
    BY <2>1, <2>2, <2>3, <2>4
<1>9. Xor(K, Xor(Xor(HighHalf(o), o), LaneMask)) = Xor(K, Xor(Xor(HighHalf(p), p), LaneMask))
  BY <1>7, <1>8
<1>10. Xor(Xor(HighHalf(o), o), LaneMask) = Xor(Xor(HighHalf(p), p), LaneMask)
  BY <1>1, <1>8, <1>9, XorIsInjective
<1>11. Xor(HighHalf(o), o) = Xor(HighHalf(p), p)
  BY <1>1, <1>8, <1>10, XorIsInjective
<1> QED
  BY <1>11, HalvesIdentify

\* A sealed continuation with one word replaced, and only one, is refused, even
\* when the new word comes from another seal (open's comparison of both words).
THEOREM HalfReplacedIsRefused ==
    ASSUME NEW o \in Offset, NEW lane, NEW proof,
           (lane = Seal(o).lane) # (proof = Seal(o).proof)
    PROVE  Open([lane |-> lane, proof |-> proof]) = Refused
<1> DEFINE continuation == [lane |-> lane, proof |-> proof]
<1> SUFFICES ASSUME Open(continuation) # Refused PROVE FALSE
  OBVIOUS
<1>1. PICK p \in Offset : Seal(p) = continuation
  BY OpenedIsSealed
<1>2. Seal(p).lane = lane /\ Seal(p).proof = proof
  BY <1>1
<1>3. p = o
  BY <1>2, LaneIdentifies, ProofIdentifies
<1> QED
  BY <1>2, <1>3

(***************************************************************************)
(* The carriers.                                                           *)
(***************************************************************************)

\* The words the two groups of shares join to.
JoinedLane(values) == JoinXor(values[0], values[1], values[2])
JoinedProof(values) == JoinXor(values[3], values[4], values[5])

LEMMA CarrierNumbers ==
    /\ LaneCarriers = {0, 1, 2}
    /\ ProofCarriers = {3, 4, 5}
    /\ ContinuationCarriers = {0, 1, 2, 3, 4, 5}
BY DEF LaneCarriers, ProofCarriers, ContinuationCarriers, kContinuationLaneCarrier,
       kContinuationProofCarrier

LEMMA OpenJoined ==
    ASSUME NEW values
    PROVE  OpenCarriers(values) = Open([lane |-> JoinedLane(values), proof |-> JoinedProof(values)])
BY DEF OpenCarriers, JoinedLane, JoinedProof, kContinuationLaneCarrier, kContinuationProofCarrier

\* Three shares change their join when one of them changes.
LEMMA JoinIsInjective ==
    ASSUME NEW a \in Word, NEW b \in Word, NEW c \in Word, NEW x \in Word
    PROVE  /\ x # a => JoinXor(x, b, c) # JoinXor(a, b, c)
           /\ x # b => JoinXor(a, x, c) # JoinXor(a, b, c)
           /\ x # c => JoinXor(a, b, x) # JoinXor(a, b, c)
<1>1. Xor(a, b) \in Word /\ Xor(x, b) \in Word /\ Xor(a, x) \in Word
  BY XorIsBitwise
<1>2. x # a => Xor(x, b) # Xor(a, b)
  BY XorIsInjective
<1>3. x # b => Xor(a, x) # Xor(a, b)
  BY XorIsInjective
<1>4. x # a => Xor(Xor(x, b), c) # Xor(Xor(a, b), c)
  BY <1>1, <1>2, XorIsInjective
<1>5. x # b => Xor(Xor(a, x), c) # Xor(Xor(a, b), c)
  BY <1>1, <1>3, XorIsInjective
<1>6. x # c => Xor(Xor(a, b), x) # Xor(Xor(a, b), c)
  BY <1>1, XorIsInjective
<1> QED
  BY <1>4, <1>5, <1>6 DEF JoinXor

\* The blinding shares cancel out of the join.
LEMMA SplitJoins ==
    ASSUME NEW word \in Word, NEW blind \in Blinds
    PROVE  /\ \A i \in 1 .. 3 : Split(word, blind)[i] \in Word
           /\ JoinXor(Split(word, blind)[1], Split(word, blind)[2], Split(word, blind)[3]) = word
<1> DEFINE a == blind[1]
           b == blind[2]
           c == Xor(Xor(word, a), b)
<1>1. a \in Word /\ b \in Word
  BY BlindsAssumption
<1>2. Xor(word, a) \in Word /\ Xor(a, b) \in Word /\ Xor(a, word) \in Word
  BY <1>1, XorIsBitwise
<1>3. c \in Word
  BY <1>1, <1>2, XorIsBitwise
<1>4. c = Xor(word, Xor(a, b))
  BY <1>1, XorAssociates
<1>5. Xor(Xor(a, b), c) = Xor(c, Xor(a, b))
  BY <1>2, <1>3, XorCommutes
<1>6. Xor(Xor(word, Xor(a, b)), Xor(a, b)) = word
  BY <1>2, XorCancels
<1>7. JoinXor(a, b, c) = word
  BY <1>4, <1>5, <1>6 DEF JoinXor
<1>8. /\ Split(word, blind)[1] = a /\ Split(word, blind)[2] = b /\ Split(word, blind)[3] = c
  BY DEF Split
<1> QED
  BY <1>1, <1>3, <1>7, <1>8

\* The shares of a sealed offset join to its seal.
LEMMA SharesJoin ==
    ASSUME NEW o \in Offset, NEW laneBlind \in Blinds, NEW proofBlind \in Blinds
    PROVE  /\ SealedShares(o, laneBlind, proofBlind) \in [ContinuationCarriers -> Word]
           /\ JoinedLane(SealedShares(o, laneBlind, proofBlind)) = Seal(o).lane
           /\ JoinedProof(SealedShares(o, laneBlind, proofBlind)) = Seal(o).proof
<1> DEFINE lane == Split(Seal(o).lane, laneBlind)
           proof == Split(Seal(o).proof, proofBlind)
           values == SealedShares(o, laneBlind, proofBlind)
<1>1. Seal(o).lane \in Word /\ Seal(o).proof \in Word
  BY SealTyped
<1>2. /\ values = [c \in ContinuationCarriers |-> values[c]]
      /\ values[0] = lane[1] /\ values[1] = lane[2] /\ values[2] = lane[3]
      /\ values[3] = proof[1] /\ values[4] = proof[2] /\ values[5] = proof[3]
  BY CarrierNumbers DEF SealedShares, kContinuationLaneCarrier, kContinuationProofCarrier
<1>3. /\ lane[1] \in Word /\ lane[2] \in Word /\ lane[3] \in Word
      /\ JoinXor(lane[1], lane[2], lane[3]) = Seal(o).lane
  BY <1>1, SplitJoins
<1>4. /\ proof[1] \in Word /\ proof[2] \in Word /\ proof[3] \in Word
      /\ JoinXor(proof[1], proof[2], proof[3]) = Seal(o).proof
  BY <1>1, SplitJoins
<1>5. \A c \in ContinuationCarriers : values[c] \in Word
  BY <1>2, <1>3, <1>4, CarrierNumbers
<1> HIDE DEF lane, proof, values
<1> QED
  BY <1>2, <1>3, <1>4, <1>5 DEF JoinedLane, JoinedProof, values

(***************************************************************************)
(* The transfers.  As long as the carriers stem from one transfer they     *)
(* join to the seal of its target; a partial replacement breaks one of the *)
(* two words and leaves the other.                                         *)
(***************************************************************************)
TransferInvariant ==
    /\ shares \in [ContinuationCarriers -> Word]
    /\ target \in Offset
    /\ replaced = {} =>
           /\ JoinedLane(shares) = Seal(target).lane
           /\ JoinedProof(shares) = Seal(target).proof
    /\ replaced # {} =>
           (JoinedLane(shares) = Seal(target).lane) # (JoinedProof(shares) = Seal(target).proof)

LEMMA InvariantOpens == TransferInvariant => TransferOpens /\ PartialTransferRefused
<1> SUFFICES ASSUME TransferInvariant PROVE TransferOpens /\ PartialTransferRefused
  OBVIOUS
<1>1. ASSUME replaced = {} PROVE OpenCarriers(shares) = target
  <2>1. Seal(target) = [lane |-> JoinedLane(shares), proof |-> JoinedProof(shares)]
    BY <1>1 DEF TransferInvariant, Seal
  <2> QED
    BY <2>1, OpenJoined, SealOpens DEF TransferInvariant
<1>2. ASSUME replaced # {} PROVE OpenCarriers(shares) = Refused
  BY <1>2, OpenJoined, HalfReplacedIsRefused, ZenonT(40) DEF TransferInvariant
<1> QED
  BY <1>1, <1>2 DEF TransferOpens, PartialTransferRefused

LEMMA TransferStep == TransferInvariant /\ [TransferNext]_transferVars => TransferInvariant'
<1> SUFFICES ASSUME TransferInvariant, [TransferNext]_transferVars PROVE TransferInvariant'
  OBVIOUS
<1>0. ASSUME Opens
      PROVE  /\ JoinedLane(shares) = Seal(target).lane
             /\ JoinedProof(shares) = Seal(target).proof
  BY <1>0, InvariantOpens DEF Opens, PartialTransferRefused, TransferInvariant
<1>1. CASE Transfer
  BY <1>1, SharesJoin DEF Transfer, TransferInvariant
<1>2. CASE ReplaceShare
  <2>1. PICK c \in ContinuationCarriers, word \in Word :
            /\ word # shares[c]
            /\ shares' = [shares EXCEPT ![c] = word]
            /\ replaced' = {c}
    BY <1>2 DEF ReplaceShare
  <2>2. /\ JoinedLane(shares) = Seal(target).lane
        /\ JoinedProof(shares) = Seal(target).proof
        /\ target' = target
    BY <1>0, <1>2 DEF ReplaceShare
  <2>3. /\ shares' \in [ContinuationCarriers -> Word]
        /\ shares'[c] = word
        /\ \A d \in ContinuationCarriers : shares[d] \in Word /\ (d # c => shares'[d] = shares[d])
    BY <2>1 DEF TransferInvariant
  <2>4. CASE c \in LaneCarriers
    <3>1. JoinedProof(shares') = JoinedProof(shares)
      BY <2>3, <2>4, CarrierNumbers DEF JoinedProof
    <3>2. JoinedLane(shares') # JoinedLane(shares)
      BY <2>1, <2>3, <2>4, CarrierNumbers, JoinIsInjective DEF JoinedLane
    <3> QED
      BY <2>1, <2>2, <2>3, <3>1, <3>2 DEF TransferInvariant, JoinedLane, JoinedProof
  <2>5. CASE c \in ProofCarriers
    <3>1. JoinedLane(shares') = JoinedLane(shares)
      BY <2>3, <2>5, CarrierNumbers DEF JoinedLane
    <3>2. JoinedProof(shares') # JoinedProof(shares)
      BY <2>1, <2>3, <2>5, CarrierNumbers, JoinIsInjective DEF JoinedProof
    <3> QED
      BY <2>1, <2>2, <2>3, <3>1, <3>2 DEF TransferInvariant, JoinedLane, JoinedProof
  <2> QED
    BY <2>4, <2>5, CarrierNumbers
<1>3. CASE ReplaceGroup
  <2>1. PICK offset \in Offset, laneBlind \in Blinds, proofBlind \in Blinds,
             group \in {LaneCarriers, ProofCarriers} :
            /\ offset # target
            /\ shares' = [c \in ContinuationCarriers |->
                             IF c \in group
                             THEN SealedShares(offset, laneBlind, proofBlind)[c]
                             ELSE shares[c]]
            /\ replaced' = group
    BY <1>3 DEF ReplaceGroup
  <2> DEFINE others == SealedShares(offset, laneBlind, proofBlind)
  <2>2. /\ JoinedLane(shares) = Seal(target).lane
        /\ JoinedProof(shares) = Seal(target).proof
        /\ target' = target
    BY <1>0, <1>3 DEF ReplaceGroup
  <2>3. /\ others \in [ContinuationCarriers -> Word]
        /\ JoinedLane(others) = Seal(offset).lane
        /\ JoinedProof(others) = Seal(offset).proof
    BY SharesJoin
  <2>4. /\ Seal(offset).lane # Seal(target).lane
        /\ Seal(offset).proof # Seal(target).proof
    BY <2>1, LaneIdentifies, ProofIdentifies DEF TransferInvariant
  <2> HIDE DEF others
  <2>5. shares' \in [ContinuationCarriers -> Word]
    BY <2>1, <2>3 DEF TransferInvariant, others
  <2>6. CASE group = LaneCarriers
    <3>1. JoinedLane(shares') = JoinedLane(others)
      BY <2>1, <2>6, CarrierNumbers DEF JoinedLane, others
    <3>2. JoinedProof(shares') = JoinedProof(shares)
      BY <2>1, <2>6, CarrierNumbers DEF JoinedProof
    <3>3. replaced' # {}
      BY <2>1, CarrierNumbers
    <3> QED
      BY <2>2, <2>3, <2>4, <2>5, <3>1, <3>2, <3>3 DEF TransferInvariant, JoinedLane, JoinedProof
  <2>7. CASE group = ProofCarriers
    <3>1. JoinedProof(shares') = JoinedProof(others)
      BY <2>1, <2>7, CarrierNumbers DEF JoinedProof, others
    <3>2. JoinedLane(shares') = JoinedLane(shares)
      BY <2>1, <2>7, CarrierNumbers DEF JoinedLane
    <3>3. replaced' # {}
      BY <2>1, CarrierNumbers
    <3> QED
      BY <2>2, <2>3, <2>4, <2>5, <3>1, <3>2, <3>3 DEF TransferInvariant, JoinedLane, JoinedProof
  <2> QED
    BY <2>1, <2>6, <2>7
<1>4. CASE UNCHANGED transferVars
  BY <1>4 DEF transferVars, TransferInvariant, JoinedLane, JoinedProof
<1> QED
  BY <1>1, <1>2, <1>3, <1>4 DEF TransferNext

LEMMA TransferInvariantHolds == TransferSpec => []TransferInvariant
<1>1. TransferInit => TransferInvariant
  BY SharesJoin DEF TransferInit, TransferInvariant
<1> QED
  BY <1>1, TransferStep, PTL DEF TransferSpec

\* A complete transfer opens to its target, for every profile and all blinding
\* shares.
THEOREM TransfersOpen == TransferSpec => []TransferOpens
<1>1. TransferInvariant => TransferOpens
  BY InvariantOpens
<1> QED
  BY <1>1, TransferInvariantHolds, PTL

\* Carriers replaced in part are refused, for every profile and whatever the
\* replacement: nothing here depends on the finaliser beyond its being one to
\* one.
THEOREM PartialTransfersRefused == TransferSpec => []PartialTransferRefused
<1>1. TransferInvariant => PartialTransferRefused
  BY InvariantOpens
<1> QED
  BY <1>1, TransferInvariantHolds, PTL
=============================================================================
