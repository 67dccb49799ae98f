------------------------- MODULE ContinuationTransfer -------------------------
(***************************************************************************)
(* The six continuation carriers as islands hand control to one another.   *)
(* A complete transfer replaces all six shares with those of a sealed      *)
(* offset, under blinding shares the compiler picks afresh for each site.  *)
(* The other two actions leave the carriers half replaced: one share holds *)
(* a word of its own, or one group comes from another offset's seal.       *)
(* scan_island and execute_island insist on six replacements, but not on   *)
(* where the values come from; open has to notice.                         *)
(***************************************************************************)
EXTENDS PhysicalCode

CONSTANT Blinds  \* the pairs of words the first two shares may be

ASSUME BlindsAssumption == \A blind \in Blinds : blind[1] \in Word /\ blind[2] \in Word

VARIABLES
    shares,   \* the six continuation carriers
    target,   \* the offset the last complete transfer sealed
    replaced  \* the carriers that no longer stem from that transfer

transferVars == <<shares, target, replaced>>

LaneCarriers == kContinuationLaneCarrier .. (kContinuationLaneCarrier + 2)
ProofCarriers == kContinuationProofCarrier .. (kContinuationProofCarrier + 2)

\* The three shares of a word, the third making up for the blinding ones.
Split(word, blind) == <<blind[1], blind[2], Xor(Xor(word, blind[1]), blind[2])>>

SealedShares(offset, laneBlind, proofBlind) ==
    [c \in ContinuationCarriers |->
        IF c \in LaneCarriers
        THEN Split(Seal(offset).lane, laneBlind)[c - kContinuationLaneCarrier + 1]
        ELSE Split(Seal(offset).proof, proofBlind)[c - kContinuationProofCarrier + 1]]

TransferInit ==
    /\ \E offset \in Offset, laneBlind, proofBlind \in Blinds :
           /\ shares = SealedShares(offset, laneBlind, proofBlind)
           /\ target = offset
    /\ replaced = {}

\* An island runs, and writes the carriers, only when they open.
Opens == OpenCarriers(shares) # Refused

Transfer ==
    /\ Opens
    /\ \E offset \in Offset, laneBlind, proofBlind \in Blinds :
           /\ shares' = SealedShares(offset, laneBlind, proofBlind)
           /\ target' = offset
    /\ replaced' = {}

\* One carrier of the six is given another word.
ReplaceShare ==
    /\ Opens
    /\ \E c \in ContinuationCarriers, word \in Word :
           /\ word # shares[c]
           /\ shares' = [shares EXCEPT ![c] = word]
           /\ replaced' = {c}
    /\ UNCHANGED target

\* The lane, or the proof, of another offset's seal is put in place.
ReplaceGroup ==
    /\ Opens
    /\ \E offset \in Offset, laneBlind, proofBlind \in Blinds,
          group \in {LaneCarriers, ProofCarriers} :
           /\ offset # target
           /\ shares' = [c \in ContinuationCarriers |->
                            IF c \in group
                            THEN SealedShares(offset, laneBlind, proofBlind)[c]
                            ELSE shares[c]]
           /\ replaced' = group
    /\ UNCHANGED target

TransferNext == Transfer \/ ReplaceShare \/ ReplaceGroup

TransferSpec == TransferInit /\ [][TransferNext]_transferVars

-----------------------------------------------------------------------------
\* A complete transfer opens to the offset it was sealed for, whatever the
\* blinding shares (seal, split_value, current_continuation and open agree).
TransferOpens == replaced = {} => OpenCarriers(shares) = target

\* Carriers replaced in part never open, not to the offset they were sealed for
\* and not to another: one share out of place, or the lane of one seal beside
\* the proof of another, is refused (open's check that sealing the decoded
\* offset reproduces both words).
PartialTransferRefused == replaced # {} => OpenCarriers(shares) = Refused
=============================================================================
