----------------------------- MODULE MCArtifacts -----------------------------
(***************************************************************************)
(* Two builds whose modules are equally long, as those of one program with *)
(* two seeds are, over nothing or over the files of a longer older module. *)
(***************************************************************************)
EXTENDS Artifacts, FormatSamples, TLC

CONSTANTS b1, b2

MCSeedOf == b1 :> Word8(1, 0) @@ b2 :> Word8(1, 5)
MCOldSeed == Word8(2, 0)
=============================================================================
