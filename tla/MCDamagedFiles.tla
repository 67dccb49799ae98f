---------------------------- MODULE MCDamagedFiles ----------------------------
(***************************************************************************)
(* Edits at the low bytes of every header field (TLC's integers would not  *)
(* hold the high byte of a 32-bit field), at a reserved byte and in every  *)
(* section; cuts inside the header, at its end and inside the sections.    *)
(***************************************************************************)
EXTENDS DamagedFiles, FormatSamples

MCSampleModules == {ModuleFor(seed) : seed \in Seeds}
=============================================================================
