--------------------------- MODULE MCRepeatedRuns ---------------------------
(* Any sequence of runs of machines made from the well-formed samples. *)
EXTENDS RepeatedRuns, MCMachine
=============================================================================
