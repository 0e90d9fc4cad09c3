------------------------------ MODULE MCBatch ------------------------------
(***************************************************************************)
(* The batch runner on the programs of MCSim, and on the counted loop     *)
(* started with other counts: 0 wraps around and runs 256 iterations.     *)
(***************************************************************************)
EXTENDS Batch, MCSim

LoopCounts == {0, 1, 5}

MCBatchScenarios ==
  MCScenarios \cup {[LoopProgram EXCEPT !.data = <<n>>] : n \in LoopCounts}
=============================================================================
