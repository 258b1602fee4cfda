--------------------------- MODULE MCScorePipeline ---------------------------
(* Finite instances of ScorePipeline for TLC.                              *)
EXTENDS ScorePipeline, TLC

Symmetric == Permutations(Slot) \cup Permutations(Job)
=============================================================================
