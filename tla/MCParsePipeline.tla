--------------------------- MODULE MCParsePipeline ---------------------------
(* Finite instances of ParsePipeline for TLC.                              *)
EXTENDS ParsePipeline, TLC

CONSTANT v1

\* Both confirmations name the same version.
OneVersion == [q \in Job |-> v1]

Symmetric == Permutations(Slot)
=============================================================================
