------------------------- MODULE MCOptimizePipeline -------------------------
(* Finite instances of OptimizePipeline for TLC.                           *)
EXTENDS OptimizePipeline, TLC

CONSTANTS r1, r2, q1, q2

\* All requests name the same score row.
OneRow == [q \in Job |-> r1]

\* Every request names a row of its own.
OwnRow == [q \in Job |-> IF q = q1 THEN r1 ELSE r2]

Symmetric == Permutations(Slot)
=============================================================================
