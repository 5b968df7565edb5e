---------------------- MODULE MCIdempotentTransformer ----------------------
(* IdempotentTransformer on small instances.                                *)
EXTENDS IdempotentTransformer, TLC

CONSTANTS k1

OneKey == [p \in Position |-> k1]

Symmetry == Permutations(Worker)
=============================================================================
