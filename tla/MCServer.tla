------------------------------ MODULE MCServer ------------------------------
(* Server on small instances.  One step of the clock stands for a second,   *)
(* for the minimum cache TTL and for a lease: a lease ends when its entry    *)
(* may be evicted.                                                           *)
EXTENDS Server, TLC

\* A call for a key or of complete has the server to itself, and a key that
\* the server draws is used by callers once it is drawn: so two calls may race
\* for a lease and its result after any history of all six RPCs.
Focus ==
  /\ \A c, d \in Call : at[c] \in KeyPoint \cup CompletePoint /\ d # c => at[d] = Idle
  /\ \A c \in Call : at[c] \in LeasePoint \cup CheckpointPoint =>
       arg[c].idempotency_key \notin Uuid \ drawn

Symmetry == Permutations(Call) \cup Permutations(Value)
=============================================================================
