------------------------------ MODULE Progress ------------------------------
(***************************************************************************)
(* Overlapping runs of IdempotentTransformer, with a record of which runs  *)
(* a fault has hit, so that it can be said what becomes of the others.     *)
(***************************************************************************)
EXTENDS MCIdempotentTransformer

VARIABLE hit  \* history: runs whose process, call or answer a fault has ended

Hits(w) ==
  faults' # faults /\ (pc'[w] # pc[w] \/ at'[w] # at[w] \/ reply'[w] # reply[w])

TracedInit == SystemInit /\ hit = {}

TracedNext == SystemNext /\ hit' = hit \cup {w \in Worker : Hits(w)}

TracedSpec == TracedInit /\ [][TracedNext]_<<systemVars, hit>> /\ Fairness

\* Every run that starts comes to an end: a wait for a lease, the loop that
\* repeats a checkpoint and the retry of a missing token are all left.  And it
\* ends with the workflow completed, unless a fault hits it or a later run
\* takes its place, whatever happens to the other runs: a lease that a crashed
\* one has left is waited out, a result that one has saved is taken over.
EveryRunEnds ==
  \A w \in Worker :
    pc[w] = "starting" ~>
      /\ ~Alive(w)
      /\ \/ pc[w] = "completed"
         \/ w \in hit
         \/ \E u \in Worker : order[u] > order[w]
=============================================================================
