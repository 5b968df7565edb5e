----------------------------- MODULE AtomicCalls -----------------------------
(***************************************************************************)
(* The server with a snapshot of the stores for each call, taken when the  *)
(* call is accepted and dropped when anything but the call's own handler   *)
(* changes them, or a fault strikes.  A call answered while it still has   *)
(* its snapshot has had the server to itself.                              *)
(***************************************************************************)
EXTENDS Server, Rpc

VARIABLE snapshot  \* history: the stores and UUIDs left at acceptance, or None

Stores ==
  [workflow |-> workflow, fencingToken |-> fencingToken,
   checkpoints |-> checkpoints, leases |-> leases]

Accepted(c) == at[c] = Idle /\ at'[c] # Idle
OwnStep(c) == at'[c] # at[c] \/ todo'[c] # todo[c]

TracedInit == Init /\ snapshot = [c \in Call |-> None]

TracedNext ==
  /\ Next
  /\ snapshot' =
       [c \in Call |->
          IF Accepted(c) THEN [stores |-> Stores, uuids |-> Uuid \ drawn]
          ELSE IF faults' = faults /\ (OwnStep(c) \/ UNCHANGED stores)
          THEN snapshot[c]
          ELSE None]

TracedSpec == TracedInit /\ [][TracedNext]_<<vars, snapshot>>

\* A call that nothing interferes with acts as one atomic step: its answer and
\* the stores it leaves, over all the awaits of its handler and whatever the
\* order of its joined statements, are an outcome of its RPC.
CallsAtomic ==
  [][\A c \in Call :
       at[c] # Idle /\ at'[c] = Idle /\ snapshot'[c] # None =>
         [stores |-> Stores', reply |-> reply'[c]] \in
           Outcomes(snapshot[c].stores, arg[c], now, snapshot[c].uuids)
    ]_<<vars, snapshot>>
=============================================================================
