--------------------------------- MODULE Rpc ---------------------------------
(***************************************************************************)
(* Each RPC of the server as one atomic step on what is stored about one   *)
(* workflow id: the set of outcomes a request may have, an outcome being   *)
(* the stores after it and the answer.  This is what a caller sees of a    *)
(* call that nothing interferes with; AtomicCalls compares it with the     *)
(* handlers of Server, which take a step per statement.                    *)
(***************************************************************************)
EXTENDS Tables

NewStores ==
  [workflow |-> None, fencingToken |-> None,
   checkpoints |-> [p \in Position |-> None],
   leases |-> [p \in Position |-> None]]

\* The stores db stay as they are, or become new.
Outcome(new, reply) == [stores |-> new, reply |-> reply]
Refusal(db, code) == Outcome(db, [kind |-> "error", code |-> code])

\* The workflow is given its next token; the position p is leased no more.
Counted(db) == [db EXCEPT !.fencingToken = IncrementToken(@)]
Freed(db, p) == [db EXCEPT !.leases[p] = None]

\* workflow_start; the insertion of the row may fail unnoticed.
StartRpc(db) ==
  LET reply == [kind |-> "token", fencing_token |-> Counted(db).fencingToken]
  IN  {Outcome([Counted(db) EXCEPT !.workflow = row], reply) :
         row \in {InsertWorkflow(db.workflow), db.workflow}}

\* The last statement of a lease_checkpoint that grants the lease at time t,
\* and of a checkpoint that saves the result.
Granting(db, r, t) ==
  Outcome([db EXCEPT !.leases[r.position] =
             [created_at |-> t, lease_timeout |-> r.lease_timeout]],
          [kind |-> "granted"])

Saving(db, r, abort) ==
  Outcome([db EXCEPT !.checkpoints[r.position] =
             InsertCheckpoint(@, r.idempotency_key, r.value)],
          [kind |-> "saved", abort |-> abort])

\* Slip: the key of the row is not compared with the request's.
LeaseRpcAnyKey(db, r, t) ==
  LET row == db.checkpoints[r.position]
  IN  IF row = None THEN {Granting(db, r, t)}
      ELSE {Outcome(db, [kind |-> "value", position |-> r.position,
                         value |-> row.value])}

\* lease_checkpoint at time t.  A row decides first, then a lease that runs,
\* then the token.
LeaseRpc(db, r, t) ==
  LET row == db.checkpoints[r.position]
      entry == db.leases[r.position]
      left == RemainingLease(entry, t)
      token == db.fencingToken
  IN  {IF row # None /\ row.idempotency_key # r.idempotency_key
       THEN Refusal(db, "non_deterministic_checkpoint_found")
       ELSE IF row # None /\ row.value = None
       THEN Refusal(db, "checkpoint_value_not_found")
       ELSE IF row # None
       THEN Outcome(db, [kind |-> "value", position |-> r.position,
                         value |-> row.value])
       ELSE IF entry # None /\ left > 0
       THEN Outcome(db, [kind |-> "wait", remaining |-> left])
       ELSE IF token = None THEN Refusal(db, "fencing_token_not_found")
       ELSE IF token > r.fencing_token
       THEN Refusal(db, "fencing_token_expired")
       ELSE IF token < r.fencing_token THEN Refusal(db, "unexpected state")
       ELSE Granting(db, r, t)}

\* How lease_checkpoint goes on when it has found no row, whatever row there
\* is by now; and the answers by which it ends without a lease.
LeaseRpcWithoutRow(db, r, t) ==
  LeaseRpc([db EXCEPT !.checkpoints[r.position] = None], r, t)

LeaseRpcDenies(db, r, t) ==
  {Outcome(db, o.reply) :
     o \in {p \in LeaseRpcWithoutRow(db, r, t) : p.reply.kind # "granted"}}

\* checkpoint at time t: the lease goes, whoever holds it, even if the result
\* is refused.
CheckpointRpc(db, r, t) ==
  LET entry == db.leases[r.position]
      expired == entry # None /\ RemainingLease(entry, t) <= 0
      token == db.fencingToken
      freed == Freed(db, r.position)
  IN  {CASE token = None -> Refusal(freed, "fencing_token_not_found")
         [] token # None /\ expired /\ token > r.fencing_token ->
              Refusal(freed, "fencing_token_expired")
         [] OTHER -> Saving(freed, r, token > r.fencing_token)}

\* release_checkpoint
ReleaseRpc(db, r) ==
  {Outcome(Freed(db, r.position), [kind |-> "released"])}

\* generate_idempotency_key, with the keys that may be drawn.
KeyRpc(db, r, keys) ==
  LET row == db.checkpoints[r.position]
      token == db.fencingToken
      told(key) == [kind |-> "key", position |-> r.position,
                    idempotency_key |-> key]
  IN  CASE row # None -> {Outcome(db, told(row.idempotency_key))}
        [] row = None /\ token = None ->
             {Refusal(db, "fencing_token_not_found")}
        [] row = None /\ token # None /\ token > r.fencing_token ->
             {Refusal(db, "fencing_token_expired")}
        [] OTHER ->
             {Outcome([db EXCEPT !.checkpoints[r.position] =
                         InsertCheckpoint(@, key, None)], told(key)) :
                key \in keys}

\* complete_workflow at time t; an older token is let through.
CompleteRpc(db, r, t) ==
  {CASE db.fencingToken = None -> Refusal(db, "fencing_token_not_found")
     [] db.fencingToken # None /\ db.fencingToken < r.fencing_token ->
          Refusal(db, "fencing_token_expired")
     [] OTHER ->
          Outcome([db EXCEPT !.workflow =
                     CompleteWorkflow(@, t + r.expire_after)],
                  [kind |-> "completed"])}

\* workflow_status; it changes nothing.
StatusRpc(db) ==
  IF db.workflow = None THEN "workflow_not_found" ELSE db.workflow.status

\* What a request to the stores db may lead to at time t.
Outcomes(db, r, t, keys) ==
  CASE r.rpc = "start" -> StartRpc(db)
    [] r.rpc = "lease" -> LeaseRpc(db, r, t)
    [] r.rpc = "checkpoint" -> CheckpointRpc(db, r, t)
    [] r.rpc = "release" -> ReleaseRpc(db, r)
    [] r.rpc = "key" -> KeyRpc(db, r, keys)
    [] r.rpc = "complete" -> CompleteRpc(db, r, t)
=============================================================================
