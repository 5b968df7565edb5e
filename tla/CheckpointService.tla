------------------------- MODULE CheckpointService -------------------------
(***************************************************************************)
(* server/src/services/checkpoint_service.rs: leasing a position, saving   *)
(* its result, releasing the lease, and the durable idempotency key.       *)
(***************************************************************************)
EXTENDS ServerState

\* Slip: a lease counts as held as long as its entry is there.
HeldEver(c) == lease[c] # None

\* A lease read earlier still runs at the time of the decision.
Held(c) == lease[c] # None /\ RemainingLease(lease[c], now) > 0

\* Slip: the comparison the wrong way round.
StaleInverted(c) == token[c] < arg[c].fencing_token

\* The call's token is older than the stored one it has read.
Stale(c) == token[c] > arg[c].fencing_token

\* Slip: positions counted from one by the caller and from zero by the query.
StoredRowNext(c) ==
  LET p == arg[c].position + 1
  IN  IF p \in Position THEN checkpoints[p] ELSE None

\* get_checkpoint
StoredRow(c) == checkpoints[arg[c].position]

-----------------------------------------------------------------------------
(* handle_lease_checkpoint                                                 *)

\* The checkpoint is read first.  A row is answered from; without one the
\* handler goes on.  It acquires the lock of the position next, and `let _`
\* drops the guard in that statement: nothing after it is under the lock, so
\* the lock orders nothing and is left out.
LeaseGetCheckpoint(c) ==
  /\ at[c] = "lease_get"
  /\ LET row == StoredRow(c)
     IN \/ /\ row = None
           /\ at' = [at EXCEPT ![c] = "lease_read"]
           /\ todo' = [todo EXCEPT ![c] = {"lease", "token"}]
           /\ UNCHANGED <<arg, reply, token, lease, expireAt>>
        \/ /\ row # None
           /\ row.idempotency_key # arg[c].idempotency_key
           /\ Answer(c, Error("non_deterministic_checkpoint_found"))
        \/ /\ row # None
           /\ row.idempotency_key = arg[c].idempotency_key
           /\ row.value = None
           /\ Answer(c, Error("checkpoint_value_not_found"))
        \/ /\ row # None
           /\ row.idempotency_key = arg[c].idempotency_key
           /\ row.value # None
           /\ Answer(c, [kind |-> "value", position |-> arg[c].position,
                         value |-> row.value])
  /\ UNCHANGED <<stores, sweep, bookkeeping>>

LeaseReadLease(c) ==
  /\ at[c] = "lease_read" /\ "lease" \in todo[c]
  /\ lease' = [lease EXCEPT ![c] = leases[arg[c].position]]
  /\ Joined(c, "lease")
  /\ UNCHANGED <<stores, at, arg, reply, token, expireAt, sweep, bookkeeping>>

LeaseReadToken(c) ==
  /\ at[c] = "lease_read" /\ "token" \in todo[c]
  /\ token' = [token EXCEPT ![c] = fencingToken]
  /\ Joined(c, "token")
  /\ UNCHANGED <<stores, at, arg, reply, lease, expireAt, sweep, bookkeeping>>

\* Slips: the lease of another worker, or the token, is not looked at.
MayLeaseHeld(c) == token[c] # None /\ token[c] = arg[c].fencing_token
MayLeaseAnyToken(c) == ~Held(c) /\ token[c] # None

\* Only the worker with the newest token is granted the lease.
MayLease(c) ==
  /\ ~Held(c)
  /\ token[c] # None
  /\ ~Stale(c)
  /\ token[c] = arg[c].fencing_token

LeaseDecide(c) ==
  /\ at[c] = "lease_read" /\ todo[c] = {}
  /\ \/ /\ Held(c)
        /\ Answer(c, [kind |-> "wait",
                      remaining |-> RemainingLease(lease[c], now)])
     \/ /\ ~Held(c) /\ token[c] = None
        /\ Answer(c, Error("fencing_token_not_found"))
     \/ /\ ~Held(c) /\ token[c] # None /\ Stale(c)
        /\ Answer(c, Error("fencing_token_expired"))
     \/ /\ MayLease(c)
        /\ at' = [at EXCEPT ![c] = "lease_put"]
        /\ lease' = [lease EXCEPT ![c] = [created_at |-> now,
                                lease_timeout |-> arg[c].lease_timeout]]
        /\ UNCHANGED <<arg, reply, todo, token, expireAt>>
     \/ /\ ~Held(c) /\ token[c] # None /\ ~Stale(c) /\ ~MayLease(c)
        /\ Answer(c, Error("unexpected state"))
  /\ UNCHANGED <<stores, sweep, bookkeeping>>

LeasePut(c) ==
  /\ at[c] = "lease_put"
  /\ leases' = [leases EXCEPT ![arg[c].position] = lease[c]]
  /\ Answer(c, Done("granted"))
  /\ UNCHANGED <<workflow, fencingToken, checkpoints, now, sweep, bookkeeping>>

-----------------------------------------------------------------------------
(* handle_checkpoint                                                       *)

CheckpointReadToken(c) ==
  /\ at[c] = "checkpoint_read" /\ "token" \in todo[c]
  /\ token' = [token EXCEPT ![c] = fencingToken]
  /\ Joined(c, "token")
  /\ UNCHANGED <<stores, at, arg, reply, lease, expireAt, sweep, bookkeeping>>

\* remove_leased_checkpoint reads the lease, whoever holds it ...
CheckpointGetLease(c) ==
  /\ at[c] = "checkpoint_read" /\ "get" \in todo[c]
  /\ lease' = [lease EXCEPT ![c] = leases[arg[c].position]]
  /\ todo' = [todo EXCEPT ![c] = (@ \ {"get"}) \cup {"delete"}]
  /\ UNCHANGED <<stores, at, arg, reply, token, expireAt, sweep, bookkeeping>>

\* ... and then deletes whatever lease is there.
CheckpointDeleteLease(c) ==
  /\ at[c] = "checkpoint_read" /\ "delete" \in todo[c]
  /\ leases' = [leases EXCEPT ![arg[c].position] = None]
  /\ Joined(c, "delete")
  /\ UNCHANGED <<workflow, fencingToken, checkpoints, now, at, arg, reply,
                 token, lease, expireAt, sweep, bookkeeping>>

\* A stale result is refused only if an expired lease was found.
CheckpointDecide(c) ==
  /\ at[c] = "checkpoint_read" /\ todo[c] = {}
  /\ LET expiredLease == lease[c] # None /\ ~Held(c)
     IN \/ /\ token[c] = None
           /\ Answer(c, Error("fencing_token_not_found"))
        \/ /\ token[c] # None /\ expiredLease /\ Stale(c)
           /\ Answer(c, Error("fencing_token_expired"))
        \/ /\ token[c] # None /\ ~(expiredLease /\ Stale(c))
           /\ at' = [at EXCEPT ![c] = "checkpoint_insert"]
           /\ UNCHANGED <<arg, reply, locals>>
  /\ UNCHANGED <<stores, sweep, bookkeeping>>

\* Slip: abort is set for an expired lease instead of an expired token.
CheckpointInsertLate(c) ==
  /\ at[c] = "checkpoint_insert"
  /\ checkpoints' =
       [checkpoints EXCEPT ![arg[c].position] =
          InsertCheckpoint(@, arg[c].idempotency_key, arg[c].value)]
  /\ Answer(c, [kind |-> "saved", abort |-> lease[c] # None /\ ~Held(c)])
  /\ UNCHANGED <<workflow, fencingToken, leases, now, sweep, bookkeeping>>

\* An existing row wins; the caller is not told.
CheckpointInsert(c) ==
  /\ at[c] = "checkpoint_insert"
  /\ checkpoints' =
       [checkpoints EXCEPT ![arg[c].position] =
          InsertCheckpoint(@, arg[c].idempotency_key, arg[c].value)]
  /\ Answer(c, [kind |-> "saved", abort |-> Stale(c)])
  /\ UNCHANGED <<workflow, fencingToken, leases, now, sweep, bookkeeping>>

-----------------------------------------------------------------------------
(* release_checkpoint: get and delete; the value got is not used.          *)

ReleaseDelete(c) ==
  /\ at[c] = "release_delete"
  /\ leases' = [leases EXCEPT ![arg[c].position] = None]
  /\ Answer(c, Done("released"))
  /\ UNCHANGED <<workflow, fencingToken, checkpoints, now, sweep, bookkeeping>>

-----------------------------------------------------------------------------
(* create_durable_idempotency_key.  Its lock, too, is released at once.    *)

KeyAnswer(p, key) ==
  [kind |-> "key", position |-> p, idempotency_key |-> key]

KeyGet(c) ==
  /\ at[c] = "key_get"
  /\ LET row == StoredRow(c)
     IN \/ /\ row # None
           /\ Answer(c, KeyAnswer(arg[c].position, row.idempotency_key))
        \/ /\ row = None
           /\ at' = [at EXCEPT ![c] = "key_read"]
           /\ UNCHANGED <<arg, reply, locals>>
  /\ UNCHANGED <<stores, sweep, bookkeeping>>

KeyRefused(c) == fencingToken > arg[c].fencing_token

\* No await separates the read from the checks.
KeyReadToken(c) ==
  /\ at[c] = "key_read"
  /\ \/ /\ fencingToken = None
        /\ Answer(c, Error("fencing_token_not_found"))
     \/ /\ fencingToken # None /\ KeyRefused(c)
        /\ Answer(c, Error("fencing_token_expired"))
     \/ /\ fencingToken # None /\ ~KeyRefused(c)
        /\ at' = [at EXCEPT ![c] = "key_insert"]
        /\ token' = [token EXCEPT ![c] = fencingToken]
        /\ UNCHANGED <<arg, reply, todo, lease, expireAt>>
  /\ UNCHANGED <<stores, sweep, bookkeeping>>

\* Inserts a row without a value and returns the key it drew, whatever key
\* the row then holds.
KeyInsert(c) ==
  /\ at[c] = "key_insert"
  /\ \E key \in Uuid \ drawn :
       /\ checkpoints' = [checkpoints EXCEPT ![arg[c].position] =
                            InsertCheckpoint(@, key, None)]
       /\ Answer(c, KeyAnswer(arg[c].position, key))
       /\ drawn' = drawn \cup {key}
  /\ UNCHANGED <<workflow, fencingToken, leases, now, sweep, history, faults>>

-----------------------------------------------------------------------------
CheckpointServiceStep(c) ==
  \/ LeaseGetCheckpoint(c) \/ LeaseReadLease(c) \/ LeaseReadToken(c)
  \/ LeaseDecide(c) \/ LeasePut(c)
  \/ CheckpointReadToken(c) \/ CheckpointGetLease(c) \/ CheckpointDeleteLease(c)
  \/ CheckpointDecide(c) \/ CheckpointInsert(c)
  \/ ReleaseDelete(c)
  \/ KeyGet(c) \/ KeyReadToken(c) \/ KeyInsert(c)
=============================================================================
