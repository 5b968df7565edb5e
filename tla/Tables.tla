------------------------------- MODULE Tables -------------------------------
(***************************************************************************)
(* What the server stores about one workflow id, and what each SQL         *)
(* statement and cache call of server/src/repositories does to one row.    *)
(*                                                                         *)
(* Every table, cache key and lock key is keyed by the workflow id, and no *)
(* statement relates two ids, so one id is modelled: a row of Workflows,   *)
(* a row of WorkflowFencingTokens, one Checkpoints row and one cache entry *)
(* per position.  Operators map the old row to the new one; a statement    *)
(* is atomic (one Raft log entry).  Time is in milliseconds, scaled.       *)
(***************************************************************************)
EXTENDS Integers

CONSTANTS
  Position,     \* positions of a workflow's tasks
  Key,          \* idempotency keys, chosen by the caller or drawn as UUIDs
  Value,        \* serialized task results
  None          \* SQL NULL, and Option::None

ASSUME PositionAssumption == Position \subseteq Nat
ASSUME NoneAssumption == None \notin Nat /\ None \notin Key /\ None \notin Value

-----------------------------------------------------------------------------
(* Rows.  Columns nothing reads back (name, created_at, completed_at) are  *)
(* left out.                                                               *)

Running == "running"
Completed == "completed"

WorkflowRow == [status : {Running, Completed}, expire_at : Nat \cup {None}]
CheckpointRow == [idempotency_key : Key, value : Value \cup {None}]
LeaseEntry == [created_at : Nat, lease_timeout : Nat]

-----------------------------------------------------------------------------
(* Workflows                                                               *)

\* Slip: the conflict replaces the row.
InsertWorkflowAnew(row) == [status |-> Running, expire_at |-> None]

\* INSERT ... ON CONFLICT (id) DO UPDATE SET name: an existing row keeps its
\* status and expire_at.
InsertWorkflow(row) ==
  IF row = None THEN [status |-> Running, expire_at |-> None] ELSE row

\* UPDATE ... WHERE id = $4: no row, no effect.
CompleteWorkflow(row, expireAt) ==
  IF row = None THEN None ELSE [status |-> Completed, expire_at |-> expireAt]

\* Slip: a row without an expiry counts as expired.
ExpiredUnset(row, timestamp) ==
  row # None /\ (row.expire_at # None => row.expire_at < timestamp)

\* WHERE expire_at < $1 AND status = $2; a NULL expire_at compares as false.
Expired(row, timestamp) ==
  /\ row # None
  /\ row.status = Completed
  /\ row.expire_at # None
  /\ row.expire_at < timestamp

-----------------------------------------------------------------------------
(* WorkflowFencingTokens                                                   *)

\* Slip: the column is left out of the INSERT, and NULL + 1 is NULL.
IncrementTokenNull(token) == IF token = None THEN None ELSE token + 1

\* INSERT 1 ON CONFLICT DO UPDATE SET fencing_token + 1 RETURNING.
IncrementToken(token) == IF token = None THEN 1 ELSE token + 1

-----------------------------------------------------------------------------
(* Checkpoints                                                             *)

\* Slips: the conflict replaces the row; the value is left out of the INSERT.
InsertCheckpointReplaces(row, key, value) ==
  [idempotency_key |-> key, value |-> value]
InsertCheckpointNoValue(row, key, value) ==
  IF row = None THEN [idempotency_key |-> key, value |-> None] ELSE row

\* INSERT ... ON CONFLICT (workflow_id, position) DO UPDATE SET created_at:
\* an existing row keeps its key and its value, NULL included.
InsertCheckpoint(row, key, value) ==
  IF row = None THEN [idempotency_key |-> key, value |-> value] ELSE row

-----------------------------------------------------------------------------
(* The lease cache                                                         *)

CONSTANTS
  Second,         \* milliseconds in a second
  MinimumTtl      \* minimum_cache_ttl, in seconds

ASSUME TtlAssumption == Second \in Nat \ {0} /\ MinimumTtl \in Nat \ {0}

\* Milliseconds left of a lease at time t; negative once it is over.
RemainingLease(entry, t) == entry.created_at + entry.lease_timeout - t

\* Slip: the seconds are put as they are, for milliseconds.
CacheTtlUnscaled(leaseTimeout) ==
  LET seconds == leaseTimeout \div Second
  IN  IF seconds > MinimumTtl THEN seconds ELSE MinimumTtl

\* The TTL the entry is put with, in milliseconds: whole seconds, rounded
\* down, and at least the minimum.
CacheTtl(leaseTimeout) ==
  LET seconds == leaseTimeout \div Second
  IN  (IF seconds > MinimumTtl THEN seconds ELSE MinimumTtl) * Second

\* The cache may drop the entry from this time on.
Evictable(entry, t) == entry.created_at + CacheTtl(entry.lease_timeout) <= t
=============================================================================
