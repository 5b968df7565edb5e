---------------------------- MODULE ServerProofs ----------------------------
(***************************************************************************)
(* Theorems about Server, for every number of calls, cleanup jobs,         *)
(* positions, keys and values and every bound.                             *)
(***************************************************************************)
EXTENDS Server, TLAPS

-----------------------------------------------------------------------------
(* Type correctness                                                        *)

\* A request of any RPC leads to a frame with a request of that RPC.
LEMMA RequestOK ==
  ASSUME NEW T, T \subseteq Nat, NEW r \in Request(T)
  PROVE  /\ r \in Request(Nat)
         /\ Entry(r.rpc) \in Point \ {Idle}
         /\ FirstJoin(r.rpc) \in SUBSET Statement
         /\ Entry(r.rpc) \in LeasePoint => r \in LeaseRequest(Nat)
         /\ Entry(r.rpc) \in CheckpointPoint => r \in CheckpointRequest(Nat)
         /\ Entry(r.rpc) \in KeyPoint => r \in KeyRequest(Nat)
         /\ Entry(r.rpc) \in CompletePoint => r \in CompleteRequest(Nat)
         /\ Entry(r.rpc) = "release_delete" => r \in ReleaseRequest
         /\ Entry(r.rpc) = "start" => "token" \in FirstJoin(r.rpc)
         /\ Entry(r.rpc) \notin {"lease_put", "checkpoint_insert",
                                 "key_insert", "complete_update"}
<1> USE DEF Entry, FirstJoin, Point, Statement, Idle, LeasePoint,
            CheckpointPoint, KeyPoint, CompletePoint
<1>1. CASE r \in StartRequest
  BY <1>1 DEF StartRequest, Request
<1>2. CASE r \in CompleteRequest(T)
  BY <1>2 DEF CompleteRequest, Request
<1>3. CASE r \in LeaseRequest(T)
  BY <1>3 DEF LeaseRequest, Request
<1>4. CASE r \in CheckpointRequest(T)
  BY <1>4 DEF CheckpointRequest, Request
<1>5. CASE r \in ReleaseRequest
  BY <1>5 DEF ReleaseRequest, Request
<1>6. CASE r \in KeyRequest(T)
  BY <1>6 DEF KeyRequest, Request
<1>7. QED
  BY <1>1, <1>2, <1>3, <1>4, <1>5, <1>6 DEF Request

\* Answering a call leaves every frame in order, whatever the answer.
LEMMA AnswerOK ==
  ASSUME FramesOK, \A d \in Call : FrameOK(d),
         NEW c \in Call, NEW r \in Reply, Answer(c, r), UNCHANGED sweep
  PROVE  FramesOK' /\ \A d \in Call : FrameOK(d)'
<1>1. FramesOK'
  BY DEF FramesOK, Answer, Point, Idle
<1>2. ASSUME NEW d \in Call PROVE FrameOK(d)'
  <2>1. CASE d = c
    BY <2>1 DEF FramesOK, FrameOK, Answer, Idle, LeasePoint, CheckpointPoint,
                KeyPoint, CompletePoint
  <2>2. CASE d # c
    BY <2>2 DEF FramesOK, FrameOK, Answer
  <2>3. QED BY <2>1, <2>2
<1>3. QED BY <1>1, <1>2

\* Initially nothing is stored and no call is handled.
LEMMA InitTypeOK == Init => TypeOK
BY DEF Init, ServerInit, FramesInit, BookkeepingInit, TypeOK, StoresOK,
       FramesOK, BookkeepingOK, FrameOK, Point, Idle, LeasePoint,
       CheckpointPoint, KeyPoint, CompletePoint

\* Accepting a request, whether or not its token was ever given out.
LEMMA AcceptTypeOK ==
  ASSUME TypeOK, NEW c \in Call, NEW r \in Request(Nat), Accept(c, r),
         faults' \in Nat
  PROVE  TypeOK'
<1>1. StoresOK'
  BY DEF Accept, stores, TypeOK, StoresOK
<1>2. FramesOK'
  <2>1. Entry(r.rpc) \in Point /\ FirstJoin(r.rpc) \in SUBSET Statement
    BY RequestOK
  <2>2. QED BY <2>1 DEF Accept, TypeOK, FramesOK
<1>3. BookkeepingOK'
  BY DEF Accept, TypeOK, BookkeepingOK, StoresOK
<1>4. ASSUME NEW d \in Call PROVE FrameOK(d)'
  <2>1. CASE d = c
    <3>1. at'[c] = Entry(r.rpc) /\ arg'[c] = r /\ todo'[c] = FirstJoin(r.rpc)
      BY DEF Accept, TypeOK, FramesOK
    <3>2. QED BY <2>1, <3>1, RequestOK DEF FrameOK
  <2>2. CASE d # c
    BY <2>2 DEF Accept, TypeOK, FramesOK, FrameOK
  <2>3. QED BY <2>1, <2>2
<1>5. QED BY <1>1, <1>2, <1>3, <1>4 DEF TypeOK

\* Receiving one with a token that was given out.
LEMMA ReceiveTypeOK ==
  ASSUME TypeOK, NEW c \in Call, Receive(c)
  PROVE  TypeOK'
<1>1. PICK r \in Request(issued) : Accept(c, r)
  BY DEF Receive
<1>2. r \in Request(Nat)
  BY RequestOK DEF TypeOK, BookkeepingOK
<1>3. faults' \in Nat
  BY DEF Receive, TypeOK, BookkeepingOK
<1>4. QED BY <1>1, <1>2, <1>3, AcceptTypeOK

-----------------------------------------------------------------------------
(* The steps of the checkpoint service                                     *)

\* Reading the checkpoint, for a lease.
LEMMA LeaseGetCheckpointTypeOK ==
  ASSUME TypeOK, NEW c \in Call, LeaseGetCheckpoint(c)
  PROVE  TypeOK'
<1>1. StoresOK' /\ BookkeepingOK' /\ UNCHANGED sweep
  BY DEF LeaseGetCheckpoint, TypeOK, StoresOK, BookkeepingOK, stores,
         bookkeeping, history
<1>2. arg[c] \in LeaseRequest(Nat) /\ arg[c].position \in Position
  BY DEF LeaseGetCheckpoint, TypeOK, FrameOK, LeasePoint, LeaseRequest
<1>3. CASE \E r \in Reply : Answer(c, r)
  BY <1>1, <1>3, AnswerOK DEF TypeOK
<1>4. CASE /\ at' = [at EXCEPT ![c] = "lease_read"]
           /\ todo' = [todo EXCEPT ![c] = {"lease", "token"}]
           /\ UNCHANGED <<arg, reply, token, lease, expireAt>>
  <2>1. FramesOK'
    BY <1>1, <1>4 DEF TypeOK, FramesOK, Point, LeasePoint, Statement
  <2>2. ASSUME NEW d \in Call PROVE FrameOK(d)'
    BY <1>2, <1>4 DEF TypeOK, FramesOK, FrameOK, LeasePoint, CheckpointPoint,
                      KeyPoint, CompletePoint
  <2>3. QED BY <1>1, <2>1, <2>2 DEF TypeOK
<1>5. Error("non_deterministic_checkpoint_found") \in Reply
        /\ Error("checkpoint_value_not_found") \in Reply
  BY DEF Error, Reply, ErrCode
<1>6. StoredRow(c) # None /\ StoredRow(c).value # None =>
        [kind |-> "value", position |-> arg[c].position,
         value |-> StoredRow(c).value] \in Reply
  BY <1>2 DEF StoredRow, TypeOK, StoresOK, CheckpointRow, Reply
<1>7. QED
  BY <1>3, <1>4, <1>5, <1>6 DEF LeaseGetCheckpoint

\* Reading the lease of the position.
LEMMA LeaseReadLeaseTypeOK ==
  ASSUME TypeOK, NEW c \in Call, LeaseReadLease(c)
  PROVE  TypeOK'
<1> USE DEF LeaseReadLease, Joined
<1>1. StoresOK' /\ BookkeepingOK'
  BY DEF TypeOK, StoresOK, BookkeepingOK, stores, bookkeeping, history
<1>2. leases[arg[c].position] \in LeaseEntry \cup {None}
  BY DEF TypeOK, StoresOK, FrameOK, LeasePoint, LeaseRequest
<1>3. FramesOK'
  BY <1>2 DEF TypeOK, FramesOK
<1>4. ASSUME NEW d \in Call PROVE FrameOK(d)'
  BY DEF TypeOK, FramesOK, FrameOK
<1>5. QED BY <1>1, <1>3, <1>4 DEF TypeOK

\* Reading the fencing token, for a lease.
LEMMA LeaseReadTokenTypeOK ==
  ASSUME TypeOK, NEW c \in Call, LeaseReadToken(c)
  PROVE  TypeOK'
<1> USE DEF LeaseReadToken, Joined
<1>1. StoresOK' /\ BookkeepingOK'
  BY DEF TypeOK, StoresOK, BookkeepingOK, stores, bookkeeping, history
<1>2. FramesOK'
  BY DEF TypeOK, FramesOK, StoresOK
<1>3. ASSUME NEW d \in Call PROVE FrameOK(d)'
  BY DEF TypeOK, FramesOK, FrameOK
<1>4. QED BY <1>1, <1>2, <1>3 DEF TypeOK

\* Deciding on a lease.
LEMMA LeaseDecideTypeOK ==
  ASSUME TypeOK, NEW c \in Call, LeaseDecide(c)
  PROVE  TypeOK'
<1>1. StoresOK' /\ BookkeepingOK' /\ UNCHANGED sweep
  BY DEF LeaseDecide, TypeOK, StoresOK, BookkeepingOK, stores, bookkeeping,
         history
<1>2. /\ at[c] = "lease_read"
      /\ arg[c] \in LeaseRequest(Nat)
      /\ arg[c].lease_timeout \in Nat
  BY ParameterAssumption
     DEF LeaseDecide, TypeOK, FrameOK, LeasePoint, LeaseRequest
<1>3. CASE \E r \in Reply : Answer(c, r)
  BY <1>1, <1>3, AnswerOK DEF TypeOK
<1>4. CASE /\ MayLease(c)
           /\ at' = [at EXCEPT ![c] = "lease_put"]
           /\ lease' = [lease EXCEPT ![c] = [created_at |-> now,
                                   lease_timeout |-> arg[c].lease_timeout]]
           /\ UNCHANGED <<arg, reply, todo, token, expireAt>>
  <2>1. [created_at |-> now, lease_timeout |-> arg[c].lease_timeout]
          \in LeaseEntry
    BY <1>2 DEF TypeOK, StoresOK, LeaseEntry
  <2>2. FramesOK'
    BY <1>1, <1>4, <2>1 DEF TypeOK, FramesOK, Point, LeasePoint
  <2>3. token[c] \in Nat
    BY <1>4 DEF MayLease, TypeOK, FramesOK
  <2>4. ASSUME NEW d \in Call PROVE FrameOK(d)'
    BY <1>2, <1>4, <2>1, <2>3
       DEF TypeOK, FramesOK, FrameOK, LeasePoint, CheckpointPoint, KeyPoint,
           CompletePoint
  <2>5. QED BY <1>1, <2>2, <2>4 DEF TypeOK
<1>5. /\ Error("fencing_token_not_found") \in Reply
      /\ Error("fencing_token_expired") \in Reply
      /\ Error("unexpected state") \in Reply
  BY DEF Error, Reply, ErrCode
<1>6. Held(c) => [kind |-> "wait",
                  remaining |-> RemainingLease(lease[c], now)] \in Reply
  <2>1. Held(c) => RemainingLease(lease[c], now) \in Nat \ {0}
    BY DEF Held, RemainingLease, TypeOK, FramesOK, StoresOK, LeaseEntry
  <2>2. QED BY <2>1 DEF Reply
<1>7. QED
  BY <1>3, <1>4, <1>5, <1>6 DEF LeaseDecide

\* Putting the lease.
LEMMA LeasePutTypeOK ==
  ASSUME TypeOK, NEW c \in Call, LeasePut(c)
  PROVE  TypeOK'
<1>1. BookkeepingOK' /\ UNCHANGED sweep
  BY DEF LeasePut, TypeOK, BookkeepingOK, bookkeeping, history
<1>2. lease[c] \in LeaseEntry
  BY DEF LeasePut, TypeOK, FrameOK
<1>3. StoresOK'
  BY <1>2 DEF LeasePut, TypeOK, StoresOK
<1>4. Done("granted") \in Reply
  BY DEF Done, Reply
<1>5. QED BY <1>1, <1>3, <1>4, AnswerOK DEF LeasePut, TypeOK

\* Reading the fencing token, for a checkpoint.
LEMMA CheckpointReadTokenTypeOK ==
  ASSUME TypeOK, NEW c \in Call, CheckpointReadToken(c)
  PROVE  TypeOK'
<1> USE DEF CheckpointReadToken, Joined
<1>1. StoresOK' /\ BookkeepingOK'
  BY DEF TypeOK, StoresOK, BookkeepingOK, stores, bookkeeping, history
<1>2. FramesOK'
  BY DEF TypeOK, FramesOK, StoresOK
<1>3. ASSUME NEW d \in Call PROVE FrameOK(d)'
  BY DEF TypeOK, FramesOK, FrameOK
<1>4. QED BY <1>1, <1>2, <1>3 DEF TypeOK

\* Getting the lease, for a checkpoint.
LEMMA CheckpointGetLeaseTypeOK ==
  ASSUME TypeOK, NEW c \in Call, CheckpointGetLease(c)
  PROVE  TypeOK'
<1> USE DEF CheckpointGetLease
<1>1. StoresOK' /\ BookkeepingOK'
  BY DEF TypeOK, StoresOK, BookkeepingOK, stores, bookkeeping, history
<1>2. leases[arg[c].position] \in LeaseEntry \cup {None}
  BY DEF TypeOK, StoresOK, FrameOK, CheckpointPoint, CheckpointRequest
<1>3. FramesOK'
  BY <1>2 DEF TypeOK, FramesOK, Statement
<1>4. ASSUME NEW d \in Call PROVE FrameOK(d)'
  BY DEF TypeOK, FramesOK, FrameOK
<1>5. QED BY <1>1, <1>3, <1>4 DEF TypeOK

\* Deleting the lease, for a checkpoint.
LEMMA CheckpointDeleteLeaseTypeOK ==
  ASSUME TypeOK, NEW c \in Call, CheckpointDeleteLease(c)
  PROVE  TypeOK'
<1> USE DEF CheckpointDeleteLease, Joined
<1>1. StoresOK' /\ BookkeepingOK'
  BY DEF TypeOK, StoresOK, BookkeepingOK, bookkeeping, history
<1>2. FramesOK'
  BY DEF TypeOK, FramesOK
<1>3. ASSUME NEW d \in Call PROVE FrameOK(d)'
  BY DEF TypeOK, FramesOK, FrameOK
<1>4. QED BY <1>1, <1>2, <1>3 DEF TypeOK

\* Deciding on a checkpoint.
LEMMA CheckpointDecideTypeOK ==
  ASSUME TypeOK, NEW c \in Call, CheckpointDecide(c)
  PROVE  TypeOK'
<1>1. StoresOK' /\ BookkeepingOK' /\ UNCHANGED sweep
  BY DEF CheckpointDecide, TypeOK, StoresOK, BookkeepingOK, stores,
         bookkeeping, history
<1>2. at[c] = "checkpoint_read" /\ arg[c] \in CheckpointRequest(Nat)
  BY DEF CheckpointDecide, TypeOK, FrameOK, CheckpointPoint
<1>3. CASE \E r \in Reply : Answer(c, r)
  BY <1>1, <1>3, AnswerOK DEF TypeOK
<1>4. CASE /\ token[c] # None
           /\ at' = [at EXCEPT ![c] = "checkpoint_insert"]
           /\ UNCHANGED <<arg, reply, locals>>
  <2>1. FramesOK'
    BY <1>1, <1>4 DEF TypeOK, FramesOK, Point, CheckpointPoint, locals
  <2>2. ASSUME NEW d \in Call PROVE FrameOK(d)'
    BY <1>2, <1>4
       DEF TypeOK, FramesOK, FrameOK, LeasePoint, CheckpointPoint, KeyPoint,
           CompletePoint, locals
  <2>3. QED BY <1>1, <2>1, <2>2 DEF TypeOK
<1>5. Error("fencing_token_not_found") \in Reply
        /\ Error("fencing_token_expired") \in Reply
  BY DEF Error, Reply, ErrCode
<1>6. QED
  BY <1>3, <1>4, <1>5 DEF CheckpointDecide

\* Inserting a result or a generated key keeps the type of the table.
LEMMA InsertCheckpointOK ==
  ASSUME NEW row \in CheckpointRow \cup {None}, NEW key \in Key,
         NEW value \in Value \cup {None}
  PROVE  InsertCheckpoint(row, key, value) \in CheckpointRow
BY DEF InsertCheckpoint, CheckpointRow

\* Inserting a result.
LEMMA CheckpointInsertTypeOK ==
  ASSUME TypeOK, NEW c \in Call, CheckpointInsert(c)
  PROVE  TypeOK'
<1>1. BookkeepingOK' /\ UNCHANGED sweep
  BY DEF CheckpointInsert, TypeOK, BookkeepingOK, bookkeeping, history
<1>2. /\ arg[c].position \in Position
      /\ arg[c].idempotency_key \in Key
      /\ arg[c].value \in Value
  BY DEF CheckpointInsert, TypeOK, FrameOK, CheckpointPoint, CheckpointRequest
<1>3. StoresOK'
  BY <1>2, InsertCheckpointOK DEF CheckpointInsert, TypeOK, StoresOK
<1>4. [kind |-> "saved", abort |-> Stale(c)] \in Reply
  BY DEF Reply, Stale
<1>5. QED BY <1>1, <1>3, <1>4, AnswerOK DEF CheckpointInsert, TypeOK

\* Releasing a lease.
LEMMA ReleaseDeleteTypeOK ==
  ASSUME TypeOK, NEW c \in Call, ReleaseDelete(c)
  PROVE  TypeOK'
<1>1. BookkeepingOK' /\ UNCHANGED sweep
  BY DEF ReleaseDelete, TypeOK, BookkeepingOK, bookkeeping, history
<1>2. StoresOK'
  BY DEF ReleaseDelete, TypeOK, StoresOK
<1>3. Done("released") \in Reply
  BY DEF Done, Reply
<1>4. QED BY <1>1, <1>2, <1>3, AnswerOK DEF ReleaseDelete, TypeOK

\* Looking for a key.
LEMMA KeyGetTypeOK ==
  ASSUME TypeOK, NEW c \in Call, KeyGet(c)
  PROVE  TypeOK'
<1>1. StoresOK' /\ BookkeepingOK' /\ UNCHANGED sweep
  BY DEF KeyGet, TypeOK, StoresOK, BookkeepingOK, stores, bookkeeping, history
<1>2. at[c] = "key_get" /\ arg[c] \in KeyRequest(Nat)
        /\ arg[c].position \in Position
  BY DEF KeyGet, TypeOK, FrameOK, KeyPoint, KeyRequest
<1>3. CASE \E r \in Reply : Answer(c, r)
  BY <1>1, <1>3, AnswerOK DEF TypeOK
<1>4. CASE at' = [at EXCEPT ![c] = "key_read"] /\ UNCHANGED <<arg, reply, locals>>
  <2>1. FramesOK'
    BY <1>1, <1>4 DEF TypeOK, FramesOK, Point, KeyPoint, locals
  <2>2. ASSUME NEW d \in Call PROVE FrameOK(d)'
    BY <1>2, <1>4
       DEF TypeOK, FramesOK, FrameOK, LeasePoint, CheckpointPoint, KeyPoint,
           CompletePoint, locals
  <2>3. QED BY <1>1, <2>1, <2>2 DEF TypeOK
<1>5. StoredRow(c) # None =>
        KeyAnswer(arg[c].position, StoredRow(c).idempotency_key) \in Reply
  BY <1>2 DEF StoredRow, KeyAnswer, TypeOK, StoresOK, CheckpointRow, Reply
<1>6. QED BY <1>3, <1>4, <1>5 DEF KeyGet

\* Reading and checking the fencing token, for a key.
LEMMA KeyReadTokenTypeOK ==
  ASSUME TypeOK, NEW c \in Call, KeyReadToken(c)
  PROVE  TypeOK'
<1>1. StoresOK' /\ BookkeepingOK' /\ UNCHANGED sweep
  BY DEF KeyReadToken, TypeOK, StoresOK, BookkeepingOK, stores, bookkeeping,
         history
<1>2. at[c] = "key_read" /\ arg[c] \in KeyRequest(Nat)
  BY DEF KeyReadToken, TypeOK, FrameOK, KeyPoint
<1>3. CASE \E r \in Reply : Answer(c, r)
  BY <1>1, <1>3, AnswerOK DEF TypeOK
<1>4. CASE /\ fencingToken # None
           /\ at' = [at EXCEPT ![c] = "key_insert"]
           /\ token' = [token EXCEPT ![c] = fencingToken]
           /\ UNCHANGED <<arg, reply, todo, lease, expireAt>>
  <2>1. FramesOK'
    BY <1>1, <1>4 DEF TypeOK, FramesOK, StoresOK, Point, KeyPoint
  <2>2. ASSUME NEW d \in Call PROVE FrameOK(d)'
    BY <1>2, <1>4
       DEF TypeOK, FramesOK, StoresOK, FrameOK, LeasePoint, CheckpointPoint,
           KeyPoint, CompletePoint
  <2>3. QED BY <1>1, <2>1, <2>2 DEF TypeOK
<1>5. Error("fencing_token_not_found") \in Reply
        /\ Error("fencing_token_expired") \in Reply
  BY DEF Error, Reply, ErrCode
<1>6. QED BY <1>3, <1>4, <1>5 DEF KeyReadToken

\* Inserting a key.
LEMMA KeyInsertTypeOK ==
  ASSUME TypeOK, NEW c \in Call, KeyInsert(c)
  PROVE  TypeOK'
<1>1. PICK key \in Uuid \ drawn :
        /\ checkpoints' = [checkpoints EXCEPT ![arg[c].position] =
                             InsertCheckpoint(@, key, None)]
        /\ Answer(c, KeyAnswer(arg[c].position, key))
        /\ drawn' = drawn \cup {key}
  BY DEF KeyInsert
<1>2. arg[c].position \in Position /\ key \in Key
  BY ParameterAssumption
     DEF KeyInsert, TypeOK, FrameOK, KeyPoint, KeyRequest
<1>3. BookkeepingOK' /\ UNCHANGED sweep
  BY <1>1 DEF KeyInsert, TypeOK, BookkeepingOK, history
<1>4. StoresOK'
  BY <1>1, <1>2, InsertCheckpointOK DEF KeyInsert, TypeOK, StoresOK
<1>5. KeyAnswer(arg[c].position, key) \in Reply
  BY <1>2 DEF KeyAnswer, Reply
<1>6. QED BY <1>1, <1>3, <1>4, <1>5, AnswerOK DEF TypeOK
-----------------------------------------------------------------------------
(* The steps of the workflow service                                       *)

\* Inserting the workflow's row.
LEMMA StartInsertRowTypeOK ==
  ASSUME TypeOK, NEW c \in Call, StartInsertRow(c)
  PROVE  TypeOK'
<1> USE DEF StartInsertRow, Joined
<1>1. InsertWorkflow(workflow) \in WorkflowRow \cup {None}
  BY DEF InsertWorkflow, WorkflowRow, TypeOK, StoresOK, Running
<1>2. StoresOK' /\ BookkeepingOK'
  BY <1>1 DEF TypeOK, StoresOK, BookkeepingOK, bookkeeping, history
<1>3. FramesOK'
  BY DEF TypeOK, FramesOK
<1>4. ASSUME NEW d \in Call PROVE FrameOK(d)'
  BY DEF TypeOK, FramesOK, FrameOK
<1>5. QED BY <1>2, <1>3, <1>4 DEF TypeOK

\* Failing to insert it.
LEMMA StartInsertRowFailsTypeOK ==
  ASSUME TypeOK, NEW c \in Call, StartInsertRowFails(c)
  PROVE  TypeOK'
<1> USE DEF StartInsertRowFails, Joined
<1>1. StoresOK' /\ BookkeepingOK'
  BY DEF TypeOK, StoresOK, BookkeepingOK, stores, history, Fault
<1>2. FramesOK'
  BY DEF TypeOK, FramesOK
<1>3. ASSUME NEW d \in Call PROVE FrameOK(d)'
  BY DEF TypeOK, FramesOK, FrameOK
<1>4. QED BY <1>1, <1>2, <1>3 DEF TypeOK

\* Incrementing the fencing token.
LEMMA StartIncrementTypeOK ==
  ASSUME TypeOK, NEW c \in Call, StartIncrement(c)
  PROVE  TypeOK'
<1> USE DEF StartIncrement, Joined
<1>1. fencingToken' \in Nat
  BY DEF IncrementToken, TypeOK, StoresOK
<1>2. StoresOK' /\ BookkeepingOK'
  BY <1>1 DEF TypeOK, StoresOK, BookkeepingOK, bookkeeping, history
<1>3. FramesOK'
  BY <1>1 DEF TypeOK, FramesOK
<1>4. ASSUME NEW d \in Call PROVE FrameOK(d)'
  BY <1>1 DEF TypeOK, FramesOK, FrameOK
<1>5. QED BY <1>2, <1>3, <1>4 DEF TypeOK

\* Returning it.
LEMMA StartReturnTypeOK ==
  ASSUME TypeOK, NEW c \in Call, StartReturn(c)
  PROVE  TypeOK'
<1>1. token[c] \in Nat
  BY DEF StartReturn, TypeOK, FrameOK
<1>2. StoresOK' /\ BookkeepingOK' /\ UNCHANGED sweep
  BY <1>1 DEF StartReturn, TypeOK, StoresOK, BookkeepingOK, stores
<1>3. [kind |-> "token", fencing_token |-> token[c]] \in Reply
  BY <1>1 DEF Reply
<1>4. QED BY <1>2, <1>3, AnswerOK DEF StartReturn, TypeOK

\* Reading and checking the token, to complete the workflow.
LEMMA FinishReadTokenTypeOK ==
  ASSUME TypeOK, NEW c \in Call, FinishReadToken(c)
  PROVE  TypeOK'
<1>1. StoresOK' /\ BookkeepingOK' /\ UNCHANGED sweep
  BY DEF FinishReadToken, TypeOK, StoresOK, BookkeepingOK, stores,
         bookkeeping, history
<1>2. /\ at[c] = "complete_read"
      /\ arg[c] \in CompleteRequest(Nat)
      /\ arg[c].expire_after \in Nat
  BY ParameterAssumption
     DEF FinishReadToken, TypeOK, FrameOK, CompletePoint, CompleteRequest
<1>3. CASE \E r \in Reply : Answer(c, r)
  BY <1>1, <1>3, AnswerOK DEF TypeOK
<1>4. CASE /\ at' = [at EXCEPT ![c] = "complete_update"]
           /\ expireAt' = [expireAt EXCEPT ![c] = now + arg[c].expire_after]
           /\ UNCHANGED <<arg, reply, todo, token, lease>>
  <2>1. now + arg[c].expire_after \in Nat
    BY <1>2 DEF TypeOK, StoresOK
  <2>2. FramesOK'
    BY <1>1, <1>4, <2>1 DEF TypeOK, FramesOK, Point, CompletePoint
  <2>3. ASSUME NEW d \in Call PROVE FrameOK(d)'
    BY <1>2, <1>4, <2>1
       DEF TypeOK, FramesOK, FrameOK, LeasePoint, CheckpointPoint, KeyPoint,
           CompletePoint
  <2>4. QED BY <1>1, <2>2, <2>3 DEF TypeOK
<1>5. Error("fencing_token_not_found") \in Reply
        /\ Error("fencing_token_expired") \in Reply
  BY DEF Error, Reply, ErrCode
<1>6. QED BY <1>3, <1>4, <1>5 DEF FinishReadToken

\* Completing the workflow.
LEMMA FinishUpdateTypeOK ==
  ASSUME TypeOK, NEW c \in Call, FinishUpdate(c)
  PROVE  TypeOK'
<1>1. BookkeepingOK' /\ UNCHANGED sweep
  BY DEF FinishUpdate, TypeOK, BookkeepingOK, bookkeeping, history
<1>2. expireAt[c] \in Nat
  BY DEF FinishUpdate, TypeOK, FrameOK
<1>3. CompleteWorkflow(workflow, expireAt[c]) \in WorkflowRow \cup {None}
  BY <1>2 DEF CompleteWorkflow, WorkflowRow, Completed
<1>4. StoresOK'
  BY <1>3 DEF FinishUpdate, TypeOK, StoresOK
<1>5. Done("completed") \in Reply
  BY DEF Done, Reply
<1>6. QED BY <1>1, <1>4, <1>5, AnswerOK DEF FinishUpdate, TypeOK

\* A cleanup job: no step of it touches a frame.
LEMMA CleanupStepTypeOK ==
  ASSUME TypeOK, NEW k \in Sweep, CleanupStep(k)
  PROVE  TypeOK'
<1>1. UNCHANGED frames
  BY DEF CleanupStep, CleanupStart, CleanupTokens, CleanupCheckpoints,
         CleanupWorkflows, CleanupFails
<1>2. \A d \in Call : FrameOK(d)'
  BY <1>1 DEF frames, locals, TypeOK, FrameOK
<1>3. SUFFICES StoresOK' /\ BookkeepingOK'
                 /\ sweep' \in [Sweep -> SweepFrame \cup {None}]
  BY <1>1, <1>2 DEF frames, locals, TypeOK, FramesOK
<1>4. CASE CleanupStart(k)
  BY <1>4 DEF CleanupStart, TypeOK, StoresOK, FramesOK, BookkeepingOK, stores,
              bookkeeping, history, SweepFrame
<1>5. CASE CleanupTokens(k)
  <2>1. sweep' \in [Sweep -> SweepFrame \cup {None}]
    BY <1>5 DEF CleanupTokens, TypeOK, FramesOK, SweepFrame
  <2>2. StoresOK' /\ BookkeepingOK'
    BY <1>5 DEF CleanupTokens, TypeOK, StoresOK, BookkeepingOK
  <2>3. QED BY <2>1, <2>2
<1>6. CASE CleanupCheckpoints(k)
  <2>1. sweep' \in [Sweep -> SweepFrame \cup {None}]
    BY <1>6 DEF CleanupCheckpoints, TypeOK, FramesOK, SweepFrame
  <2>2. StoresOK' /\ BookkeepingOK'
    BY <1>6 DEF CleanupCheckpoints, TypeOK, StoresOK, BookkeepingOK,
                bookkeeping, history
  <2>3. QED BY <2>1, <2>2
<1>7. CASE CleanupWorkflows(k)
  BY <1>7 DEF CleanupWorkflows, TypeOK, StoresOK, FramesOK, BookkeepingOK,
              bookkeeping, history
<1>8. CASE CleanupFails(k)
  BY <1>8 DEF CleanupFails, TypeOK, StoresOK, FramesOK, BookkeepingOK, stores,
              history, Fault
<1>9. QED BY <1>4, <1>5, <1>6, <1>7, <1>8 DEF CleanupStep

-----------------------------------------------------------------------------
(* Faults and time                                                         *)

\* A failing or cancelled call, a restart, an eviction, a tick.
LEMMA EnvironmentTypeOK ==
  ASSUME TypeOK, Environment
  PROVE  TypeOK'
<1>1. ASSUME NEW c \in Call, Abandon(c) PROVE TypeOK'
  <2>1. StoresOK' /\ BookkeepingOK' /\ UNCHANGED sweep
    BY <1>1 DEF Abandon, Fault, TypeOK, StoresOK, BookkeepingOK, stores, history
  <2>2. Error("unavailable") \in Reply
    BY DEF Error, Reply, ErrCode
  <2>3. QED BY <1>1, <2>1, <2>2, AnswerOK DEF Abandon, TypeOK
<1>2. CASE Restart
  <2>1. StoresOK' /\ BookkeepingOK'
    BY <1>2 DEF Restart, Fault, TypeOK, StoresOK, BookkeepingOK, history
  <2>2. Error("unavailable") \in Reply
    BY DEF Error, Reply, ErrCode
  <2>3. FramesOK'
    BY <1>2, <2>2 DEF Restart, TypeOK, FramesOK, Point
  <2>4. ASSUME NEW d \in Call PROVE FrameOK(d)'
    BY <1>2 DEF Restart, FrameOK, Idle, LeasePoint, CheckpointPoint, KeyPoint,
                CompletePoint
  <2>5. QED BY <2>1, <2>3, <2>4 DEF TypeOK
<1>3. ASSUME NEW p \in Position, LeaseEvict(p) PROVE TypeOK'
  BY <1>3 DEF LeaseEvict, TypeOK, StoresOK, FramesOK, BookkeepingOK, FrameOK,
              frames, locals, bookkeeping, history
<1>4. CASE Tick
  BY <1>4 DEF Tick, TypeOK, StoresOK, FramesOK, BookkeepingOK, FrameOK, frames,
              locals, bookkeeping, history
<1>5. QED BY <1>1, <1>2, <1>3, <1>4 DEF Environment

-----------------------------------------------------------------------------
\* Every step of the server keeps the types.
LEMMA NextTypeOK == TypeOK /\ [Next]_vars => TypeOK'
<1> SUFFICES ASSUME TypeOK, [Next]_vars PROVE TypeOK'
  OBVIOUS
<1>1. ASSUME NEW c \in Call, Receive(c) PROVE TypeOK'
  BY <1>1, ReceiveTypeOK
<1>2. ASSUME NEW c \in Call, CheckpointServiceStep(c) PROVE TypeOK'
  BY <1>2, LeaseGetCheckpointTypeOK, LeaseReadLeaseTypeOK,
     LeaseReadTokenTypeOK, LeaseDecideTypeOK, LeasePutTypeOK,
     CheckpointReadTokenTypeOK, CheckpointGetLeaseTypeOK,
     CheckpointDeleteLeaseTypeOK, CheckpointDecideTypeOK,
     CheckpointInsertTypeOK, ReleaseDeleteTypeOK, KeyGetTypeOK,
     KeyReadTokenTypeOK, KeyInsertTypeOK
     DEF CheckpointServiceStep
<1>3. ASSUME NEW c \in Call, WorkflowServiceStep(c) PROVE TypeOK'
  BY <1>3, StartInsertRowTypeOK, StartInsertRowFailsTypeOK,
     StartIncrementTypeOK, StartReturnTypeOK, FinishReadTokenTypeOK,
     FinishUpdateTypeOK
     DEF WorkflowServiceStep
<1>4. ASSUME NEW k \in Sweep, CleanupStep(k) PROVE TypeOK'
  BY <1>4, CleanupStepTypeOK
<1>5. CASE Environment
  BY <1>5, EnvironmentTypeOK
<1>6. CASE UNCHANGED vars
  BY <1>6 DEF vars, stores, frames, locals, bookkeeping, history, TypeOK,
              StoresOK, FramesOK, BookkeepingOK, FrameOK
<1>7. QED BY <1>1, <1>2, <1>3, <1>4, <1>5, <1>6 DEF Next, ServerStep

\* Rows, cache entries, requests, locals and answers always have the shape
\* the handlers expect, and no handler reads a local it has not assigned.
THEOREM TypeCorrect == Spec => []TypeOK
<1>1. Init => TypeOK
  BY InitTypeOK
<1>2. TypeOK /\ [Next]_vars => TypeOK'
  BY NextTypeOK
<1>3. QED BY <1>1, <1>2, PTL DEF Spec
-----------------------------------------------------------------------------
(* Fencing.  By itself, Fenced is not inductive: whether a grant is safe   *)
(* was settled when the token was read.  FenceInv says what holds from     *)
(* there on.                                                               *)

\* The stored token never falls below what it was when a call in flight was
\* accepted; without a stored token there is nothing to fall below.
FloorStored ==
  \A c \in Call : IF fencingToken = None THEN floor[c] = 0
                                         ELSE floor[c] <= fencingToken

\* A token a handler has read was stored after its call was accepted.
TokenRead == \A c \in Call : token[c] # None => floor[c] <= token[c]

\* A handler starts without one.
IdleForgets == \A c \in Call : at[c] = Idle => token[c] = None

\* What lies between the check and the grant keeps the token that was checked.
GrantChecked ==
  \A c \in Call :
    /\ at[c] = "lease_put" => token[c] = arg[c].fencing_token
    /\ at[c] = "key_insert" => token[c] <= arg[c].fencing_token

FenceInv == FloorStored /\ TokenRead /\ IdleForgets /\ GrantChecked

-----------------------------------------------------------------------------
\* The calls that a stale token must be kept from are safe under FenceInv.
LEMMA FenceInvSuffices == TypeOK /\ FenceInv => Fenced
<1> SUFFICES ASSUME TypeOK, FenceInv, NEW c \in Call, AboutToGrant(c)
             PROVE  arg[c].fencing_token >= floor[c]
  BY DEF Fenced
<1>1. token[c] \in Nat /\ floor[c] \in Nat /\ floor[c] <= token[c]
  BY NoneAssumption
     DEF AboutToGrant, TypeOK, FrameOK, BookkeepingOK, FenceInv, TokenRead
<1>2. arg[c].fencing_token \in Nat
  <2>1. CASE at[c] = "lease_put"
    BY <2>1 DEF TypeOK, FrameOK, LeasePoint, LeaseRequest
  <2>2. CASE at[c] = "key_insert"
    BY <2>2 DEF TypeOK, FrameOK, KeyPoint, KeyRequest
  <2>3. CASE at[c] = "checkpoint_insert"
    BY <2>3 DEF TypeOK, FrameOK, CheckpointPoint, CheckpointRequest
  <2>4. QED BY <2>1, <2>2, <2>3 DEF AboutToGrant
<1>3. token[c] <= arg[c].fencing_token
  BY <1>1, <1>2 DEF AboutToGrant, Stale, FenceInv, GrantChecked
<1>4. QED BY <1>1, <1>2, <1>3

\* Initially nothing is stored, read or checked.
LEMMA InitFenceInv == Init => FenceInv
BY DEF Init, ServerInit, FramesInit, BookkeepingInit, FenceInv, FloorStored,
       TokenRead, IdleForgets, GrantChecked, Idle

\* Accepting a call takes the stored token as its floor.
LEMMA AcceptFenceInv ==
  ASSUME TypeOK, FenceInv, NEW c \in Call, NEW r \in Request(Nat), Accept(c, r)
  PROVE  FenceInv'
<1>1. Entry(r.rpc) \notin {Idle, "lease_put", "key_insert"}
  BY RequestOK
<1>2. FloorStored'
  BY DEF Accept, stores, TypeOK, StoresOK, BookkeepingOK, FenceInv, FloorStored
<1>3. TokenRead' /\ IdleForgets'
  BY <1>1 DEF Accept, TypeOK, FramesOK, BookkeepingOK, FenceInv, TokenRead,
              IdleForgets
<1>4. GrantChecked'
  BY <1>1 DEF Accept, TypeOK, FramesOK, FenceInv, GrantChecked
<1>5. QED BY <1>2, <1>3, <1>4 DEF FenceInv

\* Answering a call ends what FenceInv says of it.
LEMMA AnswerFenceInv ==
  ASSUME TypeOK, FenceInv, NEW c \in Call, NEW r, Answer(c, r),
         UNCHANGED <<fencingToken, floor>>
  PROVE  FenceInv'
BY DEF Answer, TypeOK, FramesOK, FenceInv, FloorStored, TokenRead, IdleForgets,
       GrantChecked, Idle

\* A handler reads the stored token, at an await before its check.
LEMMA ReadTokenFenceInv ==
  ASSUME TypeOK, FenceInv, NEW c \in Call,
         at[c] \notin {Idle, "lease_put", "key_insert"},
         token' = [token EXCEPT ![c] = fencingToken],
         UNCHANGED <<fencingToken, floor, at, arg>>
  PROVE  FenceInv'
BY DEF TypeOK, FramesOK, FenceInv, FloorStored, TokenRead, IdleForgets,
       GrantChecked

\* A handler goes on, without a token being read, stored or deleted.
LEMMA KeepTokenFenceInv ==
  ASSUME TypeOK, FenceInv, NEW c \in Call, at[c] # Idle,
         NEW point \in Point \ {Idle}, at' = [at EXCEPT ![c] = point],
         point = "lease_put" => token[c] = arg[c].fencing_token,
         point = "key_insert" => token[c] <= arg[c].fencing_token,
         UNCHANGED <<fencingToken, floor, token, arg>>
  PROVE  FenceInv'
BY DEF TypeOK, FramesOK, FenceInv, FloorStored, TokenRead, IdleForgets,
       GrantChecked

\* The handler stays where it is.
LEMMA StayFenceInv ==
  ASSUME FenceInv, UNCHANGED <<fencingToken, floor, token, arg, at>>
  PROVE  FenceInv'
BY DEF FenceInv, FloorStored, TokenRead, IdleForgets, GrantChecked

-----------------------------------------------------------------------------
\* The steps of the checkpoint service.
LEMMA CheckpointServiceFenceInv ==
  ASSUME TypeOK, FenceInv, NEW c \in Call, CheckpointServiceStep(c)
  PROVE  FenceInv'
<1> USE DEF stores, bookkeeping, history, locals
<1>1. CASE LeaseGetCheckpoint(c)
  <2>1. CASE \E r : Answer(c, r)
    BY <1>1, <2>1, AnswerFenceInv DEF LeaseGetCheckpoint
  <2>2. CASE at' = [at EXCEPT ![c] = "lease_read"] /\ UNCHANGED <<arg, token>>
    BY <1>1, <2>2, KeepTokenFenceInv
       DEF LeaseGetCheckpoint, Point, LeasePoint, Idle
  <2>3. QED BY <1>1, <2>1, <2>2 DEF LeaseGetCheckpoint
<1>2. CASE LeaseReadLease(c) \/ CheckpointGetLease(c) \/ CheckpointDeleteLease(c)
  BY <1>2, StayFenceInv
     DEF LeaseReadLease, CheckpointGetLease, CheckpointDeleteLease
<1>3. CASE LeaseReadToken(c) \/ CheckpointReadToken(c)
  BY <1>3, ReadTokenFenceInv DEF LeaseReadToken, CheckpointReadToken, Idle
<1>4. CASE LeaseDecide(c)
  <2>1. CASE \E r : Answer(c, r)
    BY <1>4, <2>1, AnswerFenceInv DEF LeaseDecide
  <2>2. CASE /\ MayLease(c)
             /\ at' = [at EXCEPT ![c] = "lease_put"]
             /\ UNCHANGED <<arg, token>>
    BY <1>4, <2>2, KeepTokenFenceInv
       DEF LeaseDecide, MayLease, Point, LeasePoint, Idle
  <2>3. QED BY <1>4, <2>1, <2>2 DEF LeaseDecide
<1>5. CASE LeasePut(c) \/ CheckpointInsert(c) \/ ReleaseDelete(c)
  BY <1>5, AnswerFenceInv DEF LeasePut, CheckpointInsert, ReleaseDelete
<1>6. CASE CheckpointDecide(c)
  <2>1. CASE \E r : Answer(c, r)
    BY <1>6, <2>1, AnswerFenceInv DEF CheckpointDecide
  <2>2. CASE /\ at' = [at EXCEPT ![c] = "checkpoint_insert"]
             /\ UNCHANGED <<arg, token>>
    BY <1>6, <2>2, KeepTokenFenceInv
       DEF CheckpointDecide, Point, CheckpointPoint, Idle
  <2>3. QED BY <1>6, <2>1, <2>2 DEF CheckpointDecide
<1>7. CASE KeyGet(c)
  <2>1. CASE \E r : Answer(c, r)
    BY <1>7, <2>1, AnswerFenceInv DEF KeyGet
  <2>2. CASE at' = [at EXCEPT ![c] = "key_read"] /\ UNCHANGED <<arg, token>>
    BY <1>7, <2>2, KeepTokenFenceInv DEF KeyGet, Point, KeyPoint, Idle
  <2>3. QED BY <1>7, <2>1, <2>2 DEF KeyGet
<1>8. CASE KeyReadToken(c)
  <2>1. CASE \E r : Answer(c, r)
    BY <1>8, <2>1, AnswerFenceInv DEF KeyReadToken
  <2>2. CASE /\ fencingToken # None /\ ~KeyRefused(c)
             /\ at' = [at EXCEPT ![c] = "key_insert"]
             /\ token' = [token EXCEPT ![c] = fencingToken]
             /\ UNCHANGED arg
    <3>1. arg[c].fencing_token \in Nat /\ fencingToken \in Nat
      BY <1>8, <2>2
         DEF KeyReadToken, TypeOK, StoresOK, FrameOK, KeyPoint, KeyRequest
    <3>2. UNCHANGED <<fencingToken, floor>>
      BY <1>8 DEF KeyReadToken
    <3>3. FloorStored' /\ TokenRead' /\ IdleForgets'
      BY <2>2, <3>2 DEF TypeOK, FramesOK, FenceInv, FloorStored, TokenRead,
                        IdleForgets, Idle
    <3>4. GrantChecked'
      BY <2>2, <3>1 DEF TypeOK, FramesOK, FenceInv, GrantChecked, KeyRefused
    <3>5. QED BY <3>3, <3>4 DEF FenceInv
  <2>3. QED BY <1>8, <2>1, <2>2 DEF KeyReadToken
<1>9. CASE KeyInsert(c)
  BY <1>9, AnswerFenceInv DEF KeyInsert
<1>10. QED
  BY <1>1, <1>2, <1>3, <1>4, <1>5, <1>6, <1>7, <1>8, <1>9
     DEF CheckpointServiceStep

\* The steps of the workflow service: only one of them changes the token.
LEMMA WorkflowServiceFenceInv ==
  ASSUME TypeOK, FenceInv, NEW c \in Call, WorkflowServiceStep(c)
  PROVE  FenceInv'
<1> USE DEF stores, bookkeeping, history
<1>1. CASE StartInsertRow(c) \/ StartInsertRowFails(c)
  BY <1>1, StayFenceInv DEF StartInsertRow, StartInsertRowFails
<1>2. CASE StartIncrement(c)
  <2>1. \A d \in Call : floor[d] <= fencingToken'
    BY <1>2 DEF StartIncrement, IncrementToken, TypeOK, StoresOK,
                BookkeepingOK, FenceInv, FloorStored
  <2>2. fencingToken' \in Nat /\ fencingToken' # None
    BY <1>2, NoneAssumption DEF StartIncrement, IncrementToken, TypeOK, StoresOK
  <2>3. /\ token' = [token EXCEPT ![c] = fencingToken']
        /\ UNCHANGED <<floor, at, arg>>
        /\ at[c] = "start"
    BY <1>2 DEF StartIncrement
  <2>4. FloorStored' /\ TokenRead'
    BY <2>1, <2>2, <2>3 DEF TypeOK, FramesOK, FenceInv, FloorStored, TokenRead
  <2>5. IdleForgets' /\ GrantChecked'
    BY <2>3 DEF TypeOK, FramesOK, FenceInv, IdleForgets, GrantChecked, Idle
  <2>6. QED BY <2>4, <2>5 DEF FenceInv
<1>3. CASE StartReturn(c) \/ FinishUpdate(c)
  BY <1>3, AnswerFenceInv DEF StartReturn, FinishUpdate
<1>4. CASE FinishReadToken(c)
  <2>1. CASE \E r : Answer(c, r)
    BY <1>4, <2>1, AnswerFenceInv DEF FinishReadToken
  <2>2. CASE /\ at' = [at EXCEPT ![c] = "complete_update"]
             /\ UNCHANGED <<arg, token>>
    BY <1>4, <2>2, KeepTokenFenceInv
       DEF FinishReadToken, Point, CompletePoint, Idle
  <2>3. QED BY <1>4, <2>1, <2>2 DEF FinishReadToken
<1>5. QED BY <1>1, <1>2, <1>3, <1>4 DEF WorkflowServiceStep

\* A cleanup deletes the token and with it what calls in flight must not
\* fall below.
LEMMA CleanupFenceInv ==
  ASSUME TypeOK, FenceInv, NEW k \in Sweep, CleanupStep(k)
  PROVE  FenceInv'
<1> USE DEF stores, frames, locals, bookkeeping, history
<1>1. CASE CleanupTokens(k)
  BY <1>1 DEF CleanupTokens, TypeOK, FramesOK, FenceInv, FloorStored,
              TokenRead, IdleForgets, GrantChecked
<1>2. CASE CleanupStart(k) \/ CleanupCheckpoints(k) \/ CleanupWorkflows(k)
             \/ CleanupFails(k)
  BY <1>2, StayFenceInv DEF CleanupStart, CleanupCheckpoints, CleanupWorkflows,
                            CleanupFails
<1>3. QED BY <1>1, <1>2 DEF CleanupStep

\* Faults and time.
LEMMA EnvironmentFenceInv ==
  ASSUME TypeOK, FenceInv, Environment
  PROVE  FenceInv'
<1> USE DEF stores, frames, locals, bookkeeping, history
<1>1. ASSUME NEW c \in Call, Abandon(c) PROVE FenceInv'
  BY <1>1, AnswerFenceInv DEF Abandon
<1>2. CASE Restart
  BY <1>2 DEF Restart, FenceInv, FloorStored, TokenRead, IdleForgets,
              GrantChecked, Idle
<1>3. ASSUME NEW p \in Position, LeaseEvict(p) PROVE FenceInv'
  BY <1>3, StayFenceInv DEF LeaseEvict
<1>4. CASE Tick
  BY <1>4, StayFenceInv DEF Tick
<1>5. QED BY <1>1, <1>2, <1>3, <1>4 DEF Environment

-----------------------------------------------------------------------------
\* A worker that was superseded before it called is never given a lease or a
\* key, nor told that its result counts: whatever the interleaving of the
\* statements of any number of calls, starts, cleanups, faults and restarts.
THEOREM StaleWorkersFenced == Spec => []Fenced
<1>1. Init => TypeOK /\ FenceInv
  BY InitTypeOK, InitFenceInv
<1>2. TypeOK /\ FenceInv /\ [Next]_vars => (TypeOK /\ FenceInv)'
  <2> SUFFICES ASSUME TypeOK, FenceInv, [Next]_vars
               PROVE  FenceInv'
    BY NextTypeOK
  <2>1. CASE UNCHANGED vars
    BY <2>1, StayFenceInv DEF vars, stores, frames, locals, bookkeeping, history
  <2>2. ASSUME NEW c \in Call, Receive(c) PROVE FenceInv'
    <3>1. PICK r \in Request(issued) : Accept(c, r)
      BY <2>2 DEF Receive
    <3>2. r \in Request(Nat)
      BY RequestOK DEF TypeOK, BookkeepingOK
    <3>3. QED BY <3>1, <3>2, AcceptFenceInv
  <2>3. CASE ServerStep
    BY <2>3, CheckpointServiceFenceInv, WorkflowServiceFenceInv,
       CleanupFenceInv, EnvironmentFenceInv DEF ServerStep
  <2>4. QED BY <2>1, <2>2, <2>3 DEF Next
<1>3. TypeOK /\ FenceInv => Fenced
  BY FenceInvSuffices
<1>4. QED BY <1>1, <1>2, <1>3, PTL DEF Spec
=============================================================================
