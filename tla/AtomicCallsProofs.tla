------------------------- MODULE AtomicCallsProofs -------------------------
(***************************************************************************)
(* A call that nothing interferes with acts as the atomic step that module *)
(* Rpc says it is, for every number of calls, jobs and positions; and a    *)
(* generated key is durable if calls come one at a time.                   *)
(***************************************************************************)
EXTENDS AtomicCalls, ResultsProofs

\* The stores as module Rpc describes them.
StoresRecord ==
  [workflow : WorkflowRow \cup {None}, fencingToken : Nat \cup {None},
   checkpoints : [Position -> CheckpointRow \cup {None}],
   leases : [Position -> LeaseEntry \cup {None}]]

\* What a call has found and done that has had the server to itself since it
\* was accepted, for each RPC: the stores are those of the snapshot but for
\* the statements of its own that have run, and its locals are what those of
\* its statements that read have read there.
Before(c) == snapshot[c].stores
At(c) == arg[c].position

StartAlone(c) ==
  /\ arg[c].rpc = "start"
  /\ workflow = IF "row" \in todo[c] THEN Before(c).workflow
                ELSE InsertWorkflow(Before(c).workflow)
  /\ IF "token" \in todo[c] THEN fencingToken = Before(c).fencingToken
     ELSE /\ fencingToken = IncrementToken(Before(c).fencingToken)
          /\ token[c] = fencingToken
  /\ checkpoints = Before(c).checkpoints /\ leases = Before(c).leases

CompleteAlone(c) ==
  /\ Stores = Before(c)
  /\ at[c] = "complete_update" =>
       /\ fencingToken # None /\ ~FinishRefused(c)
       /\ expireAt[c] = now + arg[c].expire_after

LeaseAlone(c) ==
  /\ Stores = Before(c)
  /\ at[c] # "lease_get" => checkpoints[At(c)] = None
  /\ at[c] = "lease_read" =>
       /\ "lease" \notin todo[c] => lease[c] = leases[At(c)]
       /\ "token" \notin todo[c] => token[c] = fencingToken
  /\ at[c] = "lease_put" =>
       /\ ~(leases[At(c)] # None /\ RemainingLease(leases[At(c)], now) > 0)
       /\ fencingToken = arg[c].fencing_token
       /\ lease[c] = [created_at |-> now,
                      lease_timeout |-> arg[c].lease_timeout]

CheckpointAlone(c) ==
  /\ workflow = Before(c).workflow
  /\ fencingToken = Before(c).fencingToken
  /\ checkpoints = Before(c).checkpoints
  /\ "get" \in todo[c] =>
       "delete" \notin todo[c] /\ leases = Before(c).leases
  /\ "get" \notin todo[c] =>
       /\ lease[c] = Before(c).leases[At(c)]
       /\ leases = IF "delete" \in todo[c] THEN Before(c).leases
                   ELSE [Before(c).leases EXCEPT ![At(c)] = None]
  /\ "token" \notin todo[c] => token[c] = fencingToken
  /\ at[c] = "checkpoint_insert" =>
       todo[c] = {} /\ ~(lease[c] # None /\ ~Held(c) /\ Stale(c))

ReleaseAlone(c) == Stores = Before(c)

KeyAlone(c) ==
  /\ Stores = Before(c)
  /\ at[c] # "key_get" => checkpoints[At(c)] = None
  /\ at[c] = "key_insert" => fencingToken # None /\ ~KeyRefused(c)
  /\ Uuid \ drawn \subseteq snapshot[c].uuids

Alone(c) ==
  /\ Before(c) \in StoresRecord
  /\ at[c] = "start" => StartAlone(c)
  /\ at[c] \in CompletePoint => CompleteAlone(c)
  /\ at[c] \in LeasePoint => LeaseAlone(c)
  /\ at[c] \in CheckpointPoint => CheckpointAlone(c)
  /\ at[c] = "release_delete" => ReleaseAlone(c)
  /\ at[c] \in KeyPoint => KeyAlone(c)

AloneInv == \A c \in Call : at[c] # Idle /\ snapshot[c] # None => Alone(c)

\* The step answers the call with an outcome of its RPC.
Concluded(c) ==
  [stores |-> Stores', reply |-> reply'[c]] \in
    Outcomes(Before(c), arg[c], now, snapshot[c].uuids)

-----------------------------------------------------------------------------
(* Records of stores                                                       *)

LEMMA StoresTyped == StoresOK => Stores \in StoresRecord
BY DEF StoresOK, Stores, StoresRecord

\* Records of stores with the same fields are the same.
LEMMA StoresFields ==
  ASSUME NEW db \in StoresRecord, NEW other \in StoresRecord,
         db.workflow = other.workflow, db.fencingToken = other.fencingToken,
         db.checkpoints = other.checkpoints, db.leases = other.leases
  PROVE  db = other
BY DEF StoresRecord

LEMMA CountedFields ==
  ASSUME NEW db \in StoresRecord
  PROVE  /\ Counted(db) \in StoresRecord
         /\ Counted(db).workflow = db.workflow
         /\ Counted(db).fencingToken = IncrementToken(db.fencingToken)
         /\ Counted(db).checkpoints = db.checkpoints
         /\ Counted(db).leases = db.leases
BY DEF Counted, StoresRecord, IncrementToken

LEMMA FreedFields ==
  ASSUME NEW db \in StoresRecord, NEW p \in Position
  PROVE  /\ Freed(db, p) \in StoresRecord
         /\ Freed(db, p).workflow = db.workflow
         /\ Freed(db, p).fencingToken = db.fencingToken
         /\ Freed(db, p).checkpoints = db.checkpoints
         /\ Freed(db, p).leases = [db.leases EXCEPT ![p] = None]
BY DEF Freed, StoresRecord

\* One field of the stores is replaced.
LEMMA WorkflowReplaced ==
  ASSUME NEW db \in StoresRecord, NEW row
  PROVE  [db EXCEPT !.workflow = row] =
           [workflow |-> row, fencingToken |-> db.fencingToken,
            checkpoints |-> db.checkpoints, leases |-> db.leases]
BY DEF StoresRecord

LEMMA CheckpointReplaced ==
  ASSUME NEW db \in StoresRecord, NEW p \in Position, NEW key, NEW value
  PROVE  [db EXCEPT !.checkpoints[p] = InsertCheckpoint(@, key, value)] =
           [workflow |-> db.workflow, fencingToken |-> db.fencingToken,
            checkpoints |-> [db.checkpoints EXCEPT ![p] =
                               InsertCheckpoint(@, key, value)],
            leases |-> db.leases]
BY DEF StoresRecord

LEMMA LeaseReplaced ==
  ASSUME NEW db \in StoresRecord, NEW p \in Position, NEW entry
  PROVE  [db EXCEPT !.leases[p] = entry] =
           [workflow |-> db.workflow, fencingToken |-> db.fencingToken,
            checkpoints |-> db.checkpoints,
            leases |-> [db.leases EXCEPT ![p] = entry]]
BY DEF StoresRecord

-----------------------------------------------------------------------------
(* Starting a workflow                                                     *)

LEMMA StartStepsAlone ==
  ASSUME TypeOK, NEW c \in Call, at[c] = "start", Alone(c),
         snapshot'[c] = snapshot[c], faults' = faults,
         StartInsertRow(c) \/ StartInsertRowFails(c) \/ StartIncrement(c)
           \/ StartReturn(c)
  PROVE  IF at'[c] = Idle THEN Concluded(c) ELSE Alone(c)'
<1>1. Before(c) \in StoresRecord /\ StartAlone(c) /\ Before(c)' = Before(c)
  BY DEF Alone, Before
<1>2. CASE StartInsertRow(c)
  <2>1. at' = at /\ at'[c] # Idle /\ UNCHANGED arg
    BY <1>2 DEF StartInsertRow, Idle
  <2>2. todo'[c] = todo[c] \ {"row"}
    BY <1>2 DEF StartInsertRow, Joined, TypeOK, FramesOK
  <2>3. StartAlone(c)'
    BY <1>1, <1>2, <2>1, <2>2 DEF StartInsertRow, StartAlone
  <2>4. QED
    BY <1>1, <2>1, <2>3 DEF Alone, CompletePoint, LeasePoint, CheckpointPoint,
                            KeyPoint
<1>3. CASE StartInsertRowFails(c)
  BY <1>3 DEF StartInsertRowFails, Fault, TypeOK, BookkeepingOK
<1>4. CASE StartIncrement(c)
  <2>1. at' = at /\ at'[c] # Idle /\ UNCHANGED arg
    BY <1>4 DEF StartIncrement, Idle
  <2>2. todo'[c] = todo[c] \ {"token"} /\ token'[c] = fencingToken'
    BY <1>4 DEF StartIncrement, Joined, TypeOK, FramesOK
  <2>3. StartAlone(c)'
    BY <1>1, <1>4, <2>1, <2>2 DEF StartIncrement, StartAlone
  <2>4. QED
    BY <1>1, <2>1, <2>3 DEF Alone, CompletePoint, LeasePoint, CheckpointPoint,
                            KeyPoint
<1>5. CASE StartReturn(c)
  <2> DEFINE db == Before(c)
             row == InsertWorkflow(db.workflow)
             told == [kind |-> "token", fencing_token |-> fencingToken]
  <2>1. reply'[c] = told /\ Stores' = Stores
    BY <1>1, <1>5 DEF StartReturn, Answer, StartAlone, stores, Stores, TypeOK,
                      FramesOK
  <2>2. Stores = [workflow |-> row,
                  fencingToken |-> Counted(db).fencingToken,
                  checkpoints |-> Counted(db).checkpoints,
                  leases |-> Counted(db).leases]
    BY <1>1, <1>5, CountedFields DEF StartReturn, StartAlone, Stores
  <2>3. Stores = [Counted(db) EXCEPT !.workflow = row]
    BY <1>1, <2>2, CountedFields, WorkflowReplaced
  <2>4. fencingToken = Counted(db).fencingToken
    BY <2>2 DEF Stores
  <2>5. [stores |-> Stores', reply |-> reply'[c]] \in StartRpc(db)
    BY <2>1, <2>3, <2>4 DEF StartRpc, Outcome
  <2>6. QED
    <3>1. at'[c] = Idle
      BY <1>5 DEF StartReturn, Answer, TypeOK, FramesOK
    <3>2. QED BY <1>1, <2>5, <3>1 DEF Concluded, Outcomes, StartAlone
<1>6. QED BY <1>2, <1>3, <1>4, <1>5

-----------------------------------------------------------------------------
(* Completing a workflow                                                   *)

LEMMA CompleteStepsAlone ==
  ASSUME TypeOK, NEW c \in Call, at[c] \in CompletePoint, Alone(c),
         snapshot'[c] = snapshot[c], FinishReadToken(c) \/ FinishUpdate(c)
  PROVE  IF at'[c] = Idle THEN Concluded(c) ELSE Alone(c)'
<1>1. /\ Stores \in StoresRecord /\ Before(c) = Stores /\ CompleteAlone(c)
      /\ Before(c)' = Before(c)
  BY DEF Alone, Before, CompleteAlone
<1>2. arg[c] \in CompleteRequest(Nat)
  BY DEF TypeOK, FrameOK
<1>3. Outcomes(Before(c), arg[c], now, snapshot[c].uuids) =
        CompleteRpc(Stores, arg[c], now)
  BY <1>1, <1>2 DEF Outcomes, CompleteRequest
<1>4. /\ Stores.fencingToken = fencingToken /\ Stores.workflow = workflow
      /\ Stores.checkpoints = checkpoints /\ Stores.leases = leases
      /\ fencingToken \in Nat \cup {None}
  BY DEF Stores, TypeOK, StoresOK
<1>5. ASSUME NEW r, UNCHANGED stores, Answer(c, r)
      PROVE  Stores' = Stores /\ at'[c] = Idle /\ reply'[c] = r
  BY <1>5 DEF Answer, stores, Stores, TypeOK, FramesOK
<1>6. CASE FinishReadToken(c)
  <2>1. UNCHANGED stores /\ Stores' = Stores
    BY <1>6 DEF FinishReadToken, stores, Stores
  <2>2. CASE fencingToken = None /\ Answer(c, Error("fencing_token_not_found"))
    <3>1. CompleteRpc(Stores, arg[c], now) =
            {Refusal(Stores, "fencing_token_not_found")}
      BY <1>4, <2>2 DEF CompleteRpc
    <3>2. QED
      BY <1>3, <1>5, <2>1, <2>2, <3>1 DEF Concluded, Refusal, Outcome, Error
  <2>3. CASE /\ fencingToken # None /\ FinishRefused(c)
             /\ Answer(c, Error("fencing_token_expired"))
    <3>1. CompleteRpc(Stores, arg[c], now) =
            {Refusal(Stores, "fencing_token_expired")}
      BY <1>4, <2>3 DEF CompleteRpc, FinishRefused
    <3>2. QED
      BY <1>3, <1>5, <2>1, <2>3, <3>1 DEF Concluded, Refusal, Outcome, Error
  <2>4. CASE /\ fencingToken # None /\ ~FinishRefused(c)
             /\ at' = [at EXCEPT ![c] = "complete_update"]
             /\ expireAt' = [expireAt EXCEPT ![c] = now + arg[c].expire_after]
             /\ UNCHANGED arg
    <3>1. at'[c] = "complete_update"
            /\ expireAt'[c] = now + arg[c].expire_after
      BY <2>4 DEF TypeOK, FramesOK
    <3>2. CompleteAlone(c)'
      BY <1>1, <2>1, <2>4, <3>1 DEF CompleteAlone, FinishRefused, stores
    <3>3. QED
      BY <1>1, <3>1, <3>2 DEF Alone, Idle, CompletePoint, LeasePoint,
                              CheckpointPoint, KeyPoint
  <2>5. QED BY <1>6, <2>2, <2>3, <2>4 DEF FinishReadToken
<1>7. CASE FinishUpdate(c)
  <2>1. /\ at[c] = "complete_update" /\ at'[c] = Idle
        /\ reply'[c] = Done("completed")
    BY <1>7 DEF FinishUpdate, Answer, TypeOK, FramesOK
  <2> DEFINE row == CompleteWorkflow(workflow, now + arg[c].expire_after)
  <2>2. Stores' = [workflow |-> row, fencingToken |-> fencingToken,
                   checkpoints |-> checkpoints, leases |-> leases]
    BY <1>1, <1>7, <2>1 DEF FinishUpdate, CompleteAlone, Stores
  <2>3. Stores' = [Stores EXCEPT !.workflow = row]
    BY <1>1, <1>4, <2>2, WorkflowReplaced
  <2>4. CompleteRpc(Stores, arg[c], now) =
          {Outcome([Stores EXCEPT !.workflow = row], [kind |-> "completed"])}
    BY <1>1, <1>4, <2>1 DEF CompleteRpc, CompleteAlone, FinishRefused
  <2>5. QED
    BY <1>3, <2>1, <2>3, <2>4 DEF Concluded, Outcome, Done
<1>8. QED BY <1>6, <1>7

-----------------------------------------------------------------------------
(* Leasing a position                                                      *)

\* What LeaseRpc answers, by what it finds: a row, a lease that runs, or
\* neither.
LEMMA LeaseRpcOfRow ==
  ASSUME NEW db, NEW r, NEW t, db.checkpoints[r.position] # None
  PROVE  LET row == db.checkpoints[r.position]
         IN  LeaseRpc(db, r, t) =
               {IF row.idempotency_key # r.idempotency_key
                THEN Refusal(db, "non_deterministic_checkpoint_found")
                ELSE IF row.value = None
                THEN Refusal(db, "checkpoint_value_not_found")
                ELSE Outcome(db, [kind |-> "value", position |-> r.position,
                                  value |-> row.value])}
BY DEF LeaseRpc

LEMMA LeaseRpcOfLease ==
  ASSUME NEW db, NEW r, NEW t, db.checkpoints[r.position] = None,
         db.leases[r.position] # None,
         RemainingLease(db.leases[r.position], t) > 0
  PROVE  LeaseRpc(db, r, t) =
           {Outcome(db, [kind |-> "wait",
              remaining |-> RemainingLease(db.leases[r.position], t)])}
BY DEF LeaseRpc

LEMMA LeaseRpcOfToken ==
  ASSUME NEW db, NEW r, NEW t, db.checkpoints[r.position] = None,
         ~(/\ db.leases[r.position] # None
           /\ RemainingLease(db.leases[r.position], t) > 0)
  PROVE  LET entry == [created_at |-> t, lease_timeout |-> r.lease_timeout]
         IN  LeaseRpc(db, r, t) =
               {IF db.fencingToken = None
                THEN Refusal(db, "fencing_token_not_found")
                ELSE IF db.fencingToken > r.fencing_token
                THEN Refusal(db, "fencing_token_expired")
                ELSE IF db.fencingToken < r.fencing_token
                THEN Refusal(db, "unexpected state")
                ELSE Outcome([db EXCEPT !.leases[r.position] = entry],
                             [kind |-> "granted"])}
BY DEF LeaseRpc, Granting

LEMMA LeaseStepsAlone ==
  ASSUME TypeOK, NEW c \in Call, at[c] \in LeasePoint, Alone(c),
         snapshot'[c] = snapshot[c],
         \/ LeaseGetCheckpoint(c) \/ LeaseReadLease(c) \/ LeaseReadToken(c)
         \/ LeaseDecide(c) \/ LeasePut(c)
  PROVE  IF at'[c] = Idle THEN Concluded(c) ELSE Alone(c)'
<1> DEFINE r == arg[c]
           p == r.position
<1>1. /\ Stores \in StoresRecord /\ Before(c) = Stores /\ LeaseAlone(c)
      /\ Before(c)' = Before(c)
  BY DEF Alone, Before, LeaseAlone
<1>2. r \in LeaseRequest(Nat) /\ p \in Position /\ r.fencing_token \in Nat
  BY DEF TypeOK, FrameOK, LeaseRequest
<1>3. Outcomes(Before(c), r, now, snapshot[c].uuids) = LeaseRpc(Stores, r, now)
  BY <1>1, <1>2 DEF Outcomes, LeaseRequest
<1>4. /\ Stores.fencingToken = fencingToken /\ Stores.workflow = workflow
      /\ Stores.checkpoints = checkpoints /\ Stores.leases = leases
      /\ fencingToken \in Nat \cup {None}
  BY DEF Stores, TypeOK, StoresOK
<1>5. ASSUME NEW answer, UNCHANGED stores, Answer(c, answer)
      PROVE  Stores' = Stores /\ at'[c] = Idle /\ reply'[c] = answer
  BY <1>5 DEF Answer, stores, Stores, TypeOK, FramesOK
\* The call is answered and the stores stay as they are.
<1>6. ASSUME NEW answer, UNCHANGED stores, Answer(c, answer),
             LeaseRpc(Stores, r, now) = {Outcome(Stores, answer)}
      PROVE  at'[c] = Idle /\ Concluded(c)
  BY <1>3, <1>5, <1>6 DEF Concluded, Outcome
<1>7. ASSUME NEW code, UNCHANGED stores, Answer(c, Error(code)),
             LeaseRpc(Stores, r, now) = {Refusal(Stores, code)}
      PROVE  at'[c] = Idle /\ Concluded(c)
  BY <1>6, <1>7 DEF Refusal, Error
\* The call goes on.
<1>8. ASSUME at'[c] \in LeasePoint, LeaseAlone(c)'
      PROVE  at'[c] # Idle /\ Alone(c)'
  BY <1>1, <1>8 DEF Alone, Idle, CompletePoint, LeasePoint, CheckpointPoint,
                    KeyPoint
<1> HIDE DEF r, p
<1>9. CASE LeaseGetCheckpoint(c)
  <2>1. UNCHANGED stores /\ Stores' = Stores
    BY <1>9 DEF LeaseGetCheckpoint, stores, Stores
  <2> DEFINE row == StoredRow(c)
  <2>2. row = Stores.checkpoints[p]
    BY <1>4 DEF StoredRow, r, p
  <2>3. CASE row = None
    <3>1. /\ at'[c] = "lease_read" /\ todo'[c] = {"lease", "token"}
          /\ UNCHANGED arg
      BY <1>9, <2>3 DEF LeaseGetCheckpoint, TypeOK, FramesOK
    <3>2. LeaseAlone(c)'
      BY <1>1, <2>1, <2>3, <3>1
         DEF LeaseAlone, StoredRow, At, stores
    <3>3. QED BY <1>8, <3>1, <3>2 DEF LeasePoint
  <2>4. CASE row # None /\ row.idempotency_key # r.idempotency_key
    <3>1. Answer(c, Error("non_deterministic_checkpoint_found"))
      BY <1>9, <2>4 DEF LeaseGetCheckpoint, r
    <3>2. LeaseRpc(Stores, r, now) =
            {Refusal(Stores, "non_deterministic_checkpoint_found")}
      <4>1. /\ Stores.checkpoints[r.position] # None
            /\ Stores.checkpoints[r.position].idempotency_key
                 # r.idempotency_key
        BY <2>2, <2>4 DEF p
      <4>2. QED BY <4>1, LeaseRpcOfRow
    <3>3. QED BY <1>7, <2>1, <3>1, <3>2
  <2>5. CASE /\ row # None /\ row.idempotency_key = r.idempotency_key
             /\ row.value = None
    <3>1. Answer(c, Error("checkpoint_value_not_found"))
      BY <1>9, <2>5 DEF LeaseGetCheckpoint, r
    <3>2. LeaseRpc(Stores, r, now) =
            {Refusal(Stores, "checkpoint_value_not_found")}
      BY <2>2, <2>5, LeaseRpcOfRow DEF p
    <3>3. QED BY <1>7, <2>1, <3>1, <3>2
  <2>6. CASE /\ row # None /\ row.idempotency_key = r.idempotency_key
             /\ row.value # None
    <3> DEFINE answer == [kind |-> "value", position |-> p,
                          value |-> row.value]
    <3>1. Answer(c, answer)
      BY <1>9, <2>6 DEF LeaseGetCheckpoint, r, p
    <3>2. LeaseRpc(Stores, r, now) = {Outcome(Stores, answer)}
      BY <2>2, <2>6, LeaseRpcOfRow DEF p
    <3>3. QED BY <1>6, <2>1, <3>1, <3>2
  <2>7. QED BY <2>3, <2>4, <2>5, <2>6
<1>10. CASE LeaseReadLease(c)
  <2>1. /\ UNCHANGED <<stores, at, arg, token>> /\ Stores' = Stores
        /\ at[c] = "lease_read"
        /\ lease'[c] = leases[At(c)] /\ todo'[c] = todo[c] \ {"lease"}
    BY <1>10 DEF LeaseReadLease, Joined, stores, Stores, At, TypeOK, FramesOK
  <2>2. LeaseAlone(c)'
    BY <1>1, <2>1 DEF LeaseAlone, At, stores
  <2>3. QED BY <1>8, <2>1, <2>2 DEF LeasePoint
<1>11. CASE LeaseReadToken(c)
  <2>1. /\ UNCHANGED <<stores, at, arg, lease>> /\ Stores' = Stores
        /\ at[c] = "lease_read"
        /\ token'[c] = fencingToken /\ todo'[c] = todo[c] \ {"token"}
    BY <1>11 DEF LeaseReadToken, Joined, stores, Stores, TypeOK, FramesOK
  <2>2. LeaseAlone(c)'
    BY <1>1, <2>1 DEF LeaseAlone, At, stores
  <2>3. QED BY <1>8, <2>1, <2>2 DEF LeasePoint
<1>12. CASE LeaseDecide(c)
  <2>1. /\ UNCHANGED stores /\ Stores' = Stores
        /\ lease[c] = Stores.leases[p] /\ token[c] = fencingToken
        /\ Stores.checkpoints[p] = None
    BY <1>1, <1>4, <1>12 DEF LeaseDecide, LeaseAlone, At, stores, Stores, r, p
  <2>2. CASE Held(c) /\ Answer(c, [kind |-> "wait",
                           remaining |-> RemainingLease(lease[c], now)])
    <3>1. LeaseRpc(Stores, r, now) =
            {Outcome(Stores, [kind |-> "wait",
                       remaining |-> RemainingLease(lease[c], now)])}
      BY <2>1, <2>2, LeaseRpcOfLease DEF Held, p
    <3>2. QED BY <1>6, <2>1, <2>2, <3>1
  <2>3. ASSUME ~Held(c), NEW code,
               \/ fencingToken = None /\ code = "fencing_token_not_found"
               \/ /\ fencingToken # None /\ fencingToken > r.fencing_token
                  /\ code = "fencing_token_expired"
               \/ /\ fencingToken # None /\ fencingToken < r.fencing_token
                  /\ ~(fencingToken > r.fencing_token)
                  /\ code = "unexpected state"
        PROVE  LeaseRpc(Stores, r, now) = {Refusal(Stores, code)}
    <3>1. /\ Stores.checkpoints[r.position] = None
          /\ ~(/\ Stores.leases[r.position] # None
               /\ RemainingLease(Stores.leases[r.position], now) > 0)
      BY <2>1, <2>3 DEF Held, p
    <3>2. QED BY <1>4, <2>3, <3>1, LeaseRpcOfToken
  <2>4. CASE /\ ~Held(c) /\ token[c] = None
             /\ Answer(c, Error("fencing_token_not_found"))
    BY <1>7, <2>1, <2>3, <2>4
  <2>5. CASE /\ ~Held(c) /\ token[c] # None /\ Stale(c)
             /\ Answer(c, Error("fencing_token_expired"))
    BY <1>7, <2>1, <2>3, <2>5 DEF Stale, r
  <2>6. CASE /\ ~Held(c) /\ token[c] # None /\ ~Stale(c) /\ ~MayLease(c)
             /\ Answer(c, Error("unexpected state"))
    <3>1. fencingToken < r.fencing_token
      <4>1. fencingToken # r.fencing_token
        BY <2>1, <2>6 DEF MayLease, r
      <4>2. fencingToken \in Nat /\ ~(fencingToken > r.fencing_token)
        BY <1>4, <2>1, <2>6 DEF Stale, r
      <4>3. QED BY <1>2, <4>1, <4>2
    <3>2. ~(fencingToken > r.fencing_token)
      BY <2>1, <2>6 DEF Stale, r
    <3>3. QED BY <1>7, <2>1, <2>3, <2>6, <3>1, <3>2
  <2>7. CASE /\ MayLease(c)
             /\ at' = [at EXCEPT ![c] = "lease_put"]
             /\ lease' = [lease EXCEPT ![c] =
                            [created_at |-> now,
                             lease_timeout |-> arg[c].lease_timeout]]
             /\ UNCHANGED <<arg, todo, token>>
    <3>1. /\ at'[c] = "lease_put"
          /\ lease'[c] = [created_at |-> now,
                          lease_timeout |-> arg[c].lease_timeout]
      BY <2>7 DEF TypeOK, FramesOK
    <3>2. LeaseAlone(c)'
      BY <1>1, <1>4, <2>1, <2>7, <3>1
         DEF LeaseAlone, MayLease, Held, At, stores, r, p
    <3>3. QED BY <1>8, <3>1, <3>2 DEF LeasePoint
  <2>8. QED
    BY <1>12, <2>2, <2>4, <2>5, <2>6, <2>7 DEF LeaseDecide
<1>13. CASE LeasePut(c)
  <2> DEFINE entry == [created_at |-> now, lease_timeout |-> r.lease_timeout]
  <2>1. /\ at[c] = "lease_put" /\ at'[c] = Idle
        /\ reply'[c] = Done("granted")
    BY <1>13 DEF LeasePut, Answer, TypeOK, FramesOK
  <2>2. /\ lease[c] = entry /\ fencingToken = r.fencing_token
        /\ checkpoints[p] = None
        /\ ~(leases[p] # None /\ RemainingLease(leases[p], now) > 0)
    BY <1>1, <2>1 DEF LeaseAlone, At, r, p
  <2>3. Stores' = [workflow |-> workflow, fencingToken |-> fencingToken,
                   checkpoints |-> checkpoints,
                   leases |-> [leases EXCEPT ![p] = entry]]
    BY <1>13, <2>2 DEF LeasePut, Stores, r, p
  <2>4. Stores' = [Stores EXCEPT !.leases[p] = entry]
    BY <1>1, <1>2, <1>4, <2>3, LeaseReplaced
  <2>5. fencingToken # None /\ ~(fencingToken > r.fencing_token)
          /\ ~(fencingToken < r.fencing_token)
    BY <1>2, <2>2, NoneAssumption
  <2>6. LeaseRpc(Stores, r, now) =
          {Outcome([Stores EXCEPT !.leases[p] = entry], [kind |-> "granted"])}
    <3>1. /\ Stores.checkpoints[r.position] = None
          /\ ~(/\ Stores.leases[r.position] # None
               /\ RemainingLease(Stores.leases[r.position], now) > 0)
      BY <1>4, <2>2 DEF p
    <3>2. QED BY <1>4, <2>5, <3>1, LeaseRpcOfToken DEF p
  <2>7. QED
    BY <1>3, <2>1, <2>4, <2>6 DEF Concluded, Outcome, Done, r
<1>14. QED BY <1>9, <1>10, <1>11, <1>12, <1>13

-----------------------------------------------------------------------------
(* Saving a result                                                         *)

LEMMA CheckpointStepsAlone ==
  ASSUME TypeOK, NEW c \in Call, at[c] \in CheckpointPoint, Alone(c),
         snapshot'[c] = snapshot[c],
         \/ CheckpointReadToken(c) \/ CheckpointGetLease(c)
         \/ CheckpointDeleteLease(c) \/ CheckpointDecide(c)
         \/ CheckpointInsert(c)
  PROVE  IF at'[c] = Idle THEN Concluded(c) ELSE Alone(c)'
<1> DEFINE r == arg[c]
           p == r.position
           db == Before(c)
<1>1. db \in StoresRecord /\ CheckpointAlone(c) /\ Before(c)' = db
  BY DEF Alone, Before
<1>2. /\ r \in CheckpointRequest(Nat) /\ p \in Position
      /\ r.fencing_token \in Nat
  BY DEF TypeOK, FrameOK, CheckpointRequest
<1>3. Outcomes(db, r, now, snapshot[c].uuids) = CheckpointRpc(db, r, now)
  BY <1>2 DEF Outcomes, CheckpointRequest
<1>4. /\ fencingToken = db.fencingToken /\ fencingToken \in Nat \cup {None}
      /\ workflow = db.workflow /\ checkpoints = db.checkpoints
      /\ db.leases \in [Position -> LeaseEntry \cup {None}]
  BY <1>1 DEF CheckpointAlone, TypeOK, StoresOK, StoresRecord
<1>5. ASSUME at'[c] \in CheckpointPoint, CheckpointAlone(c)'
      PROVE  at'[c] # Idle /\ Alone(c)'
  BY <1>1, <1>5 DEF Alone, Idle, CompletePoint, LeasePoint, CheckpointPoint,
                    KeyPoint
\* Both statements of the join! have run.
<1>6. ASSUME todo[c] = {}
      PROVE  /\ token[c] = db.fencingToken /\ lease[c] = db.leases[p]
             /\ leases = Freed(db, p).leases
             /\ Stores = Freed(db, p)
  <2>1. /\ token[c] = db.fencingToken /\ lease[c] = db.leases[p]
        /\ leases = [db.leases EXCEPT ![p] = None]
    BY <1>1, <1>4, <1>6 DEF CheckpointAlone, At
  <2>2. leases = Freed(db, p).leases
    BY <1>1, <1>2, <2>1, FreedFields
  <2>3. Stores \in StoresRecord
    BY StoresTyped DEF TypeOK
  <2>4. Stores = Freed(db, p)
    <3>1. /\ Freed(db, p) \in StoresRecord
          /\ Freed(db, p).workflow = Stores.workflow
          /\ Freed(db, p).fencingToken = Stores.fencingToken
          /\ Freed(db, p).checkpoints = Stores.checkpoints
          /\ Freed(db, p).leases = Stores.leases
      BY <1>1, <1>2, <1>4, <2>2, FreedFields DEF Stores
    <3> QED
      BY <2>3, <3>1, StoresFields
  <2>5. QED BY <2>1, <2>2, <2>4
<1>7. (lease[c] # None /\ ~Held(c)) <=>
        (lease[c] # None /\ RemainingLease(lease[c], now) <= 0)
  <2>1. /\ lease[c] # None => lease[c] \in LeaseEntry
        /\ now \in Nat
    BY DEF TypeOK, FramesOK, StoresOK
  <2> QED
    BY <2>1 DEF Held, RemainingLease, LeaseEntry
<1> HIDE DEF r, p, db
<1>8. ASSUME NEW code, todo[c] = {}, UNCHANGED stores, Answer(c, Error(code)),
             CheckpointRpc(db, r, now) = {Refusal(Freed(db, p), code)}
      PROVE  at'[c] = Idle /\ Concluded(c)
  <2>1. Stores' = Freed(db, p)
    BY <1>6, <1>8 DEF stores, Stores
  <2>2. at'[c] = Idle /\ reply'[c] = Error(code)
    BY <1>8 DEF Answer, TypeOK, FramesOK
  <2>3. QED
    BY <1>3, <1>8, <2>1, <2>2 DEF Concluded, Refusal, Outcome, Error, db, r
<1>9. CASE CheckpointReadToken(c)
  <2>1. /\ UNCHANGED <<stores, at, arg, lease>> /\ at[c] = "checkpoint_read"
        /\ token'[c] = fencingToken /\ todo'[c] = todo[c] \ {"token"}
    BY <1>9 DEF CheckpointReadToken, Joined, TypeOK, FramesOK
  <2>2. CheckpointAlone(c)'
    BY <1>1, <2>1 DEF CheckpointAlone, At, stores, db
  <2>3. QED BY <1>5, <2>1, <2>2 DEF CheckpointPoint
<1>10. CASE CheckpointGetLease(c)
  <2>1. /\ UNCHANGED <<stores, at, arg, token>> /\ at[c] = "checkpoint_read"
        /\ lease'[c] = leases[p] /\ "get" \in todo[c]
        /\ todo'[c] = (todo[c] \ {"get"}) \cup {"delete"}
    BY <1>10 DEF CheckpointGetLease, TypeOK, FramesOK, p, r
  <2>2. CheckpointAlone(c)'
    BY <1>1, <2>1 DEF CheckpointAlone, At, stores, db, p, r
  <2>3. QED BY <1>5, <2>1, <2>2 DEF CheckpointPoint
<1>11. CASE CheckpointDeleteLease(c)
  <2>1. /\ UNCHANGED <<workflow, fencingToken, checkpoints, at, arg, token,
                       lease>>
        /\ at[c] = "checkpoint_read" /\ "delete" \in todo[c]
        /\ leases' = [leases EXCEPT ![p] = None]
        /\ todo'[c] = todo[c] \ {"delete"}
    BY <1>11 DEF CheckpointDeleteLease, Joined, TypeOK, FramesOK, p, r
  <2>2. CheckpointAlone(c)'
    BY <1>1, <2>1 DEF CheckpointAlone, At, db, p, r
  <2>3. QED BY <1>5, <2>1, <2>2 DEF CheckpointPoint
<1>12. CASE CheckpointDecide(c)
  <2>1. todo[c] = {} /\ UNCHANGED stores /\ at[c] = "checkpoint_read"
    BY <1>12 DEF CheckpointDecide
  <2>2. CASE token[c] = None /\ Answer(c, Error("fencing_token_not_found"))
    <3>1. CheckpointRpc(db, r, now) =
            {Refusal(Freed(db, p), "fencing_token_not_found")}
      BY <1>6, <2>1, <2>2 DEF CheckpointRpc, Saving, p
    <3>2. QED BY <1>8, <2>1, <2>2, <3>1
  <2>3. CASE /\ token[c] # None /\ lease[c] # None /\ ~Held(c) /\ Stale(c)
             /\ Answer(c, Error("fencing_token_expired"))
    <3>1. /\ db.fencingToken # None /\ db.leases[r.position] # None
          /\ RemainingLease(db.leases[r.position], now) <= 0
          /\ db.fencingToken > r.fencing_token
      BY <1>6, <1>7, <2>1, <2>3 DEF Stale, p, r
    <3>2. CheckpointRpc(db, r, now) =
            {Refusal(Freed(db, p), "fencing_token_expired")}
      BY <3>1 DEF CheckpointRpc, Saving, p
    <3>3. QED BY <1>8, <2>1, <2>3, <3>2
  <2>4. CASE /\ ~(lease[c] # None /\ ~Held(c) /\ Stale(c))
             /\ at' = [at EXCEPT ![c] = "checkpoint_insert"]
             /\ UNCHANGED <<arg, locals>>
    <3>1. at'[c] = "checkpoint_insert"
      BY <2>4 DEF TypeOK, FramesOK
    <3>2. /\ UNCHANGED <<arg, todo, token, lease, workflow, fencingToken,
                         checkpoints, leases, now>>
          /\ Held(c)' = Held(c) /\ Stale(c)' = Stale(c)
      BY <2>1, <2>4 DEF stores, locals, Held, Stale
    <3>3. CheckpointAlone(c)'
      BY <1>1, <2>1, <2>4, <3>1, <3>2 DEF CheckpointAlone, At, db
    <3>4. QED BY <1>5, <3>1, <3>3 DEF CheckpointPoint
  <2>5. QED
    BY <1>12, <2>2, <2>3, <2>4 DEF CheckpointDecide
<1>13. CASE CheckpointInsert(c)
  <2> DEFINE freed == Freed(db, p)
             saved == [freed EXCEPT !.checkpoints[p] =
                         InsertCheckpoint(@, r.idempotency_key, r.value)]
  <2>1. /\ at[c] = "checkpoint_insert" /\ at'[c] = Idle
        /\ reply'[c] = [kind |-> "saved", abort |-> Stale(c)]
    BY <1>13 DEF CheckpointInsert, Answer, TypeOK, FramesOK
  <2>2. todo[c] = {} /\ ~(lease[c] # None /\ ~Held(c) /\ Stale(c))
    BY <1>1, <2>1 DEF CheckpointAlone
  <2>3. Stores' = [workflow |-> freed.workflow,
                   fencingToken |-> freed.fencingToken,
                   checkpoints |-> [freed.checkpoints EXCEPT ![p] =
                           InsertCheckpoint(@, r.idempotency_key, r.value)],
                   leases |-> freed.leases]
    <3>1. /\ workflow = freed.workflow /\ fencingToken = freed.fencingToken
          /\ checkpoints = freed.checkpoints /\ leases = freed.leases
      BY <1>6, <2>2 DEF Stores
    <3>2. QED BY <1>13, <3>1 DEF CheckpointInsert, Stores, r, p
  <2>4. Stores' = saved
    <3>1. freed \in StoresRecord
      BY <1>1, <1>2, FreedFields
    <3> HIDE DEF freed
    <3>2. QED BY <1>2, <2>3, <3>1, CheckpointReplaced
  <2>5. token[c] \in Nat /\ token[c] = db.fencingToken
    BY <1>6, <2>1, <2>2 DEF TypeOK, FrameOK
  <2>6. Stale(c) <=> db.fencingToken > r.fencing_token
    BY <2>5 DEF Stale, r
  <2>7. ~(/\ db.leases[r.position] # None
          /\ RemainingLease(db.leases[r.position], now) <= 0
          /\ db.fencingToken > r.fencing_token)
    BY <1>6, <1>7, <2>2, <2>6 DEF p
  <2>8. db.fencingToken # None
    BY <2>5, NoneAssumption
  <2>9. CheckpointRpc(db, r, now) =
          {Outcome(saved, [kind |-> "saved",
                           abort |-> db.fencingToken > r.fencing_token])}
    BY <2>7, <2>8 DEF CheckpointRpc, Saving, p
  <2>10. Stale(c) = (db.fencingToken > r.fencing_token)
    BY <2>6 DEF Stale, r
  <2> HIDE DEF saved
  <2>11. QED
    BY <1>3, <2>1, <2>4, <2>9, <2>10 DEF Concluded, Outcome, db, r
<1>14. QED BY <1>9, <1>10, <1>11, <1>12, <1>13

-----------------------------------------------------------------------------
(* Releasing a lease, and generating a key                                 *)

LEMMA ReleaseStepsAlone ==
  ASSUME TypeOK, NEW c \in Call, at[c] = "release_delete", Alone(c),
         snapshot'[c] = snapshot[c], ReleaseDelete(c)
  PROVE  at'[c] = Idle /\ Concluded(c)
<1> DEFINE p == arg[c].position
<1>1. Stores \in StoresRecord /\ Before(c) = Stores
  BY DEF Alone, ReleaseAlone
<1>2. arg[c] \in ReleaseRequest /\ p \in Position
  BY DEF TypeOK, FrameOK, ReleaseRequest
<1>3. Outcomes(Before(c), arg[c], now, snapshot[c].uuids) =
        {Outcome(Freed(Stores, p), [kind |-> "released"])}
  <2>1. Outcomes(Before(c), arg[c], now, snapshot[c].uuids) =
          ReleaseRpc(Stores, arg[c])
    BY <1>1, <1>2 DEF Outcomes, ReleaseRequest
  <2>2. QED BY <2>1 DEF ReleaseRpc
<1>4. Stores' \in StoresRecord
  BY ReleaseDeleteTypeOK DEF TypeOK, StoresOK, Stores, StoresRecord
<1>5. Stores' = Freed(Stores, p)
  <2>1. /\ Stores'.workflow = Stores.workflow
        /\ Stores'.fencingToken = Stores.fencingToken
        /\ Stores'.checkpoints = Stores.checkpoints
        /\ Stores'.leases = [Stores.leases EXCEPT ![p] = None]
    BY DEF ReleaseDelete, Stores
  <2>2. QED BY <1>1, <1>2, <1>4, <2>1, FreedFields, StoresFields
<1>6. at'[c] = Idle /\ reply'[c] = [kind |-> "released"]
  BY DEF ReleaseDelete, Answer, Done, TypeOK, FramesOK
<1>7. QED BY <1>3, <1>5, <1>6 DEF Concluded, Outcome

LEMMA KeyStepsAlone ==
  ASSUME TypeOK, NEW c \in Call, at[c] \in KeyPoint, Alone(c),
         snapshot'[c] = snapshot[c], KeyGet(c) \/ KeyReadToken(c) \/ KeyInsert(c)
  PROVE  IF at'[c] = Idle THEN Concluded(c) ELSE Alone(c)'
<1> DEFINE r == arg[c]
           p == r.position
           uuids == snapshot[c].uuids
<1>1. /\ Stores \in StoresRecord /\ Before(c) = Stores /\ KeyAlone(c)
      /\ Before(c)' = Before(c) /\ uuids' = uuids
  BY DEF Alone, Before, KeyAlone
<1>2. r \in KeyRequest(Nat) /\ p \in Position /\ r.fencing_token \in Nat
  BY DEF TypeOK, FrameOK, KeyRequest
<1>3. Outcomes(Before(c), r, now, uuids) = KeyRpc(Stores, r, uuids)
  BY <1>1, <1>2 DEF Outcomes, KeyRequest
<1>4. /\ Stores.fencingToken = fencingToken /\ Stores.workflow = workflow
      /\ Stores.checkpoints = checkpoints /\ Stores.leases = leases
      /\ fencingToken \in Nat \cup {None}
  BY DEF Stores, TypeOK, StoresOK
<1>5. ASSUME NEW answer, UNCHANGED stores, Answer(c, answer),
             KeyRpc(Stores, r, uuids) = {Outcome(Stores, answer)}
      PROVE  at'[c] = Idle /\ Concluded(c)
  <2>1. Stores' = Stores /\ at'[c] = Idle /\ reply'[c] = answer
    BY <1>5 DEF Answer, stores, Stores, TypeOK, FramesOK
  <2>2. QED BY <1>3, <1>5, <2>1 DEF Concluded, Outcome
<1>6. ASSUME at'[c] \in KeyPoint, KeyAlone(c)'
      PROVE  at'[c] # Idle /\ Alone(c)'
  BY <1>1, <1>6 DEF Alone, Idle, CompletePoint, LeasePoint, CheckpointPoint,
                    KeyPoint
<1> HIDE DEF r, p, uuids
<1>7. CASE KeyGet(c)
  <2>1. UNCHANGED <<stores, drawn>> /\ Stores' = Stores
    BY <1>7 DEF KeyGet, stores, Stores, bookkeeping
  <2>2. StoredRow(c) = Stores.checkpoints[p]
    BY <1>4 DEF StoredRow, r, p
  <2>3. CASE /\ StoredRow(c) # None
             /\ Answer(c, KeyAnswer(p, StoredRow(c).idempotency_key))
    <3>1. KeyRpc(Stores, r, uuids) =
            {Outcome(Stores, KeyAnswer(p, StoredRow(c).idempotency_key))}
      BY <2>2, <2>3 DEF KeyRpc, KeyAnswer, p
    <3>2. QED BY <1>5, <2>1, <2>3, <3>1
  <2>4. CASE /\ StoredRow(c) = None
             /\ at' = [at EXCEPT ![c] = "key_read"]
             /\ UNCHANGED arg
    <3>1. at'[c] = "key_read"
      BY <2>4 DEF TypeOK, FramesOK
    <3>2. KeyAlone(c)'
      BY <1>1, <2>1, <2>4, <3>1
         DEF KeyAlone, StoredRow, At, stores, uuids
    <3>3. QED BY <1>6, <3>1, <3>2 DEF KeyPoint
  <2>5. QED BY <1>7, <2>3, <2>4 DEF KeyGet, r, p
<1>8. CASE KeyReadToken(c)
  <2>1. /\ UNCHANGED <<stores, drawn>> /\ Stores' = Stores
        /\ Stores.checkpoints[p] = None
    BY <1>1, <1>4, <1>8
       DEF KeyReadToken, KeyAlone, At, stores, Stores, bookkeeping, r, p
  <2>2. CASE /\ fencingToken = None
             /\ Answer(c, Error("fencing_token_not_found"))
    <3>1. KeyRpc(Stores, r, uuids) =
            {Outcome(Stores, Error("fencing_token_not_found"))}
      BY <1>4, <2>1, <2>2 DEF KeyRpc, Refusal, Error, p
    <3>2. QED BY <1>5, <2>1, <2>2, <3>1
  <2>3. CASE /\ fencingToken # None /\ KeyRefused(c)
             /\ Answer(c, Error("fencing_token_expired"))
    <3>1. KeyRpc(Stores, r, uuids) =
            {Outcome(Stores, Error("fencing_token_expired"))}
      BY <1>4, <2>1, <2>3 DEF KeyRpc, KeyRefused, Refusal, Error, r, p
    <3>2. QED BY <1>5, <2>1, <2>3, <3>1
  <2>4. CASE /\ fencingToken # None /\ ~KeyRefused(c)
             /\ at' = [at EXCEPT ![c] = "key_insert"]
             /\ UNCHANGED arg
    <3>1. at'[c] = "key_insert"
      BY <2>4 DEF TypeOK, FramesOK
    <3>2. KeyAlone(c)'
      BY <1>1, <1>4, <2>1, <2>4, <3>1
         DEF KeyAlone, KeyRefused, At, stores, uuids, r, p
    <3>3. QED BY <1>6, <3>1, <3>2 DEF KeyPoint
  <2>5. QED BY <1>8, <2>2, <2>3, <2>4 DEF KeyReadToken
<1>9. CASE KeyInsert(c)
  <2>1. PICK key \in Uuid \ drawn :
          /\ checkpoints' = [checkpoints EXCEPT ![p] =
                               InsertCheckpoint(@, key, None)]
          /\ Answer(c, KeyAnswer(p, key))
    BY <1>9 DEF KeyInsert, r, p
  <2> DEFINE saved == [Stores EXCEPT !.checkpoints[p] =
                         InsertCheckpoint(@, key, None)]
  <2>2. at'[c] = Idle /\ reply'[c] = KeyAnswer(p, key)
    BY <2>1 DEF Answer, TypeOK, FramesOK
  <2>3. key \in uuids
    BY <1>1, <1>9 DEF KeyAlone, uuids
  <2>4. Stores' = saved
    <3>1. Stores' = [workflow |-> Stores.workflow,
                     fencingToken |-> Stores.fencingToken,
                     checkpoints |-> [Stores.checkpoints EXCEPT ![p] =
                                        InsertCheckpoint(@, key, None)],
                     leases |-> Stores.leases]
      BY <1>4, <1>9, <2>1 DEF KeyInsert, Stores
    <3>2. QED BY <1>1, <1>2, <3>1, CheckpointReplaced
  <2> HIDE DEF saved
  <2>5. /\ Stores.checkpoints[r.position] = None /\ Stores.fencingToken # None
        /\ ~(Stores.fencingToken > r.fencing_token)
    BY <1>1, <1>4, <1>9 DEF KeyInsert, KeyAlone, KeyRefused, At, r
  <2>6. Outcome(saved, KeyAnswer(p, key)) \in KeyRpc(Stores, r, uuids)
    BY <2>3, <2>5 DEF KeyRpc, KeyAnswer, saved, p
  <2>7. QED BY <1>3, <2>2, <2>4, <2>6 DEF Concluded, Outcome, uuids, r
<1>10. QED BY <1>7, <1>8, <1>9

-----------------------------------------------------------------------------
(* The invariant                                                           *)

\* A call that is accepted has changed and read nothing yet.
LEMMA AcceptedAlone ==
  ASSUME TypeOK, NEW c \in Call, NEW r \in Request(Nat), Accept(c, r),
         snapshot'[c] = [stores |-> Stores, uuids |-> Uuid \ drawn]
  PROVE  Alone(c)'
<1>1. /\ at'[c] = Entry(r.rpc) /\ arg'[c] = r
      /\ todo'[c] = FirstJoin(r.rpc) /\ UNCHANGED <<stores, drawn>>
  BY DEF Accept, TypeOK, FramesOK
<1>2. /\ Before(c)' = Stores /\ Stores' = Stores /\ Stores \in StoresRecord
      /\ snapshot'[c].uuids = Uuid \ drawn
  BY <1>1, StoresTyped DEF Before, stores, Stores, TypeOK
<1>3. /\ Stores.fencingToken = fencingToken /\ Stores.workflow = workflow
      /\ Stores.checkpoints = checkpoints /\ Stores.leases = leases
  BY DEF Stores
<1>4. r.rpc \in {"start", "complete", "lease", "checkpoint", "release", "key"}
  BY DEF Request, StartRequest, CompleteRequest, LeaseRequest,
         CheckpointRequest, ReleaseRequest, KeyRequest
<1> USE DEF CompletePoint, LeasePoint, CheckpointPoint, KeyPoint, Entry,
            FirstJoin, stores
<1>5. CASE r.rpc = "start"
  <2>1. at'[c] = "start" /\ todo'[c] = {"row", "token"}
    BY <1>1, <1>5
  <2>2. StartAlone(c)'
    BY <1>1, <1>2, <1>3, <1>5, <2>1 DEF StartAlone
  <2>3. QED BY <1>2, <2>1, <2>2 DEF Alone
<1>6. CASE r.rpc = "complete"
  <2>1. at'[c] = "complete_read"
    BY <1>1, <1>6
  <2>2. QED BY <1>2, <2>1 DEF Alone, CompleteAlone
<1>7. CASE r.rpc = "lease"
  <2>1. at'[c] = "lease_get"
    BY <1>1, <1>7
  <2>2. QED BY <1>2, <2>1 DEF Alone, LeaseAlone
<1>8. CASE r.rpc = "checkpoint"
  <2>1. at'[c] = "checkpoint_read" /\ todo'[c] = {"token", "get"}
    BY <1>1, <1>8
  <2>2. CheckpointAlone(c)'
    BY <1>1, <1>2, <1>3, <2>1 DEF CheckpointAlone
  <2>3. QED BY <1>2, <2>1, <2>2 DEF Alone
<1>9. CASE r.rpc = "release"
  <2>1. at'[c] = "release_delete"
    BY <1>1, <1>9
  <2>2. QED BY <1>2, <2>1 DEF Alone, ReleaseAlone
<1>10. CASE r.rpc = "key"
  <2>1. at'[c] = "key_get"
    BY <1>1, <1>10
  <2>2. QED BY <1>1, <1>2, <2>1 DEF Alone, KeyAlone
<1>11. QED BY <1>4, <1>5, <1>6, <1>7, <1>8, <1>9, <1>10

\* While the stores and a call's frame stay as they are so does what the call
\* has found.
LEMMA KeptAlone ==
  ASSUME TypeOK, NEW c \in Call, Alone(c), UNCHANGED stores,
         snapshot'[c] = snapshot[c], drawn \subseteq drawn',
         at'[c] = at[c], arg'[c] = arg[c], todo'[c] = todo[c],
         token'[c] = token[c], lease'[c] = lease[c], expireAt'[c] = expireAt[c]
  PROVE  Alone(c)'
<1>1. /\ Before(c)' = Before(c) /\ At(c)' = At(c) /\ Stores' = Stores
      /\ Held(c)' = Held(c) /\ Stale(c)' = Stale(c)
      /\ KeyRefused(c)' = KeyRefused(c) /\ FinishRefused(c)' = FinishRefused(c)
  BY DEF Before, At, Stores, stores, Held, Stale, KeyRefused, FinishRefused
<1>2. StartAlone(c)' = StartAlone(c)
  BY <1>1 DEF StartAlone, stores
<1>3. CompleteAlone(c)' = CompleteAlone(c)
  BY <1>1 DEF CompleteAlone, stores
<1>4. LeaseAlone(c)' = LeaseAlone(c)
  BY <1>1 DEF LeaseAlone, stores
<1>5. CheckpointAlone(c)' = CheckpointAlone(c)
  BY <1>1 DEF CheckpointAlone, stores
<1>6. KeyAlone(c) => KeyAlone(c)'
  BY <1>1 DEF KeyAlone, stores
<1>7. QED
  BY <1>1, <1>2, <1>3, <1>4, <1>5, <1>6 DEF Alone, ReleaseAlone

\* A step of one call leaves the frames of the others as they are.
LEMMA OthersKept ==
  ASSUME TypeOK, NEW c \in Call, NEW d \in Call, d # c,
         \/ Receive(d) \/ CheckpointServiceStep(d) \/ WorkflowServiceStep(d)
  PROVE  /\ at'[c] = at[c] /\ arg'[c] = arg[c] /\ todo'[c] = todo[c]
         /\ token'[c] = token[c] /\ lease'[c] = lease[c]
         /\ expireAt'[c] = expireAt[c] /\ drawn \subseteq drawn'
<1> USE DEF TypeOK, FramesOK, bookkeeping, locals
<1>1. ASSUME NEW r, Answer(d, r)
      PROVE  /\ at'[c] = at[c] /\ arg'[c] = arg[c] /\ todo'[c] = todo[c]
             /\ token'[c] = token[c] /\ lease'[c] = lease[c]
             /\ expireAt'[c] = expireAt[c]
  BY <1>1 DEF Answer
<1>2. CASE Receive(d)
  BY <1>2 DEF Receive, Accept
<1>3. CASE CheckpointServiceStep(d)
  <2>1. drawn \subseteq drawn'
    BY <1>3 DEF CheckpointServiceStep, LeaseGetCheckpoint, LeaseReadLease,
                LeaseReadToken, LeaseDecide, LeasePut, CheckpointReadToken,
                CheckpointGetLease, CheckpointDeleteLease, CheckpointDecide,
                CheckpointInsert, ReleaseDelete, KeyGet, KeyReadToken,
                KeyInsert
  <2>2. CASE \E r : Answer(d, r)
    BY <1>1, <2>1, <2>2
  <2>3. CASE ~\E r : Answer(d, r)
    BY <1>3, <2>1, <2>3
       DEF CheckpointServiceStep, LeaseGetCheckpoint, LeaseReadLease,
           LeaseReadToken, LeaseDecide, LeasePut, CheckpointReadToken,
           CheckpointGetLease, CheckpointDeleteLease, CheckpointDecide,
           CheckpointInsert, ReleaseDelete, KeyGet, KeyReadToken, KeyInsert,
           Joined
  <2>4. QED BY <2>2, <2>3
<1>4. CASE WorkflowServiceStep(d)
  <2>1. drawn' = drawn
    BY <1>4 DEF WorkflowServiceStep, StartInsertRow, StartInsertRowFails,
                StartIncrement, StartReturn, FinishReadToken, FinishUpdate
  <2>2. CASE \E r : Answer(d, r)
    BY <1>1, <2>1, <2>2
  <2>3. CASE ~\E r : Answer(d, r)
    BY <1>4, <2>1, <2>3
       DEF WorkflowServiceStep, StartInsertRow, StartInsertRowFails,
           StartIncrement, StartReturn, FinishReadToken, FinishUpdate, Joined
  <2>4. QED BY <2>2, <2>3
<1>5. QED BY <1>2, <1>3, <1>4

Traced == <<vars, snapshot>>

\* What becomes of the snapshot of a call being handled: it is dropped, or it
\* stays, and then no fault has struck and a step of another call or of the
\* environment has left the stores as they are.
LEMMA SnapshotKept ==
  ASSUME TracedNext, NEW c \in Call, at[c] # Idle, snapshot'[c] # None
  PROVE  /\ snapshot'[c] = snapshot[c] /\ faults' = faults
         /\ OwnStep(c) \/ UNCHANGED stores
BY DEF TracedNext, Accepted

\* The steps of one call.
LEMMA OwnStepAlone ==
  ASSUME TypeOK, NEW c \in Call, at[c] # Idle, Alone(c),
         snapshot'[c] = snapshot[c], faults' = faults,
         CheckpointServiceStep(c) \/ WorkflowServiceStep(c)
  PROVE  IF at'[c] = Idle THEN Concluded(c) ELSE Alone(c)'
BY StartStepsAlone, CompleteStepsAlone, LeaseStepsAlone, CheckpointStepsAlone,
   ReleaseStepsAlone, KeyStepsAlone
   DEF CheckpointServiceStep, WorkflowServiceStep, LeaseGetCheckpoint,
       LeaseReadLease, LeaseReadToken, LeaseDecide, LeasePut,
       CheckpointReadToken, CheckpointGetLease, CheckpointDeleteLease,
       CheckpointDecide, CheckpointInsert, ReleaseDelete, KeyGet,
       KeyReadToken, KeyInsert, StartInsertRow, StartInsertRowFails,
       StartIncrement, StartReturn, FinishReadToken, FinishUpdate,
       CompletePoint, LeasePoint, CheckpointPoint, KeyPoint

\* A step that is not the call's own, and is no fault.
LEMMA OtherStepAlone ==
  ASSUME TypeOK, NEW c \in Call, at[c] # Idle, Alone(c), Next,
         ~CheckpointServiceStep(c), ~WorkflowServiceStep(c),
         snapshot'[c] = snapshot[c], faults' = faults,
         OwnStep(c) \/ UNCHANGED stores
  PROVE  at'[c] # Idle /\ Alone(c)'
<1> SUFFICES /\ UNCHANGED stores /\ drawn \subseteq drawn'
             /\ at'[c] = at[c] /\ arg'[c] = arg[c] /\ todo'[c] = todo[c]
             /\ token'[c] = token[c] /\ lease'[c] = lease[c]
             /\ expireAt'[c] = expireAt[c]
  BY KeptAlone
<1>1. ~Receive(c)
  BY DEF Receive, Accept
<1>2. ASSUME NEW d \in Call,
             Receive(d) \/ CheckpointServiceStep(d) \/ WorkflowServiceStep(d)
      PROVE  /\ at'[c] = at[c] /\ arg'[c] = arg[c] /\ todo'[c] = todo[c]
             /\ token'[c] = token[c] /\ lease'[c] = lease[c]
             /\ expireAt'[c] = expireAt[c] /\ drawn \subseteq drawn'
  BY <1>1, <1>2, OthersKept
<1>3. ASSUME NEW k \in Sweep, CleanupStep(k) PROVE UNCHANGED <<frames, drawn>>
  BY <1>3 DEF CleanupStep, CleanupStart, CleanupTokens, CleanupCheckpoints,
              CleanupWorkflows, CleanupFails, bookkeeping
<1>4. ASSUME Environment PROVE UNCHANGED <<frames, drawn>>
  <2>1. ~Restart /\ \A d \in Call : ~Abandon(d)
    BY DEF Restart, Abandon, Fault, TypeOK, BookkeepingOK
  <2>2. QED BY <1>4, <2>1 DEF Environment, LeaseEvict, Tick, bookkeeping
<1>5. /\ at'[c] = at[c] /\ arg'[c] = arg[c] /\ todo'[c] = todo[c]
      /\ token'[c] = token[c] /\ lease'[c] = lease[c]
      /\ expireAt'[c] = expireAt[c] /\ drawn \subseteq drawn'
  BY <1>2, <1>3, <1>4 DEF Next, ServerStep, frames, locals
<1>6. QED BY <1>5 DEF OwnStep

\* What a step makes of a call that keeps its snapshot.
LEMMA StepAlone ==
  ASSUME TypeOK, AloneInv, TracedNext, NEW c \in Call, at[c] # Idle,
         snapshot'[c] # None
  PROVE  IF at'[c] = Idle THEN Concluded(c) ELSE Alone(c)'
<1>1. /\ snapshot'[c] = snapshot[c] /\ faults' = faults
      /\ OwnStep(c) \/ UNCHANGED stores
  BY SnapshotKept
<1>2. Alone(c) /\ Next
  BY <1>1 DEF AloneInv, TracedNext
<1>3. CASE CheckpointServiceStep(c) \/ WorkflowServiceStep(c)
  BY <1>1, <1>2, <1>3, OwnStepAlone
<1>4. CASE ~CheckpointServiceStep(c) /\ ~WorkflowServiceStep(c)
  BY <1>1, <1>2, <1>4, OtherStepAlone
<1>5. QED BY <1>3, <1>4

LEMMA NextAloneInv ==
  ASSUME TypeOK, AloneInv, [TracedNext]_Traced
  PROVE  AloneInv'
<1> SUFFICES ASSUME NEW c \in Call, at'[c] # Idle, snapshot'[c] # None
             PROVE  Alone(c)'
  BY DEF AloneInv
<1>1. CASE UNCHANGED Traced
  <2>1. Alone(c)
    BY <1>1 DEF AloneInv, Traced, vars, frames
  <2>2. QED
    BY <1>1, <2>1, KeptAlone
       DEF Traced, vars, frames, locals, bookkeeping
<1>2. CASE TracedNext /\ at[c] # Idle
  BY <1>2, StepAlone
<1>3. CASE TracedNext /\ at[c] = Idle
  <2>1. snapshot'[c] = [stores |-> Stores, uuids |-> Uuid \ drawn]
    BY <1>3 DEF TracedNext, Accepted
  <2>2. Receive(c)
    <3>1. ASSUME NEW d \in Call, d # c,
                 \/ Receive(d) \/ CheckpointServiceStep(d)
                 \/ WorkflowServiceStep(d)
          PROVE  at'[c] = at[c]
      BY <3>1, OthersKept
    <3>2. ~CheckpointServiceStep(c) /\ ~WorkflowServiceStep(c)
      BY <1>3 DEF CheckpointServiceStep, WorkflowServiceStep, LeaseGetCheckpoint,
       LeaseReadLease, LeaseReadToken, LeaseDecide, LeasePut,
       CheckpointReadToken, CheckpointGetLease, CheckpointDeleteLease,
       CheckpointDecide, CheckpointInsert, ReleaseDelete, KeyGet,
       KeyReadToken, KeyInsert, StartInsertRow, StartInsertRowFails,
       StartIncrement, StartReturn, FinishReadToken, FinishUpdate, Idle
    <3>3. ASSUME NEW k \in Sweep, CleanupStep(k) PROVE at' = at
      BY <3>3 DEF CleanupStep, CleanupStart, CleanupTokens, CleanupCheckpoints,
                  CleanupWorkflows, CleanupFails, frames
    <3>4. ASSUME Environment PROVE at'[c] = Idle
      BY <1>3, <3>4 DEF Environment, Abandon, Answer, Restart, LeaseEvict, Tick,
                        frames, TypeOK, FramesOK
    <3>5. QED
      BY <1>3, <3>1, <3>2, <3>3, <3>4 DEF TracedNext, Next, ServerStep
  <2>3. PICK r \in Request(issued) : Accept(c, r)
    BY <2>2 DEF Receive
  <2>4. r \in Request(Nat)
    BY RequestOK DEF TypeOK, BookkeepingOK
  <2>5. QED BY <2>1, <2>3, <2>4, AcceptedAlone
<1>4. QED BY <1>1, <1>2, <1>3

LEMMA TracedIsServer == [TracedNext]_Traced => [Next]_vars
BY DEF TracedNext, Traced

\* Whatever the order in which the statements of its handler run, a call that
\* nothing interferes with is answered and leaves the stores as the one atomic
\* step of its RPC does.
THEOREM CallsAreAtomic == TracedSpec => CallsAtomic
<1>1. TracedInit => ResultInv /\ AloneInv
  BY InitResultInv
     DEF TracedInit, Init, ServerInit, FramesInit, AloneInv
<1>2. ResultInv /\ AloneInv /\ [TracedNext]_Traced => ResultInv' /\ AloneInv'
  BY TracedIsServer, NextResultInv, NextAloneInv DEF ResultInv
<1>3. ResultInv /\ AloneInv /\ [TracedNext]_Traced =>
        [\A c \in Call :
           at[c] # Idle /\ at'[c] = Idle /\ snapshot'[c] # None =>
             [stores |-> Stores', reply |-> reply'[c]] \in
               Outcomes(snapshot[c].stores, arg[c], now, snapshot[c].uuids)
        ]_Traced
  BY StepAlone DEF ResultInv, Concluded, Before
<1>4. QED
  BY <1>1, <1>2, <1>3, PTL DEF TracedSpec, CallsAtomic, Traced

-----------------------------------------------------------------------------
(* Generated keys, when one call is handled at a time                      *)

OneCall == \A c, d \in Call : c = d

\* The position a key is generated for has no row yet.
KeyIsFree ==
  \A c \in Call :
    at[c] \in {"key_read", "key_insert"} =>
      checkpoints[arg[c].position] = None

KeyInv == ResultInv /\ KeyIsFree

LEMMA NextKeyIsFree ==
  ASSUME OneCall, TypeOK, KeyIsFree, [Next]_vars
  PROVE  KeyIsFree'
<1> SUFFICES ASSUME NEW c \in Call, at'[c] \in {"key_read", "key_insert"}
             PROVE  checkpoints'[arg'[c].position] = None
  BY DEF KeyIsFree
<1> USE DEF TypeOK, FramesOK, KeyIsFree
<1>1. CASE Receive(c)
  <2>1. PICK r \in Request(issued) : Accept(c, r)
    BY <1>1 DEF Receive
  <2>2. at'[c] = Entry(r.rpc)
    BY <2>1 DEF Accept
  <2>3. QED
    BY <2>2 DEF Entry, Request, StartRequest, CompleteRequest, LeaseRequest,
                CheckpointRequest, ReleaseRequest, KeyRequest
<1>2. CASE CheckpointServiceStep(c)
  <2>1. CASE KeyGet(c)
    BY <2>1 DEF KeyGet, Answer, StoredRow, stores, Idle
  <2>2. CASE KeyReadToken(c)
    BY <2>2 DEF KeyReadToken, Answer, stores, Idle
  <2>3. CASE ~KeyGet(c) /\ ~KeyReadToken(c)
    <3>1. at[c] \notin {"key_get", "key_read"}
      BY <1>2, <2>3
         DEF CheckpointServiceStep, LeaseGetCheckpoint, LeaseReadLease,
             LeaseReadToken, LeaseDecide, LeasePut, CheckpointReadToken,
             CheckpointGetLease, CheckpointDeleteLease, CheckpointDecide,
             CheckpointInsert, ReleaseDelete, KeyInsert
    <3>2. at'[c] \notin {"key_read", "key_insert"}
      BY <1>2, <2>3
         DEF CheckpointServiceStep, LeaseGetCheckpoint, LeaseReadLease,
             LeaseReadToken, LeaseDecide, LeasePut, CheckpointReadToken,
             CheckpointGetLease, CheckpointDeleteLease, CheckpointDecide,
             CheckpointInsert, ReleaseDelete, KeyInsert, Answer, Idle
    <3>3. QED BY <3>2
  <2>4. QED BY <2>1, <2>2, <2>3
<1>3. CASE WorkflowServiceStep(c)
  <2>1. at'[c] \notin {"key_read", "key_insert"}
    BY <1>3
       DEF WorkflowServiceStep, StartInsertRow, StartInsertRowFails,
           StartIncrement, StartReturn, FinishReadToken, FinishUpdate, Answer,
           Idle
  <2>2. QED BY <2>1
<1>4. ASSUME NEW k \in Sweep, CleanupStep(k)
      PROVE  checkpoints'[arg'[c].position] = None
  <2>1. UNCHANGED <<at, arg>>
    BY <1>4 DEF CleanupStep, CleanupStart, CleanupTokens, CleanupCheckpoints,
                CleanupWorkflows, CleanupFails, frames
  <2>2. UNCHANGED checkpoints \/ checkpoints' = [p \in Position |-> None]
    BY <1>4 DEF CleanupStep, CleanupStart, CleanupTokens, CleanupCheckpoints,
                CleanupWorkflows, CleanupFails, stores
  <2>3. arg[c].position \in Position
    BY <2>1 DEF FrameOK, KeyPoint, KeyRequest
  <2>4. QED BY <2>1, <2>2, <2>3
<1>5. CASE Environment
  <2>1. UNCHANGED checkpoints /\ (UNCHANGED <<at, arg>> \/ at'[c] = Idle)
    BY <1>5 DEF OneCall, Environment, Abandon, Answer, Restart, LeaseEvict,
                Tick, stores, frames
  <2>2. QED BY <2>1 DEF Idle
<1>6. CASE UNCHANGED vars
  BY <1>6 DEF vars, stores, frames
<1>7. ASSUME NEW d \in Call PROVE d = c
  BY DEF OneCall
<1>8. QED
  BY <1>1, <1>2, <1>3, <1>4, <1>5, <1>6, <1>7 DEF Next, ServerStep

\* The caller is answered with something other than a key.
LEMMA QuietKeyAnswer ==
  ASSUME TypeOK, Unanswered, NEW c \in Call, at[c] # Idle,
         NEW r, r.kind # "key", Answer(c, r)
  PROVE  ToldKey' = ToldKey
<1>1. reply[c] = None /\ reply' = [reply EXCEPT ![c] = r]
  BY DEF Unanswered, Answer
<1>2. ASSUME NEW d \in Call PROVE ToldKey'[d] = ToldKey[d]
  BY <1>1 DEF TypeOK, FramesOK, ToldKey
<1>3. QED BY <1>2 DEF ToldKey

\* A key that is answered.
LEMMA KeyAnswerTold ==
  ASSUME TypeOK, NEW c \in Call, NEW p \in Position, NEW key \in Key,
         Answer(c, KeyAnswer(p, key))
  PROVE  ToldKey' = [ToldKey EXCEPT ![c] = [position |-> p, value |-> key]]
<1> DEFINE r == KeyAnswer(p, key)
<1>1. r # None
  <2>1. r \in Reply
    BY DEF Reply, KeyAnswer
  <2>2. QED BY <2>1, NoneIsNoReply
<1>2. reply' = [reply EXCEPT ![c] = r]
  BY DEF Answer
<1>3. r.kind = "key" /\ r.position = p /\ r.idempotency_key = key
  BY DEF KeyAnswer
<1> HIDE DEF r
<1>4. ASSUME NEW d \in Call
      PROVE  ToldKey'[d] =
               [ToldKey EXCEPT ![c] = [position |-> p, value |-> key]][d]
  BY <1>1, <1>2, <1>3 DEF ToldKey, TypeOK, FramesOK
<1>5. QED BY <1>4 DEF ToldKey

\* A row that is inserted where there is none.
LEMMA InsertStoresKey ==
  ASSUME TypeOK, NEW p \in Position, NEW key \in Key,
         NEW value \in Value \cup {None},
         checkpoints' = [checkpoints EXCEPT ![p] =
                           InsertCheckpoint(@, key, value)]
  PROVE  \/ UNCHANGED StoredKey
         \/ StoredKey[p] = None /\ StoredKey' = [StoredKey EXCEPT ![p] = key]
<1>1. checkpoints \in [Position -> CheckpointRow \cup {None}]
  BY DEF TypeOK, StoresOK
<1>2. CASE checkpoints[p] # None
  <2>1. checkpoints' = checkpoints
    BY <1>1, <1>2 DEF InsertCheckpoint
  <2>2. QED BY <2>1 DEF StoredKey
<1>3. CASE checkpoints[p] = None
  <2>1. checkpoints'[p] = [idempotency_key |-> key, value |-> value]
    BY <1>1, <1>3 DEF InsertCheckpoint
  <2>2. checkpoints'[p] # None
    <3>1. checkpoints'[p] \in CheckpointRow
      BY <2>1 DEF CheckpointRow
    <3>2. QED BY <3>1, NoneIsNoEntry
  <2>3. ASSUME NEW q \in Position
        PROVE  StoredKey'[q] = [StoredKey EXCEPT ![p] = key][q]
    BY <1>1, <2>1, <2>2 DEF StoredKey
  <2>4. StoredKey' = [StoredKey EXCEPT ![p] = key]
    BY <2>3 DEF StoredKey
  <2>5. StoredKey[p] = None
    BY <1>3 DEF StoredKey
  <2>6. QED BY <2>4, <2>5
<1>4. QED BY <1>2, <1>3

\* A step of the checkpoint service.
LEMMA CheckpointServiceKeys ==
  ASSUME KeyInv, NEW c \in Call, CheckpointServiceStep(c)
  PROVE  Keys!Next \/ UNCHANGED Keys!vars
<1> DEFINE p == arg[c].position
<1> USE DEF KeyInv, ResultInv, Keys!vars
<1>1. CASE KeyGet(c)
  <2>1. UNCHANGED StoredKey
    BY <1>1 DEF KeyGet, stores, StoredKey
  <2>2. p \in Position /\ StoredRow(c) \in CheckpointRow \cup {None}
    BY <1>1 DEF KeyGet, StoredRow, TypeOK, StoresOK, FrameOK, KeyPoint,
                KeyRequest
  <2>3. CASE UNCHANGED reply
    BY <2>1, <2>3 DEF ToldKey
  <2>4. CASE /\ StoredRow(c) # None
             /\ Answer(c, KeyAnswer(p, StoredRow(c).idempotency_key))
    <3>1. /\ StoredKey[p] = StoredRow(c).idempotency_key
          /\ StoredRow(c).idempotency_key \in Key
      BY <2>2, <2>4 DEF StoredRow, StoredKey, CheckpointRow
    <3>2. StoredKey[p] # None
      BY <3>1, NoneAssumption
    <3>3. ToldKey' = [ToldKey EXCEPT ![c] =
                        [position |-> p, value |-> StoredKey[p]]]
      BY <2>2, <2>4, <3>1, KeyAnswerTold
    <3>4. Keys!Tell(c, p)
      BY <2>1, <3>2, <3>3 DEF Keys!Tell
    <3>5. QED BY <2>2, <3>4 DEF Keys!Next
  <2>5. QED BY <1>1, <2>3, <2>4 DEF KeyGet
<1>2. CASE KeyInsert(c)
  <2>1. PICK key \in Uuid \ drawn :
          /\ checkpoints' = [checkpoints EXCEPT ![p] =
                               InsertCheckpoint(@, key, None)]
          /\ Answer(c, KeyAnswer(p, key))
    BY <1>2 DEF KeyInsert
  <2>2. /\ p \in Position /\ key \in Key /\ checkpoints[p] = None
        /\ checkpoints \in [Position -> CheckpointRow \cup {None}]
    BY <1>2, ParameterAssumption
       DEF KeyInsert, KeyIsFree, TypeOK, StoresOK, FrameOK, KeyPoint, KeyRequest
  <2>3. checkpoints'[p] = [idempotency_key |-> key, value |-> None]
    BY <2>1, <2>2 DEF InsertCheckpoint
  <2>4. checkpoints'[p] # None /\ checkpoints'[p].idempotency_key = key
    <3>1. checkpoints'[p] \in CheckpointRow
      BY <2>2, <2>3 DEF CheckpointRow
    <3>2. QED BY <2>3, <3>1, NoneIsNoEntry
  <2>5. StoredKey[p] = None /\ StoredKey'[p] = key
    BY <2>2, <2>4 DEF StoredKey
  <2>6. StoredKey' = [StoredKey EXCEPT ![p] = key]
    <3>1. key # None
      BY <2>2, NoneAssumption
    <3>2. \/ UNCHANGED StoredKey
          \/ StoredKey[p] = None /\ StoredKey' = [StoredKey EXCEPT ![p] = key]
      BY <2>1, <2>2, InsertStoresKey
    <3>3. QED BY <2>5, <3>1, <3>2
  <2>7. ToldKey' = [ToldKey EXCEPT ![c] = [position |-> p, value |-> key]]
    BY <2>1, <2>2, KeyAnswerTold
  <2>8. Keys!Claim(c, p, key)
    BY <2>5, <2>6, <2>7 DEF Keys!Claim
  <2>9. QED BY <2>2, <2>8 DEF Keys!Next
<1>3. CASE CheckpointInsert(c)
  <2>1. ToldKey' = ToldKey
    BY <1>3, QuietKeyAnswer DEF CheckpointInsert, Idle
  <2>2. /\ p \in Position /\ arg[c].idempotency_key \in Key
        /\ arg[c].value \in Value
    BY <1>3 DEF CheckpointInsert, TypeOK, FrameOK, CheckpointPoint,
                CheckpointRequest
  <2>3. \/ UNCHANGED StoredKey
        \/ /\ StoredKey[p] = None
           /\ StoredKey' = [StoredKey EXCEPT ![p] = arg[c].idempotency_key]
    BY <1>3, <2>2, InsertStoresKey DEF CheckpointInsert
  <2>4. QED BY <2>1, <2>2, <2>3 DEF Keys!Write, Keys!Next
<1>4. CASE ~KeyGet(c) /\ ~KeyInsert(c) /\ ~CheckpointInsert(c)
  <2>1. UNCHANGED StoredKey
    BY <1>4 DEF CheckpointServiceStep, LeaseGetCheckpoint, LeaseReadLease,
                LeaseReadToken, LeaseDecide, LeasePut, CheckpointReadToken,
                CheckpointGetLease, CheckpointDeleteLease, CheckpointDecide,
                ReleaseDelete, KeyReadToken, stores, StoredKey
  <2>2. at[c] # Idle
    BY <1>4 DEF CheckpointServiceStep, LeaseGetCheckpoint, LeaseReadLease,
                LeaseReadToken, LeaseDecide, LeasePut, CheckpointReadToken,
                CheckpointGetLease, CheckpointDeleteLease, CheckpointDecide,
                ReleaseDelete, KeyReadToken, Idle
  <2>3. CASE \E r : r.kind # "key" /\ Answer(c, r)
    BY <2>1, <2>2, <2>3, QuietKeyAnswer
  <2>4. CASE UNCHANGED reply
    BY <2>1, <2>4 DEF ToldKey
  <2>5. ASSUME NEW code PROVE Error(code).kind # "key"
    BY DEF Error
  <2>6. ASSUME NEW kind \in {"granted", "released"}
        PROVE  Done(kind).kind # "key"
    BY DEF Done
  <2>7. CASE LeaseGetCheckpoint(c) \/ LeaseDecide(c)
    <3>1. ASSUME NEW q, NEW v
          PROVE  [kind |-> "value", position |-> q, value |-> v].kind # "key"
      OBVIOUS
    <3>2. ASSUME NEW n PROVE [kind |-> "wait", remaining |-> n].kind # "key"
      OBVIOUS
    <3>3. QED
      BY <2>3, <2>4, <2>5, <2>7, <3>1, <3>2 DEF LeaseGetCheckpoint, LeaseDecide
  <2>8. CASE CheckpointDecide(c) \/ KeyReadToken(c)
    BY <2>3, <2>4, <2>5, <2>8 DEF CheckpointDecide, KeyReadToken
  <2>9. CASE LeasePut(c) \/ ReleaseDelete(c)
    BY <2>3, <2>6, <2>9 DEF LeasePut, ReleaseDelete
  <2>10. CASE \/ LeaseReadLease(c) \/ LeaseReadToken(c)
              \/ CheckpointReadToken(c) \/ CheckpointGetLease(c)
              \/ CheckpointDeleteLease(c)
    BY <2>4, <2>10 DEF LeaseReadLease, LeaseReadToken, CheckpointReadToken,
                       CheckpointGetLease, CheckpointDeleteLease
  <2>11. QED
    BY <1>4, <2>7, <2>8, <2>9, <2>10 DEF CheckpointServiceStep
<1>5. QED BY <1>1, <1>2, <1>3, <1>4

\* A step of the workflow service stutters.
LEMMA WorkflowServiceKeys ==
  ASSUME KeyInv, NEW c \in Call, WorkflowServiceStep(c)
  PROVE  UNCHANGED Keys!vars
<1>1. UNCHANGED StoredKey
  BY DEF WorkflowServiceStep, StartInsertRow, StartInsertRowFails,
         StartIncrement, StartReturn, FinishReadToken, FinishUpdate, stores,
         StoredKey
<1>2. at[c] # Idle
  BY DEF WorkflowServiceStep, StartInsertRow, StartInsertRowFails,
         StartIncrement, StartReturn, FinishReadToken, FinishUpdate, Idle
<1>3. CASE \E r : r.kind # "key" /\ Answer(c, r)
  BY <1>1, <1>2, <1>3, QuietKeyAnswer DEF KeyInv, ResultInv, Keys!vars
<1>4. CASE UNCHANGED reply
  BY <1>1, <1>4 DEF ToldKey, Keys!vars
<1>5. ASSUME NEW code PROVE Error(code).kind # "key"
  BY DEF Error
<1>6. Done("completed").kind # "key"
  BY DEF Done
<1>7. QED
  BY <1>3, <1>4, <1>5, <1>6
     DEF WorkflowServiceStep, StartInsertRow, StartInsertRowFails,
         StartIncrement, StartReturn, FinishReadToken, FinishUpdate

\* Every step of the server is one of WriteOnce, or stutters.
LEMMA NextKeys ==
  ASSUME KeyInv, [Next]_vars
  PROVE  Keys!Next \/ UNCHANGED Keys!vars
<1> USE DEF KeyInv, ResultInv
<1>1. ASSUME NEW c \in Call, Receive(c) PROVE Keys!Next
  <2>1. reply' = [reply EXCEPT ![c] = None] /\ UNCHANGED StoredKey
    BY <1>1 DEF Receive, Accept, stores, StoredKey
  <2>2. ASSUME NEW d \in Call
        PROVE  ToldKey'[d] = [ToldKey EXCEPT ![c] = None][d]
    BY <2>1 DEF ToldKey, TypeOK, FramesOK
  <2>3. ToldKey' = [ToldKey EXCEPT ![c] = None]
    BY <2>2 DEF ToldKey
  <2>4. QED BY <2>1, <2>3 DEF Keys!Forget, Keys!Next
<1>2. ASSUME NEW k \in Sweep, CleanupStep(k)
      PROVE  Keys!Next \/ UNCHANGED Keys!vars
  <2>1. UNCHANGED ToldKey
    BY <1>2 DEF CleanupStep, CleanupStart, CleanupTokens, CleanupCheckpoints,
                CleanupWorkflows, CleanupFails, frames, ToldKey
  <2>2. CASE UNCHANGED checkpoints
    BY <2>1, <2>2 DEF StoredKey, Keys!vars
  <2>3. CASE checkpoints' = [p \in Position |-> None]
    <3>1. StoredKey' = [p \in Position |-> None]
      BY <2>3 DEF StoredKey
    <3>2. QED BY <2>1, <3>1 DEF Keys!Purge, Keys!Next
  <2>4. QED
    BY <1>2, <2>2, <2>3
       DEF CleanupStep, CleanupStart, CleanupTokens, CleanupCheckpoints,
           CleanupWorkflows, CleanupFails, stores
<1>3. CASE Environment
  <2>1. UNCHANGED StoredKey
    BY <1>3 DEF Environment, Abandon, Restart, LeaseEvict, Tick, stores,
                StoredKey
  <2>2. UNCHANGED ToldKey
    <3>1. ASSUME NEW c \in Call, Abandon(c) PROVE UNCHANGED ToldKey
      BY <3>1, QuietKeyAnswer DEF Abandon, Error
    <3>2. CASE Restart
      <4>1. ASSUME NEW d \in Call PROVE ToldKey'[d] = ToldKey[d]
        BY <3>2 DEF Restart, Unanswered, ToldKey, Error
      <4>2. QED BY <4>1 DEF ToldKey
    <3>3. CASE UNCHANGED reply
      BY <3>3 DEF ToldKey
    <3>4. QED
      BY <1>3, <3>1, <3>2, <3>3 DEF Environment, LeaseEvict, Tick, frames
  <2>3. QED BY <2>1, <2>2 DEF Keys!vars
<1>4. CASE UNCHANGED vars
  BY <1>4 DEF vars, stores, frames, StoredKey, ToldKey, Keys!vars
<1>5. QED
  BY <1>1, <1>2, <1>3, <1>4, CheckpointServiceKeys, WorkflowServiceKeys
     DEF Next, ServerStep

\* When calls come one at a time the key generated for a position is stored
\* there, and whoever asks for a key is told that one, although the row is
\* looked up and inserted in different statements, and cleanup jobs run and
\* faults strike in between.
THEOREM GeneratedKeysAreDurable == OneCall => (Spec => DurableKeys)
<1> SUFFICES ASSUME OneCall PROVE Spec => DurableKeys
  OBVIOUS
<1>1. Init => KeyInv
  BY InitResultInv
     DEF KeyInv, KeyIsFree, Init, ServerInit, FramesInit, Idle
<1>2. KeyInv /\ [Next]_vars => KeyInv'
  BY NextResultInv, NextKeyIsFree DEF KeyInv, ResultInv
<1>3. Init => Keys!Init
  BY DEF Init, ServerInit, FramesInit, Keys!Init, StoredKey, ToldKey
<1>4. KeyInv /\ [Next]_vars => [Keys!Next]_(Keys!vars)
  BY NextKeys
<1>5. QED
  BY <1>1, <1>2, <1>3, <1>4, PTL DEF Spec, DurableKeys, Keys!Spec
=============================================================================
