--------------------------- MODULE ResultsProofs ---------------------------
(***************************************************************************)
(* The server implements WriteOnce, and what it acknowledges it has, for   *)
(* every number of calls and jobs and every bound.                         *)
(***************************************************************************)
EXTENDS ServerProofs

\* While a call is handled its caller has no answer yet.
Unanswered == \A c \in Call : at[c] # Idle => reply[c] = None

\* Only a generated key makes a row without a value.
NullIsGenerated ==
  \A p \in Position :
    checkpoints[p] # None /\ checkpoints[p].value = None =>
      checkpoints[p].idempotency_key \in drawn

ResultInv == TypeOK /\ Unanswered /\ NullIsGenerated

-----------------------------------------------------------------------------
(* The invariant                                                           *)

\* Initially no call is handled and nothing is stored.
LEMMA InitResultInv == Init => ResultInv
<1>1. Init => TypeOK
  BY InitTypeOK
<1>2. Init => Unanswered /\ NullIsGenerated
  BY DEF Init, ServerInit, FramesInit, BookkeepingInit, Unanswered,
         NullIsGenerated
<1>3. QED BY <1>1, <1>2 DEF ResultInv

\* A call is handled without an answer until it gets one.
LEMMA NextUnanswered ==
  ASSUME TypeOK, Unanswered, [Next]_vars
  PROVE  Unanswered'
<1> USE DEF stores, frames, locals, bookkeeping, history, TypeOK, FramesOK,
            Unanswered
<1>1. ASSUME NEW c \in Call, Receive(c) PROVE Unanswered'
  BY <1>1 DEF Receive, Accept
<1>2. ASSUME NEW c \in Call, NEW r, Answer(c, r) PROVE Unanswered'
  BY <1>2 DEF Answer
<1>3. ASSUME NEW c \in Call, at[c] # Idle, NEW point,
             at' = [at EXCEPT ![c] = point], UNCHANGED reply
      PROVE  Unanswered'
  BY <1>3
<1>4. ASSUME NEW c \in Call, CheckpointServiceStep(c) PROVE Unanswered'
  <2>1. CASE \E r : Answer(c, r)
    BY <1>2, <2>1
  <2>2. CASE ~\E r : Answer(c, r)
    <3>1. at[c] # Idle /\ UNCHANGED reply
            /\ (UNCHANGED at \/ \E point : at' = [at EXCEPT ![c] = point])
      BY <1>4, <2>2
         DEF CheckpointServiceStep, LeaseGetCheckpoint, LeaseReadLease,
             LeaseReadToken, LeaseDecide, LeasePut, CheckpointReadToken,
             CheckpointGetLease, CheckpointDeleteLease, CheckpointDecide,
             CheckpointInsert, ReleaseDelete, KeyGet, KeyReadToken, KeyInsert,
             Idle
    <3>2. QED BY <1>3, <3>1
  <2>3. QED BY <2>1, <2>2
<1>5. ASSUME NEW c \in Call, WorkflowServiceStep(c) PROVE Unanswered'
  <2>1. CASE \E r : Answer(c, r)
    BY <1>2, <2>1
  <2>2. CASE ~\E r : Answer(c, r)
    <3>1. at[c] # Idle /\ UNCHANGED reply
            /\ (UNCHANGED at \/ \E point : at' = [at EXCEPT ![c] = point])
      BY <1>5, <2>2
         DEF WorkflowServiceStep, StartInsertRow, StartInsertRowFails,
             StartIncrement, StartReturn, FinishReadToken, FinishUpdate, Idle
    <3>2. QED BY <1>3, <3>1
  <2>3. QED BY <2>1, <2>2
<1>6. ASSUME NEW k \in Sweep, CleanupStep(k) PROVE Unanswered'
  BY <1>6 DEF CleanupStep, CleanupStart, CleanupTokens, CleanupCheckpoints,
              CleanupWorkflows, CleanupFails
<1>7. CASE Environment
  BY <1>2, <1>7 DEF Environment, Abandon, Restart, LeaseEvict, Tick
<1>8. CASE UNCHANGED vars
  BY <1>8 DEF vars
<1>9. QED BY <1>1, <1>4, <1>5, <1>6, <1>7, <1>8 DEF Next, ServerStep

-----------------------------------------------------------------------------
(* The tables                                                              *)

\* The steps that insert into or delete from the checkpoint table.
Inserting(c) == CheckpointInsert(c) \/ KeyInsert(c)
Deleting(k) == CleanupCheckpoints(k)

\* No other step touches it, and no UUID is drawn but by KeyInsert.
LEMMA CheckpointsKept ==
  ASSUME [Next]_vars,
         \A c \in Call : ~Inserting(c), \A k \in Sweep : ~Deleting(k)
  PROVE  UNCHANGED <<checkpoints, drawn>>
<1> USE DEF stores, frames, locals, bookkeeping, history, Inserting, Deleting
<1>1. ASSUME NEW c \in Call, Receive(c) PROVE UNCHANGED <<checkpoints, drawn>>
  BY <1>1 DEF Receive, Accept
<1>2. ASSUME NEW c \in Call, CheckpointServiceStep(c)
      PROVE  UNCHANGED <<checkpoints, drawn>>
  BY <1>2 DEF CheckpointServiceStep, LeaseGetCheckpoint, LeaseReadLease,
              LeaseReadToken, LeaseDecide, LeasePut, CheckpointReadToken,
              CheckpointGetLease, CheckpointDeleteLease, CheckpointDecide,
              ReleaseDelete, KeyGet, KeyReadToken
<1>3. ASSUME NEW c \in Call, WorkflowServiceStep(c)
      PROVE  UNCHANGED <<checkpoints, drawn>>
  BY <1>3 DEF WorkflowServiceStep, StartInsertRow, StartInsertRowFails,
              StartIncrement, StartReturn, FinishReadToken, FinishUpdate
<1>4. ASSUME NEW k \in Sweep, CleanupStep(k)
      PROVE  UNCHANGED <<checkpoints, drawn>>
  BY <1>4 DEF CleanupStep, CleanupStart, CleanupTokens, CleanupWorkflows,
              CleanupFails
<1>5. CASE Environment
  BY <1>5 DEF Environment, Abandon, Restart, LeaseEvict, Tick
<1>6. CASE UNCHANGED vars
  BY <1>6 DEF vars
<1>7. QED BY <1>1, <1>2, <1>3, <1>4, <1>5, <1>6 DEF Next, ServerStep

\* A row without a value stays one of a generated key.
LEMMA NextNullIsGenerated ==
  ASSUME TypeOK, NullIsGenerated, [Next]_vars
  PROVE  NullIsGenerated'
<1>1. ASSUME NEW c \in Call, CheckpointInsert(c) PROVE NullIsGenerated'
  <2>1. arg[c].value # None /\ UNCHANGED drawn
    BY <1>1, NoneAssumption
       DEF CheckpointInsert, bookkeeping, TypeOK, FrameOK, CheckpointPoint,
           CheckpointRequest
  <2>2. QED
    BY <1>1, <2>1 DEF CheckpointInsert, InsertCheckpoint, TypeOK, StoresOK,
                      NullIsGenerated
<1>2. ASSUME NEW c \in Call, KeyInsert(c) PROVE NullIsGenerated'
  BY <1>2 DEF KeyInsert, InsertCheckpoint, TypeOK, StoresOK, NullIsGenerated
<1>3. ASSUME NEW k \in Sweep, CleanupCheckpoints(k) PROVE NullIsGenerated'
  BY <1>3 DEF CleanupCheckpoints, bookkeeping, NullIsGenerated
<1>4. CASE (\A c \in Call : ~Inserting(c)) /\ \A k \in Sweep : ~Deleting(k)
  BY <1>4, CheckpointsKept DEF NullIsGenerated
<1>5. QED BY <1>1, <1>2, <1>3, <1>4 DEF Inserting, Deleting

\* ResultInv is inductive.
LEMMA NextResultInv == ResultInv /\ [Next]_vars => ResultInv'
BY NextTypeOK, NextUnanswered, NextNullIsGenerated DEF ResultInv

-----------------------------------------------------------------------------
\* A call is answered by a step of its own, or told that it failed.
LEMMA AnsweredByOwnStep ==
  ASSUME TypeOK, [Next]_vars, NEW c \in Call, at[c] # Idle,
         reply'[c] # reply[c]
  PROVE  \/ CheckpointServiceStep(c) \/ WorkflowServiceStep(c)
         \/ reply'[c] = Error("unavailable")
<1> USE DEF stores, frames, locals, bookkeeping, history, TypeOK, FramesOK
<1>1. ASSUME NEW d \in Call, d # c, NEW r, Answer(d, r) PROVE FALSE
  BY <1>1 DEF Answer
<1>2. ASSUME NEW d \in Call, Receive(d) PROVE FALSE
  BY <1>2 DEF Receive, Accept
<1>3. ASSUME NEW d \in Call, d # c, CheckpointServiceStep(d) PROVE FALSE
  <2>1. ~\E r : Answer(d, r)
    BY <1>1, <1>3
  <2>2. UNCHANGED reply
    BY <1>3, <2>1
       DEF CheckpointServiceStep, LeaseGetCheckpoint, LeaseReadLease,
           LeaseReadToken, LeaseDecide, LeasePut, CheckpointReadToken,
           CheckpointGetLease, CheckpointDeleteLease, CheckpointDecide,
           CheckpointInsert, ReleaseDelete, KeyGet, KeyReadToken, KeyInsert
  <2>3. QED BY <2>2
<1>4. ASSUME NEW d \in Call, d # c, WorkflowServiceStep(d) PROVE FALSE
  <2>1. ~\E r : Answer(d, r)
    BY <1>1, <1>4
  <2>2. UNCHANGED reply
    BY <1>4, <2>1
       DEF WorkflowServiceStep, StartInsertRow, StartInsertRowFails,
           StartIncrement, StartReturn, FinishReadToken, FinishUpdate
  <2>3. QED BY <2>2
<1>5. ASSUME NEW k \in Sweep, CleanupStep(k) PROVE FALSE
  BY <1>5 DEF CleanupStep, CleanupStart, CleanupTokens, CleanupCheckpoints,
              CleanupWorkflows, CleanupFails
<1>6. CASE Environment
  <2>1. CASE Restart
    BY <2>1 DEF Restart
  <2>2. ASSUME NEW d \in Call, Abandon(d)
        PROVE  reply'[c] = Error("unavailable")
    BY <2>2 DEF Abandon, Answer
  <2>3. QED BY <1>6, <2>1, <2>2 DEF Environment, LeaseEvict, Tick
<1>7. CASE UNCHANGED vars
  BY <1>7 DEF vars
<1>8. QED BY <1>2, <1>3, <1>4, <1>5, <1>6, <1>7 DEF Next, ServerStep

\* A checkpoint call answered without an error leaves a result in its
\* position, unless a generated key holds it.
THEOREM AcknowledgedStored == Spec => AcknowledgedIsStored
<1>1. ASSUME ResultInv, [Next]_vars, NEW c \in Call,
             at[c] = "checkpoint_insert",
             reply'[c] # None, reply'[c].kind = "saved"
      PROVE  LET row == checkpoints'[arg[c].position]
             IN  row # None
                   /\ (row.value # None \/ row.idempotency_key \in drawn)
  <2>1. reply[c] = None
    BY <1>1 DEF ResultInv, Unanswered, Idle
  <2>2. CheckpointServiceStep(c) \/ WorkflowServiceStep(c)
    BY <1>1, <2>1, AnsweredByOwnStep DEF ResultInv, Error, Idle
  <2>3. CheckpointInsert(c)
    BY <1>1, <2>1, <2>2
       DEF CheckpointServiceStep, LeaseGetCheckpoint, LeaseReadLease,
           LeaseReadToken, LeaseDecide, LeasePut, CheckpointReadToken,
           CheckpointGetLease, CheckpointDeleteLease, CheckpointDecide,
           ReleaseDelete, KeyGet, KeyReadToken, KeyInsert,
           WorkflowServiceStep, StartInsertRow, StartInsertRowFails,
           StartIncrement, StartReturn, FinishReadToken, FinishUpdate
  <2>4. arg[c] \in CheckpointRequest(Nat)
    BY <1>1 DEF ResultInv, TypeOK, FrameOK, CheckpointPoint
  <2>5. arg[c].position \in Position /\ arg[c].value # None
    BY <2>4, NoneAssumption DEF CheckpointRequest
  <2>6. checkpoints[arg[c].position] \in CheckpointRow \cup {None}
    BY <1>1, <2>5 DEF ResultInv, TypeOK, StoresOK
  <2>7. checkpoints'[arg[c].position] =
          InsertCheckpoint(checkpoints[arg[c].position],
                           arg[c].idempotency_key, arg[c].value)
    BY <1>1, <2>3, <2>5 DEF CheckpointInsert, ResultInv, TypeOK, StoresOK
  <2>8. CASE checkpoints[arg[c].position] = None
    <3>1. checkpoints'[arg[c].position] =
            [idempotency_key |-> arg[c].idempotency_key, value |-> arg[c].value]
      BY <2>7, <2>8 DEF InsertCheckpoint
    <3>2. InsertCheckpoint(None, arg[c].idempotency_key, arg[c].value)
            \in CheckpointRow
      BY <2>4, InsertCheckpointOK DEF CheckpointRequest
    <3>3. checkpoints'[arg[c].position] # None
      BY <2>7, <2>8, <3>2, NoneIsNoEntry
    <3>4. QED BY <2>5, <3>1, <3>3
  <2>9. CASE checkpoints[arg[c].position] # None
    BY <1>1, <2>5, <2>7, <2>9 DEF InsertCheckpoint, ResultInv, NullIsGenerated
  <2>10. QED BY <2>8, <2>9
<1>2. ResultInv /\ [Next]_vars =>
        [\A c \in Call :
           /\ at[c] = "checkpoint_insert"
           /\ reply'[c] # None /\ reply'[c].kind = "saved"
           => LET row == checkpoints'[arg[c].position]
              IN  row # None
                    /\ (row.value # None \/ row.idempotency_key \in drawn)
        ]_vars
  BY <1>1
<1>3. QED
  BY <1>2, InitResultInv, NextResultInv, PTL DEF Spec, AcknowledgedIsStored
-----------------------------------------------------------------------------
(* The server implements WriteOnce                                         *)

\* The caller is answered with something other than a value.
LEMMA QuietAnswer ==
  ASSUME TypeOK, Unanswered, NEW c \in Call, at[c] # Idle,
         NEW r, r.kind # "value", Answer(c, r)
  PROVE  ToldResult' = ToldResult
<1>1. reply[c] = None /\ reply' = [reply EXCEPT ![c] = r]
  BY DEF Unanswered, Answer
<1>2. ASSUME NEW d \in Call PROVE ToldResult'[d] = ToldResult[d]
  BY <1>1 DEF TypeOK, FramesOK, ToldResult
<1>3. QED BY <1>2 DEF ToldResult

\* An insert into an empty position is a Write, any other a stutter.
LEMMA InsertIsWrite ==
  ASSUME TypeOK, NEW c \in Call, CheckpointInsert(c)
  PROVE  \/ UNCHANGED StoredResult
         \/ /\ StoredResult[arg[c].position] = None
            /\ StoredResult' =
                 [StoredResult EXCEPT ![arg[c].position] = arg[c].value]
<1> DEFINE p == arg[c].position
<1>1. p \in Position /\ arg[c].idempotency_key \in Key /\ arg[c].value \in Value
  BY DEF CheckpointInsert, TypeOK, FrameOK, CheckpointPoint, CheckpointRequest
<1>2. checkpoints' = [checkpoints EXCEPT ![p] =
        InsertCheckpoint(@, arg[c].idempotency_key, arg[c].value)]
  BY DEF CheckpointInsert
<1>3. checkpoints \in [Position -> CheckpointRow \cup {None}]
  BY DEF TypeOK, StoresOK
<1> HIDE DEF p
<1>4. CASE checkpoints[p] # None
  <2>1. checkpoints' = checkpoints
    BY <1>1, <1>2, <1>3, <1>4 DEF InsertCheckpoint
  <2>2. QED BY <2>1 DEF StoredResult
<1>5. CASE checkpoints[p] = None
  <2>1. checkpoints'[p] = [idempotency_key |-> arg[c].idempotency_key,
                           value |-> arg[c].value]
    BY <1>1, <1>2, <1>3, <1>5 DEF InsertCheckpoint
  <2>2. checkpoints'[p] # None
    <3>1. checkpoints'[p] \in CheckpointRow
      BY <1>1, <2>1 DEF CheckpointRow
    <3>2. QED BY <3>1, NoneIsNoEntry
  <2>3. ASSUME NEW q \in Position
        PROVE  StoredResult'[q] =
                 [StoredResult EXCEPT ![p] = arg[c].value][q]
    BY <1>1, <1>2, <1>3, <2>1, <2>2 DEF StoredResult
  <2>4. StoredResult' = [StoredResult EXCEPT ![p] = arg[c].value]
    BY <2>3 DEF StoredResult
  <2>5. StoredResult[p] = None
    BY <1>1, <1>5 DEF StoredResult
  <2>6. QED BY <2>4, <2>5 DEF p
<1>6. QED BY <1>4, <1>5

\* A row without a value leaves the results as they are.
LEMMA KeyInsertKeepsResults ==
  ASSUME TypeOK, NEW c \in Call, KeyInsert(c)
  PROVE  UNCHANGED StoredResult
<1>1. PICK key \in Uuid :
        checkpoints' = [checkpoints EXCEPT ![arg[c].position] =
                          InsertCheckpoint(@, key, None)]
  BY DEF KeyInsert
<1>2. checkpoints \in [Position -> CheckpointRow \cup {None}]
  BY DEF TypeOK, StoresOK
<1>3. ASSUME NEW q \in Position PROVE StoredResult'[q] = StoredResult[q]
  BY <1>1, <1>2 DEF InsertCheckpoint, StoredResult
<1>4. QED BY <1>3 DEF StoredResult

\* The initial states.
LEMMA InitResults == Init => Results!Init
BY DEF Init, ServerInit, FramesInit, Results!Init, StoredResult, ToldResult

\* A step of the checkpoint service.
LEMMA CheckpointServiceResults ==
  ASSUME ResultInv, NEW c \in Call, CheckpointServiceStep(c)
  PROVE  Results!Next \/ UNCHANGED Results!vars
<1> USE DEF ResultInv, Results!vars
<1>1. CASE LeaseGetCheckpoint(c)
  <2>1. UNCHANGED StoredResult
    BY <1>1 DEF LeaseGetCheckpoint, stores, StoredResult
  <2>2. /\ arg[c].position \in Position
        /\ StoredRow(c) \in CheckpointRow \cup {None}
    BY <1>1 DEF LeaseGetCheckpoint, StoredRow, TypeOK, StoresOK, FrameOK,
                LeasePoint, LeaseRequest
  <2>3. CASE UNCHANGED reply
    BY <2>1, <2>3 DEF ToldResult
  <2>4. ASSUME NEW code, Answer(c, Error(code)) PROVE UNCHANGED Results!vars
    BY <1>1, <2>1, <2>4, QuietAnswer DEF LeaseGetCheckpoint, Error, Idle
  <2>5. CASE /\ StoredRow(c) # None /\ StoredRow(c).value # None
             /\ Answer(c, [kind |-> "value", position |-> arg[c].position,
                           value |-> StoredRow(c).value])
    <3> DEFINE p == arg[c].position
    <3>1. StoredResult[p] = StoredRow(c).value
      BY <2>2, <2>5 DEF StoredRow, StoredResult
    <3> DEFINE r == [kind |-> "value", position |-> p,
                     value |-> StoredRow(c).value]
    <3>2. r # None
      <4>1. r \in Reply
        BY <2>2, <2>5 DEF Reply, CheckpointRow
      <4>2. QED BY <4>1, NoneIsNoReply
    <3>3. reply' = [reply EXCEPT ![c] = r]
      BY <2>5 DEF Answer
    <3>4. r.kind = "value" /\ r.position = p /\ r.value = StoredResult[p]
      BY <3>1
    <3> HIDE DEF r, p
    <3>5. ASSUME NEW d \in Call
          PROVE  ToldResult'[d] =
                   [ToldResult EXCEPT ![c] =
                      [position |-> p, value |-> StoredResult[p]]][d]
      BY <3>2, <3>3, <3>4 DEF ToldResult, TypeOK, FramesOK
    <3>6. ToldResult' = [ToldResult EXCEPT ![c] =
                           [position |-> p, value |-> StoredResult[p]]]
      BY <3>5 DEF ToldResult
    <3>7. p \in Position /\ StoredResult[p] # None
      BY <2>2, <2>5, <3>1 DEF p
    <3>8. Results!Tell(c, p)
      BY <2>1, <3>6, <3>7 DEF Results!Tell
    <3>9. QED BY <3>7, <3>8 DEF Results!Next
  <2>6. QED BY <1>1, <2>3, <2>4, <2>5 DEF LeaseGetCheckpoint
<1>2. CASE LeaseReadLease(c) \/ LeaseReadToken(c) \/ CheckpointReadToken(c)
             \/ CheckpointGetLease(c) \/ CheckpointDeleteLease(c)
  BY <1>2 DEF LeaseReadLease, LeaseReadToken, CheckpointReadToken,
              CheckpointGetLease, CheckpointDeleteLease, stores,
              StoredResult, ToldResult
<1>3. CASE CheckpointInsert(c)
  <2>1. ToldResult' = ToldResult
    BY <1>3, QuietAnswer DEF CheckpointInsert, Idle
  <2>2. arg[c].position \in Position /\ arg[c].value \in Value
    BY <1>3 DEF CheckpointInsert, TypeOK, FrameOK, CheckpointPoint,
                CheckpointRequest
  <2>3. CASE UNCHANGED StoredResult
    BY <2>1, <2>3
  <2>4. CASE /\ StoredResult[arg[c].position] = None
             /\ StoredResult' =
                  [StoredResult EXCEPT ![arg[c].position] = arg[c].value]
    <3>1. Results!Write(arg[c].position, arg[c].value)
      BY <2>1, <2>4 DEF Results!Write
    <3>2. QED BY <2>2, <3>1 DEF Results!Next
  <2>5. QED BY <1>3, <2>3, <2>4, InsertIsWrite
<1>4. CASE KeyInsert(c)
  <2>1. UNCHANGED StoredResult
    BY <1>4, KeyInsertKeepsResults
  <2>2. ToldResult' = ToldResult
    BY <1>4, QuietAnswer DEF KeyInsert, KeyAnswer, Idle
  <2>3. QED BY <2>1, <2>2
<1>5. CASE LeaseDecide(c) \/ LeasePut(c) \/ CheckpointDecide(c)
             \/ ReleaseDelete(c) \/ KeyGet(c) \/ KeyReadToken(c)
  <2>1. UNCHANGED StoredResult
    BY <1>5 DEF LeaseDecide, LeasePut, CheckpointDecide, ReleaseDelete, KeyGet,
                KeyReadToken, stores, StoredResult
  <2>2. at[c] # Idle
    BY <1>5 DEF LeaseDecide, LeasePut, CheckpointDecide, ReleaseDelete, KeyGet,
                KeyReadToken, Idle
  <2>3. CASE \E r : r.kind # "value" /\ Answer(c, r)
    BY <2>1, <2>2, <2>3, QuietAnswer
  <2>4. CASE UNCHANGED reply
    BY <2>1, <2>4 DEF ToldResult
  <2>5. ASSUME NEW code PROVE Error(code).kind # "value"
    BY DEF Error
  <2>6. ASSUME NEW kind \in {"granted", "released"}
        PROVE  Done(kind).kind # "value"
    BY DEF Done
  <2>7. ASSUME NEW p, NEW key PROVE KeyAnswer(p, key).kind # "value"
    BY DEF KeyAnswer
  <2>8. QED
    BY <1>5, <2>3, <2>4, <2>5, <2>6, <2>7
       DEF LeaseDecide, LeasePut, CheckpointDecide, ReleaseDelete, KeyGet,
           KeyReadToken
<1>6. QED
  BY <1>1, <1>2, <1>3, <1>4, <1>5 DEF CheckpointServiceStep

\* A step of the workflow service stutters.
LEMMA WorkflowServiceResults ==
  ASSUME ResultInv, NEW c \in Call, WorkflowServiceStep(c)
  PROVE  UNCHANGED Results!vars
<1>1. UNCHANGED StoredResult
  BY DEF WorkflowServiceStep, StartInsertRow, StartInsertRowFails,
         StartIncrement, StartReturn, FinishReadToken, FinishUpdate, stores,
         StoredResult
<1>2. at[c] # Idle
  BY DEF WorkflowServiceStep, StartInsertRow, StartInsertRowFails,
         StartIncrement, StartReturn, FinishReadToken, FinishUpdate, Idle
<1>3. CASE \E r : r.kind # "value" /\ Answer(c, r)
  BY <1>1, <1>2, <1>3, QuietAnswer DEF ResultInv, Results!vars
<1>4. CASE UNCHANGED reply
  BY <1>1, <1>4 DEF ToldResult, Results!vars
<1>5. ASSUME NEW code PROVE Error(code).kind # "value"
  BY DEF Error
<1>6. Done("completed").kind # "value"
  BY DEF Done
<1>7. QED
  BY <1>3, <1>4, <1>5, <1>6
     DEF WorkflowServiceStep, StartInsertRow, StartInsertRowFails,
         StartIncrement, StartReturn, FinishReadToken, FinishUpdate

\* Every step of the server is one of WriteOnce, or stutters.
LEMMA NextResults ==
  ASSUME ResultInv, [Next]_vars
  PROVE  Results!Next \/ UNCHANGED Results!vars
<1> USE DEF ResultInv
<1>1. ASSUME NEW c \in Call, Receive(c) PROVE Results!Next
  <2>1. reply' = [reply EXCEPT ![c] = None] /\ UNCHANGED StoredResult
    BY <1>1 DEF Receive, Accept, stores, StoredResult
  <2>2. ASSUME NEW d \in Call
        PROVE  ToldResult'[d] = [ToldResult EXCEPT ![c] = None][d]
    BY <2>1 DEF ToldResult, TypeOK, FramesOK
  <2>3. ToldResult' = [ToldResult EXCEPT ![c] = None]
    BY <2>2 DEF ToldResult
  <2>4. QED BY <2>1, <2>3 DEF Results!Forget, Results!Next
<1>2. ASSUME NEW k \in Sweep, CleanupStep(k)
      PROVE  Results!Next \/ UNCHANGED Results!vars
  <2>1. UNCHANGED ToldResult
    BY <1>2 DEF CleanupStep, CleanupStart, CleanupTokens, CleanupCheckpoints,
                CleanupWorkflows, CleanupFails, frames, ToldResult
  <2>2. CASE UNCHANGED checkpoints
    BY <2>1, <2>2 DEF StoredResult, Results!vars
  <2>3. CASE checkpoints' = [p \in Position |-> None]
    <3>1. StoredResult' = [p \in Position |-> None]
      BY <2>3 DEF StoredResult
    <3>2. QED BY <2>1, <3>1 DEF Results!Purge, Results!Next
  <2>4. QED
    BY <1>2, <2>2, <2>3
       DEF CleanupStep, CleanupStart, CleanupTokens, CleanupCheckpoints,
           CleanupWorkflows, CleanupFails, stores
<1>3. CASE Environment
  <2>1. UNCHANGED StoredResult
    BY <1>3 DEF Environment, Abandon, Restart, LeaseEvict, Tick, stores,
                StoredResult
  <2>2. UNCHANGED ToldResult
    <3>1. ASSUME NEW c \in Call, Abandon(c) PROVE UNCHANGED ToldResult
      BY <3>1, QuietAnswer DEF Abandon, Error
    <3>2. CASE Restart
      <4>1. ASSUME NEW d \in Call PROVE ToldResult'[d] = ToldResult[d]
        BY <3>2 DEF Restart, Unanswered, ToldResult, Error
      <4>2. QED BY <4>1 DEF ToldResult
    <3>3. CASE UNCHANGED reply
      BY <3>3 DEF ToldResult
    <3>4. QED
      BY <1>3, <3>1, <3>2, <3>3 DEF Environment, LeaseEvict, Tick, frames
  <2>3. QED BY <2>1, <2>2 DEF Results!vars
<1>4. CASE UNCHANGED vars
  BY <1>4 DEF vars, stores, frames, StoredResult, ToldResult, Results!vars
<1>5. QED
  BY <1>1, <1>2, <1>3, <1>4, CheckpointServiceResults, WorkflowServiceResults
     DEF Next, ServerStep

\* The server implements WriteOnce: between purges a position's result is
\* written at most once, and every lease call that is answered with a value
\* is answered with that result.
THEOREM ServerImplementsWriteOnce == Spec => ResultsWrittenOnce
<1>1. Init => Results!Init
  BY InitResults
<1>2. ResultInv /\ [Next]_vars => [Results!Next]_(Results!vars)
  BY NextResults
<1>3. QED
  BY <1>1, <1>2, InitResultInv, NextResultInv, PTL
     DEF Spec, ResultsWrittenOnce, Results!Spec
=============================================================================
