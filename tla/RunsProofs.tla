----------------------------- MODULE RunsProofs -----------------------------
(***************************************************************************)
(* What runs of a workflow do to each other, for every number of runs and  *)
(* of positions and every bound: that an abort is due, that the results    *)
(* they return are stored, and what holds when a retry waits for the run   *)
(* before it to end.                                                       *)
(***************************************************************************)
EXTENDS ClientProofs

ExecutePoint == LeasePoint \cup CheckpointPoint \cup KeyPoint \cup {"release_delete"}

\* A call is about the position the run is at, and saves the run's own result.
CallsHere ==
  \A w \in Worker :
    /\ at[w] \in ExecutePoint => arg[w].position = position[w]
    /\ at[w] \in CheckpointPoint => arg[w].value = w

\* What a run is told of its position is stored there.
ToldIsStored ==
  \A w \in Worker :
    /\ Answered(w, "leasing") /\ Resolved(w, "value") =>
         StoredResult[position[w]] = reply[w].value
    /\ Answered(w, "checkpointing") /\ Resolved(w, "saved") =>
         checkpoints[position[w]] # None

\* Unless keys are generated, every row has a result.
NoNullRows ==
  /\ \A w \in Worker : at[w] \notin KeyPoint
  /\ \A p \in Position : checkpoints[p] # None => checkpoints[p].value # None

\* A run that returns only what is stored.
ReturnsStored ==
  \A w \in Worker, p \in Position :
    returned[w][p] # None => StoredResult[p] = returned[w][p]

-----------------------------------------------------------------------------
(* Runs one after the other                                                *)

Busy(w) == Alive(w) \/ at[w] # Idle

OneRun == \A u, w \in Worker : Busy(u) /\ Busy(w) => u = w

\* The run that may start its task finds no row.
FreeRow ==
  \A w \in Worker :
    \/ at[w] \in {"lease_read", "lease_put"}
    \/ Answered(w, "leasing") /\ Resolved(w, "granted")
    \/ pc[w] = "running"
    => checkpoints[position[w]] = None

\* The row of a position whose task has run is that run's.
OwnResult ==
  \A w \in Worker :
    pc[w] \in {"saving", "checkpointing"} /\ checkpoints[position[w]] # None =>
      checkpoints[position[w]].value = w

\* The lease that was read is still the one there, or it is gone.
LeaseSeen ==
  \A w \in Worker :
    /\ at[w] = "lease_read" /\ "lease" \notin todo[w] =>
         leases[arg[w].position] \in {None, lease[w]}
    /\ at[w] = "lease_put" =>
         \/ leases[arg[w].position] = None
         \/ RemainingLease(leases[arg[w].position], now) <= 0

SequentialInv == OneRun /\ FreeRow /\ OwnResult /\ LeaseSeen

RunsInv ==
  /\ CallsHere /\ ToldIsStored
  /\ ~MayGenerateKeys => NoNullRows
  /\ Sequential => SequentialInv
  /\ OnAbort /\ Sequential => ReturnsStored
  /\ OnAbort /\ ~MayGenerateKeys => ReturnedIsStored

-----------------------------------------------------------------------------
(* What a step leaves alone                                                *)

RunKept(u) ==
  /\ pc'[u] = pc[u] /\ position'[u] = position[u] /\ returned'[u] = returned[u]
  /\ FrameKept(u)

\* A client's step leaves the other runs and the stores alone.
LEMMA ClientOthers ==
  ASSUME TypeOK, ClientTypeOK, PositionInRange,
         NEW w \in Worker, ClientStep(w) \/ ClientFault(w)
  PROVE  /\ UNCHANGED <<stores, order>>
         /\ \A u \in Worker : u # w => RunKept(u)
<1>1. /\ UNCHANGED <<stores>>
      /\ \A u \in Worker : u # w => FrameKept(u)
  BY ClientTouches
     DEF Accept, Keeps, stores, locals, FrameKept, TypeOK, FramesOK, Worker
<1>2. /\ UNCHANGED order
      /\ \A u \in Worker :
           u # w => /\ pc'[u] = pc[u] /\ position'[u] = position[u]
                    /\ returned'[u] = returned[u]
  BY DEF ClientStep, ClientFault, Start, StartAnswered, KeyCall, KeyAnswered,
         LeaseCall, LeaseAnswered, TaskReturns, ReleaseAnswered, SaveCall,
         SaveAnswered, SaveExpires, RollBack, CompleteCall, CompleteAnswered,
         TaskThrows, SerializeThrows, DeserializeThrows, Crash, LoseReply,
         Goto, Return, FaultyGoto, Send, clientVars, ClientTypeOK
<1>3. QED BY <1>1, <1>2 DEF RunKept

\* A run comes to await an answer by calling.
LEMMA AwaitsByCall ==
  ASSUME TypeOK, ClientTypeOK, NEW w \in Worker, ClientStep(w) \/ ClientFault(w),
         pc'[w] \in Awaiting, pc'[w] # pc[w]
  PROVE  at'[w] # Idle
<1>1. ASSUME NEW p, NEW r, Send(w, p, r), Entry(r.rpc) # Idle
      PROVE  at'[w] # Idle
  BY <1>1 DEF Send, Accept, TypeOK, FramesOK, Worker
<1>2. CASE \/ Start(w) \/ KeyCall(w) \/ LeaseCall(w) \/ SaveCall(w)
           \/ CompleteCall(w) \/ TaskThrows(w)
  BY <1>1, <1>2 DEF Start, KeyCall, LeaseCall, SaveCall, CompleteCall,
                    TaskThrows, Entry, Idle
<1>3. CASE \/ StartAnswered(w) \/ KeyAnswered(w) \/ LeaseAnswered(w)
           \/ TaskReturns(w) \/ ReleaseAnswered(w) \/ SaveAnswered(w)
           \/ SaveExpires(w) \/ RollBack(w) \/ CompleteAnswered(w)
           \/ SerializeThrows(w) \/ DeserializeThrows(w)
           \/ Crash(w) \/ LoseReply(w)
  <2>1. pc' = pc \/ \E p \in Working \cup Stopped : pc' = [pc EXCEPT ![w] = p]
    BY <1>3 DEF StartAnswered, KeyAnswered, LeaseAnswered, TaskReturns,
                ReleaseAnswered, SaveAnswered, SaveExpires, RollBack,
                CompleteAnswered, SerializeThrows, DeserializeThrows, Crash,
                LoseReply, Goto, Return, FaultyGoto, clientVars, Working,
                Stopped
  <2>2. QED BY <2>1 DEF ClientTypeOK, Awaiting, Working, Stopped
<1>4. QED BY <1>2, <1>3 DEF ClientStep, ClientFault

\* A server's step leaves the runs alone, and all frames but one, or drops
\* them.
LEMMA ServerOthers ==
  ASSUME TypeOK, ServerSide(ServerMoves)
  PROVE  /\ UNCHANGED <<pc, position, returned, superseded>>
         /\ \/ \E w \in Worker :
                 /\ CheckpointServiceStep(w) \/ WorkflowServiceStep(w)
                 /\ \A u \in Worker : u # w => FrameKept(u)
            \/ Environment /\ \A u \in Worker : FrameKept(u) \/ FrameDropped(u)
<1>1. UNCHANGED <<pc, position, returned, superseded>> /\ ServerMoves
  BY DEF ServerSide
<1>2. ASSUME NEW w \in Worker, CheckpointServiceStep(w) \/ WorkflowServiceStep(w)
      PROVE  \A u \in Worker : u # w => FrameKept(u)
  BY <1>2, OtherFrames DEF Worker
<1>3. Environment => \A u \in Worker : FrameKept(u) \/ FrameDropped(u)
  BY EnvironmentFrames DEF Worker
<1>4. QED BY <1>1, <1>2, <1>3 DEF ServerMoves

\* The run's call, if a step of the client's makes one.
Calls(w, r) ==
  /\ at'[w] = Entry(r.rpc) /\ arg'[w] = r /\ position'[w] = position[w]
  /\ r.rpc \in {"lease", "checkpoint", "key", "release"} =>
       r.position = position[w]
  /\ r.rpc = "checkpoint" => r.value = w
  /\ r.rpc = "key" => MayGenerateKeys

\* A client's step makes a call or leaves the frame of the run alone.
LEMMA ClientFrame ==
  ASSUME ClientInv, NEW w \in Worker, ClientStep(w) \/ ClientFault(w)
  PROVE  \/ \E r \in Request(Nat) : Calls(w, r)
         \/ /\ at'[w] = at[w] /\ arg'[w] = arg[w] /\ todo'[w] = todo[w]
            /\ lease'[w] = lease[w]
            /\ position'[w] = position[w] \/ at[w] = Idle
<1> USE DEF ClientInv
<1>2. CASE \E r \in Request(Nat) : Accept(w, r)
  <2>1. PICK r \in Request(Nat) : Accept(w, r)
    BY <1>2
  <2>2. at'[w] = Entry(r.rpc) /\ arg'[w] = r /\ at[w] = Idle /\ at'[w] # Idle
    BY <2>1, RequestOK DEF Accept, TypeOK, FramesOK, Worker
  <2>3. ASSUME NEW p, NEW s, Send(w, p, s) PROVE s = r
    BY <2>2, <2>3 DEF Send, Accept, TypeOK, FramesOK, Worker
  <2>4. CASE \/ Start(w) \/ KeyCall(w) \/ LeaseCall(w) \/ SaveCall(w)
             \/ CompleteCall(w) \/ TaskThrows(w)
    <3>1. position' = position
      BY <2>4 DEF Start, KeyCall, LeaseCall, SaveCall, CompleteCall, TaskThrows
    <3>2. CASE Start(w)
      BY <2>2, <2>3, <3>1, <3>2 DEF Start, Calls
    <3>3. CASE KeyCall(w)
      BY <2>2, <2>3, <3>1, <3>3 DEF KeyCall, Calls
    <3>4. CASE LeaseCall(w)
      BY <2>2, <2>3, <3>1, <3>4 DEF LeaseCall, Calls
    <3>5. CASE SaveCall(w)
      BY <2>2, <2>3, <3>1, <3>5 DEF SaveCall, Calls
    <3>6. CASE CompleteCall(w)
      BY <2>2, <2>3, <3>1, <3>6 DEF CompleteCall, Calls
    <3>7. CASE TaskThrows(w)
      BY <2>2, <2>3, <3>1, <3>7 DEF TaskThrows, Calls
    <3>8. QED BY <2>4, <3>2, <3>3, <3>4, <3>5, <3>6, <3>7
  <2>5. CASE \/ StartAnswered(w) \/ KeyAnswered(w) \/ LeaseAnswered(w)
             \/ TaskReturns(w) \/ ReleaseAnswered(w) \/ SaveAnswered(w)
             \/ SaveExpires(w) \/ RollBack(w) \/ CompleteAnswered(w)
             \/ SerializeThrows(w) \/ DeserializeThrows(w)
             \/ Crash(w) \/ LoseReply(w)
    BY <2>2, <2>5
       DEF StartAnswered, KeyAnswered, LeaseAnswered, TaskReturns,
           ReleaseAnswered, SaveAnswered, SaveExpires, RollBack,
           CompleteAnswered, SerializeThrows, DeserializeThrows, Crash,
           LoseReply, Goto, Return, FaultyGoto, vars, frames
  <2>6. QED BY <2>4, <2>5 DEF ClientStep, ClientFault
<1>3. CASE Keeps(w)
  <2>1. UNCHANGED <<at, arg, todo, lease>>
    BY <1>3 DEF Keeps, locals
  <2>2. position'[w] = position[w] \/ at[w] = Idle
    BY DEF ClientStep, ClientFault, Start, StartAnswered, KeyCall, KeyAnswered,
           LeaseCall, LeaseAnswered, TaskReturns, ReleaseAnswered, SaveCall,
           SaveAnswered, SaveExpires, RollBack, CompleteCall, CompleteAnswered,
           TaskThrows, SerializeThrows, DeserializeThrows, Crash, LoseReply,
           Goto, Return, FaultyGoto, clientVars, Answered, CallAwaited, Awaiting
  <2>3. QED BY <2>1, <2>2
<1>4. QED BY <1>2, <1>3, ClientTouches

\* An answer that a run finds after its own step was there before.
LEMMA AnsweredBefore ==
  ASSUME ClientInv, NEW w \in Worker, ClientStep(w) \/ ClientFault(w),
         pc'[w] \in Awaiting, at'[w] = Idle, reply'[w].kind # "error"
  PROVE  /\ pc[w] = pc'[w] /\ at[w] = Idle /\ reply[w] = reply'[w]
         /\ position'[w] = position[w]
<1> USE DEF ClientInv
<1>1. pc'[w] = pc[w]
  BY AwaitsByCall
<1>2. ~\E r \in Request(Nat) : Accept(w, r)
  BY RequestOK DEF Accept, TypeOK, FramesOK, Worker
<1>3. Keeps(w)
  BY <1>2, ClientTouches
<1>4. at' = at /\ reply' = reply
  <2>1. Error("unavailable").kind = "error"
    BY DEF Error
  <2>2. reply' # [reply EXCEPT ![w] = Error("unavailable")]
    BY <2>1 DEF TypeOK, FramesOK, Worker
  <2>3. QED BY <1>3, <2>2 DEF Keeps
<1>5. position'[w] = position[w]
  BY <1>1 DEF ClientStep, ClientFault, Start, StartAnswered, KeyCall,
              KeyAnswered, LeaseCall, LeaseAnswered, TaskReturns,
              ReleaseAnswered, SaveCall, SaveAnswered, SaveExpires, RollBack,
              CompleteCall, CompleteAnswered, TaskThrows, SerializeThrows,
              DeserializeThrows, Crash, LoseReply, Goto, Return, FaultyGoto,
              clientVars, ClientTypeOK, Awaiting
<1>6. QED BY <1>1, <1>4, <1>5

\* Where the answers that matter come from.
LEMMA HandlerAnswers ==
  ASSUME TypeOK, NEW w \in Call,
         CheckpointServiceStep(w) \/ WorkflowServiceStep(w), at'[w] = Idle
  PROVE  /\ reply'[w].kind = "value" =>
              /\ at[w] = "lease_get" /\ checkpoints' = checkpoints
              /\ StoredRow(w) # None /\ StoredRow(w).value # None
              /\ reply'[w].value = StoredRow(w).value
         /\ reply'[w].kind = "granted" => LeasePut(w)
         /\ reply'[w].kind = "saved" => CheckpointInsert(w)
<1> USE DEF TypeOK, FramesOK, Answer, Error, Done, KeyAnswer, Idle
<1>1. CASE LeaseGetCheckpoint(w)
  BY <1>1 DEF LeaseGetCheckpoint, stores
<1>2. CASE LeasePut(w) \/ CheckpointInsert(w)
  BY <1>2 DEF LeasePut, CheckpointInsert
<1>3. CASE LeaseReadLease(w) \/ LeaseReadToken(w) \/ LeaseDecide(w)
  <2>1. CASE LeaseReadLease(w) \/ LeaseReadToken(w)
    BY <2>1 DEF LeaseReadLease, LeaseReadToken
  <2>2. CASE LeaseDecide(w)
    <3> DEFINE r == [kind |-> "wait",
                     remaining |-> RemainingLease(lease[w], now)]
    <3>1. \/ at' = [at EXCEPT ![w] = "lease_put"]
          \/ reply' = [reply EXCEPT ![w] = r]
          \/ \E code : reply' = [reply EXCEPT ![w] = Error(code)]
      BY <2>2 DEF LeaseDecide
    <3>2. r.kind = "wait" /\ \A code : Error(code).kind = "error"
      OBVIOUS
    <3> HIDE DEF r
    <3>3. QED BY <3>1, <3>2
  <2>3. QED BY <1>3, <2>1, <2>2
<1>4. CASE \/ CheckpointReadToken(w) \/ CheckpointGetLease(w)
           \/ CheckpointDeleteLease(w) \/ CheckpointDecide(w)
  BY <1>4 DEF CheckpointReadToken, CheckpointGetLease, CheckpointDeleteLease,
              CheckpointDecide
<1>5. CASE ReleaseDelete(w) \/ KeyGet(w) \/ KeyReadToken(w) \/ KeyInsert(w)
  BY <1>5 DEF ReleaseDelete, KeyGet, KeyReadToken, KeyInsert
<1>6. CASE WorkflowServiceStep(w)
  BY <1>6 DEF WorkflowServiceStep, StartInsertRow, StartInsertRowFails,
              StartIncrement, StartReturn, FinishReadToken, FinishUpdate
<1>7. QED
  BY <1>1, <1>2, <1>3, <1>4, <1>5, <1>6 DEF CheckpointServiceStep

-----------------------------------------------------------------------------
(* Aborts                                                                  *)

AbortTold(w) == Answered(w, "checkpointing") /\ Resolved(w, "saved") /\ reply[w].abort
Outranked(w) == \E u \in Worker : order[u] > order[w]

\* Only a run whose call finds a later token than its own is told to abort.
LEMMA AbortStep ==
  ASSUME ClientInv, NEW w \in Worker,
         CheckpointServiceStep(w) \/ WorkflowServiceStep(w), AbortTold(w)'
  PROVE  Outranked(w)
<1> USE DEF ClientInv
<1>1. CheckpointInsert(w)
  BY HandlerAnswers DEF AbortTold, Answered, Resolved, Worker
<1>2. reply'[w] = [kind |-> "saved", abort |-> Stale(w)]
  BY <1>1 DEF CheckpointInsert, Answer, TypeOK, FramesOK, Worker
<1>3. token[w] > order[w]
  <2>1. Stale(w)
    BY <1>2 DEF AbortTold
  <2>2. arg[w].fencing_token = order[w]
    BY <1>1 DEF CheckpointInsert, CheckpointPoint, RankIsToken
  <2>3. QED BY <2>1, <2>2 DEF Stale
<1>4. token[w] \in Nat /\ order[w] \in Nat /\ Stored \in Nat /\ token[w] <= Stored
  BY <1>1, NoneAssumption
     DEF CheckpointInsert, TypeOK, FrameOK, StoresOK, ClientTypeOK, Worker,
         Stored, TokenStored
<1>5. PICK u \in Worker : order[u] = Stored
  BY <1>3, <1>4 DEF RanksCounted
<1>6. QED BY <1>3, <1>4, <1>5 DEF Outranked

\* A run that is outranked stays so, unless it is given a token itself.
LEMMA OutrankedStays ==
  ASSUME ClientInv, ServerSide(ServerMoves), NEW w \in Worker, pc[w] = "checkpointing",
         Outranked(w)
  PROVE  Outranked(w)'
<1> USE DEF ClientInv
<1>1. CASE \A v \in Worker : ~StartIncrement(v)
  BY <1>1, RanksKept DEF Outranked
<1>2. ASSUME NEW v \in Worker, StartIncrement(v)
      PROVE  Outranked(w)'
  <2>1. /\ order[v] = 0 /\ order' = [order EXCEPT ![v] = Stored + 1]
        /\ at[v] = "start"
    BY <1>2, RankGiven
  <2>2. v # w
    BY <2>1 DEF CallAwaited, Awaiting, PointsOf, CheckpointPoint, Idle
  <2>3. PICK u \in Worker : order[u] > order[w]
    BY DEF Outranked
  <2>4. u # v
    BY <2>1, <2>3 DEF ClientTypeOK
  <2>5. QED BY <2>1, <2>2, <2>3, <2>4 DEF Outranked, ClientTypeOK
<1>3. QED BY <1>1, <1>2

\* Whoever is told to abort is outranked.
LEMMA NextAbortIsDue ==
  ASSUME ClientInv, AbortIsDue, [SystemNext]_systemVars
  PROVE  AbortIsDue'
<1>1. ASSUME NEW w \in Worker, ClientStep(w) \/ ClientFault(w), NEW u \in Worker,
             AbortTold(u)'
      PROVE  Outranked(u)'
  <2>1. order' = order /\ (u # w => RunKept(u))
    BY <1>1, ClientOthers DEF ClientInv
  <2>2. u = w => pc[u] = pc'[u] /\ at[u] = at'[u] /\ reply[u] = reply'[u]
    BY <1>1, AnsweredBefore DEF AbortTold, Answered, Resolved, Awaiting
  <2>3. QED
    BY <1>1, <2>1, <2>2
       DEF AbortIsDue, AbortTold, Outranked, Answered, Resolved, RunKept, FrameKept
<1>2. ASSUME ServerSide(ServerMoves), NEW u \in Worker, AbortTold(u)'
      PROVE  Outranked(u)'
  <2>1. UNCHANGED pc /\ pc[u] = "checkpointing"
    BY <1>2 DEF ServerSide, AbortTold, Answered
  <2>2. Outranked(u)
    <3>1. CASE FrameKept(u)
      BY <1>2, <2>1, <3>1
         DEF AbortIsDue, AbortTold, Outranked, Answered, Resolved, FrameKept
    <3>2. CASE FrameDropped(u)
      BY <1>2, <2>1, <3>2
         DEF AbortIsDue, AbortTold, Outranked, Answered, Resolved, FrameDropped,
             Error
    <3>3. CASE CheckpointServiceStep(u) \/ WorkflowServiceStep(u)
      BY <1>2, <3>3, AbortStep
    <3>4. QED BY <1>2, <3>1, <3>2, <3>3, ServerOthers DEF ClientInv
  <2>3. QED BY <1>2, <2>1, <2>2, OutrankedStays
<1>3. CASE UNCHANGED systemVars
  BY <1>3 DEF AbortIsDue, Answered, Resolved, systemVars, clientVars, vars, frames
<1>4. (\A u \in Worker : AbortTold(u)' => Outranked(u)') => AbortIsDue'
  BY DEF AbortIsDue, AbortTold, Outranked, Answered, Resolved
<1>5. QED BY <1>1, <1>2, <1>3, <1>4, SystemSteps

\* A run is told to abort, and so undoes its task, only when a later run has
\* been given a token: never because of its own expired lease, a restart or an
\* answer that was lost.
THEOREM AbortsAreDue == SystemSpec => []AbortIsDue
<1>1. SystemInit => AbortIsDue
  BY DEF SystemInit, AbortIsDue, Answered
<1>2. ClientInv /\ AbortIsDue /\ [SystemNext]_systemVars => AbortIsDue'
  BY NextAbortIsDue
<1>3. QED BY <1>1, <1>2, ClientInvHolds, PTL DEF SystemSpec

-----------------------------------------------------------------------------
(* Rows                                                                    *)

\* No row is changed or deleted.
RowsKept ==
  \A p \in Position : checkpoints[p] # None => checkpoints'[p] = checkpoints[p]

\* What an insert does.
LEMMA InsertedRow ==
  ASSUME TypeOK, NEW w \in Call, CheckpointInsert(w) \/ KeyInsert(w)
  PROVE  /\ RowsKept
         /\ checkpoints'[arg[w].position] # None
         /\ \A p \in Position :
              checkpoints[p] = None /\ checkpoints'[p] # None =>
                /\ p = arg[w].position
                /\ CheckpointInsert(w) => checkpoints'[p].value = arg[w].value
<1>1. arg[w].position \in Position
  BY DEF TypeOK, FrameOK, CheckpointPoint, KeyPoint, CheckpointRequest,
         KeyRequest, CheckpointInsert, KeyInsert
<1>2. \E key \in Key, value \in Value \cup {None} :
        /\ checkpoints' = [checkpoints EXCEPT ![arg[w].position] =
                             InsertCheckpoint(@, key, value)]
        /\ CheckpointInsert(w) => value = arg[w].value
  <2>1. CASE CheckpointInsert(w)
    BY <2>1 DEF TypeOK, FrameOK, CheckpointPoint, CheckpointRequest,
                CheckpointInsert
  <2>2. CASE KeyInsert(w)
    BY <2>2, ParameterAssumption DEF CheckpointInsert, KeyInsert
  <2>3. QED BY <2>1, <2>2
<1>3. PICK key \in Key, value \in Value \cup {None} :
        /\ checkpoints' = [checkpoints EXCEPT ![arg[w].position] =
                             InsertCheckpoint(@, key, value)]
        /\ CheckpointInsert(w) => value = arg[w].value
  BY <1>2
<1>4. [idempotency_key |-> key, value |-> value] # None
  <2>1. [idempotency_key |-> key, value |-> value] \in CheckpointRow
    BY DEF CheckpointRow
  <2>2. QED BY <2>1, NoneIsNoEntry
<1>5. QED
  BY <1>1, <1>3, <1>4 DEF InsertCheckpoint, RowsKept, TypeOK, StoresOK

\* No other step of the server's touches the table.
LEMMA HandlerRows ==
  ASSUME NEW w \in Call, CheckpointServiceStep(w) \/ WorkflowServiceStep(w)
  PROVE  CheckpointInsert(w) \/ KeyInsert(w) \/ checkpoints' = checkpoints
BY DEF CheckpointServiceStep, LeaseGetCheckpoint, LeaseReadLease,
       LeaseReadToken, LeaseDecide, LeasePut, CheckpointReadToken,
       CheckpointGetLease, CheckpointDeleteLease, CheckpointDecide,
       ReleaseDelete, KeyGet, KeyReadToken, WorkflowServiceStep,
       StartInsertRow, StartInsertRowFails, StartIncrement, StartReturn,
       FinishReadToken, FinishUpdate, stores

LEMMA EnvironmentStores ==
  ASSUME TypeOK, Environment
  PROVE  /\ checkpoints' = checkpoints
         /\ \A p \in Position : leases'[p] \in {None, leases[p]}
         /\ now' \in Nat /\ now <= now'
<1>1. now \in Nat /\ leases \in [Position -> LeaseEntry \cup {None}]
  BY DEF TypeOK, StoresOK
<1>2. ASSUME NEW c \in Call, Abandon(c)
      PROVE  UNCHANGED <<checkpoints, leases, now>>
  BY <1>2 DEF Abandon, stores
<1>3. CASE Restart
  BY <1>1, <1>3 DEF Restart
<1>4. ASSUME NEW p \in Position, LeaseEvict(p)
      PROVE  /\ UNCHANGED <<checkpoints, now>>
             /\ leases' = [leases EXCEPT ![p] = None]
  BY <1>4 DEF LeaseEvict
<1>5. CASE Tick
  BY <1>1, <1>5 DEF Tick
<1>6. QED BY <1>1, <1>2, <1>3, <1>4, <1>5 DEF Environment

LEMMA SystemRows ==
  ASSUME ClientInv, [SystemNext]_systemVars
  PROVE  RowsKept
<1> USE DEF ClientInv
<1>1. ASSUME NEW w \in Worker, ClientStep(w) \/ ClientFault(w) PROVE RowsKept
  BY <1>1, ClientOthers DEF RowsKept, stores
<1>2. CASE ServerSide(ServerMoves)
  BY <1>2, HandlerRows, InsertedRow, EnvironmentStores
     DEF ServerSide, ServerMoves, RowsKept, Worker
<1>3. CASE UNCHANGED systemVars
  BY <1>3 DEF RowsKept, systemVars, vars, stores
<1>4. QED BY <1>1, <1>2, <1>3, SystemSteps

\* A result that is stored stays.
LEMMA ResultsStay ==
  ASSUME RowsKept, NEW p \in Position, StoredResult[p] # None
  PROVE  StoredResult'[p] = StoredResult[p]
BY DEF RowsKept, StoredResult

-----------------------------------------------------------------------------
(* Calls, and what a run is told                                           *)

\* A call is about the run's position.
LEMMA NextCallsHere ==
  ASSUME ClientInv, CallsHere, [SystemNext]_systemVars
  PROVE  CallsHere'
<1> USE DEF ClientInv
<1>1. ASSUME NEW w \in Worker, ClientStep(w) \/ ClientFault(w) PROVE CallsHere'
  <2>1. \A u \in Worker : u # w => RunKept(u)
    BY <1>1, ClientOthers
  <2>2. CASE \E r \in Request(Nat) : Calls(w, r)
    <3>1. PICK r \in Request(Nat) : Calls(w, r)
      BY <2>2
    <3>2. r.rpc \in {"start", "lease", "checkpoint", "key", "complete", "release"}
      BY DEF Request, StartRequest, LeaseRequest, CheckpointRequest,
             KeyRequest, CompleteRequest, ReleaseRequest
    <3>3. /\ at'[w] \in ExecutePoint => arg'[w].position = position'[w]
          /\ at'[w] \in CheckpointPoint => arg'[w].value = w
      BY <3>1, <3>2 DEF Calls, Entry, ExecutePoint, LeasePoint,
                        CheckpointPoint, KeyPoint
    <3>4. QED BY <2>1, <3>3 DEF CallsHere, RunKept, FrameKept
  <2>3. CASE /\ at'[w] = at[w] /\ arg'[w] = arg[w]
             /\ position'[w] = position[w] \/ at[w] = Idle
    <3>1. Idle \notin ExecutePoint \cup CheckpointPoint
      BY DEF Idle, ExecutePoint, LeasePoint, CheckpointPoint, KeyPoint
    <3>2. QED BY <2>1, <2>3, <3>1 DEF CallsHere, RunKept, FrameKept
  <2>4. QED BY <1>1, <2>2, <2>3, ClientFrame
<1>2. ASSUME ServerSide(ServerMoves), NEW u \in Worker
      PROVE  CallsHere!(u)'
  <2>1. UNCHANGED position
    BY <1>2 DEF ServerSide
  <2>2. CASE FrameKept(u)
    BY <2>1, <2>2 DEF CallsHere, FrameKept
  <2>3. CASE at'[u] = Idle
    BY <2>3 DEF Idle, ExecutePoint, LeasePoint, CheckpointPoint, KeyPoint
  <2>4. CASE CheckpointServiceStep(u) \/ WorkflowServiceStep(u)
    <3>1. PICK p \in Awaiting : /\ at[u] \in PointsOf(p)
                                /\ GoesOn(u, p) \/ Answers(u, p)
      BY <2>4, HandlerPoints DEF Worker
    <3>2. at'[u] = Idle \/ (at'[u] \in PointsOf(p) /\ arg'[u] = arg[u])
      BY <3>1 DEF GoesOn, Answers, Answer, TypeOK, FramesOK, Worker
    <3>3. CASE at'[u] \in PointsOf(p) /\ arg'[u] = arg[u]
      <4>1. /\ at'[u] \in ExecutePoint => at[u] \in ExecutePoint
            /\ at'[u] \in CheckpointPoint => at[u] \in CheckpointPoint
        BY <3>1, <3>3 DEF Awaiting, PointsOf, ExecutePoint, LeasePoint,
                          CheckpointPoint, KeyPoint, CompletePoint
      <4>2. QED BY <2>1, <3>3, <4>1 DEF CallsHere
    <3>4. QED BY <2>3, <3>2, <3>3
  <2>5. QED
    BY <1>2, <2>2, <2>3, <2>4, ServerOthers DEF FrameDropped
<1>3. CASE UNCHANGED systemVars
  BY <1>3 DEF CallsHere, systemVars, clientVars, vars, frames
<1>4. QED BY <1>1, <1>2, <1>3, SystemSteps DEF CallsHere

\* What a run has been told stays stored.
LEMMA NextToldIsStored ==
  ASSUME ClientInv, CallsHere, ToldIsStored, [SystemNext]_systemVars
  PROVE  ToldIsStored'
<1> USE DEF ClientInv
<1>1. RowsKept
  BY SystemRows
<1>2. ASSUME NEW u \in Worker, pc[u] = pc'[u], position'[u] = position[u],
             at[u] = Idle, reply'[u] = reply[u]
      PROVE  ToldIsStored!(u)'
  <2>1. CASE pc[u] = "leasing" /\ reply[u].kind = "value"
    <3>1. position[u] \in Position /\ reply[u].value # None
      BY <1>2, <2>1, ReplyFields, NoneAssumption
         DEF CallAwaited, Awaiting, PositionInRange, Executing
    <3>2. StoredResult[position[u]] = reply[u].value
      BY <1>2, <2>1 DEF ToldIsStored, Answered, Resolved
    <3>3. StoredResult'[position[u]] = reply[u].value
      BY <1>1, <3>1, <3>2, ResultsStay
    <3>4. QED BY <1>2, <2>1, <3>3 DEF Answered, Resolved
  <2>2. CASE pc[u] = "checkpointing" /\ reply[u].kind = "saved"
    <3>1. position[u] \in Position /\ checkpoints[position[u]] # None
      BY <1>2, <2>2 DEF ToldIsStored, Answered, Resolved, PositionInRange,
                        Executing
    <3>2. QED BY <1>1, <1>2, <2>2, <3>1 DEF RowsKept, Answered, Resolved
  <2>3. QED BY <1>2, <2>1, <2>2 DEF Answered, Resolved
<1>3. ASSUME NEW w \in Worker, ClientStep(w) \/ ClientFault(w), NEW u \in Worker
      PROVE  ToldIsStored!(u)'
  <2>1. CASE at'[u] = Idle /\ pc'[u] \in Awaiting /\ reply'[u].kind # "error"
    <3>1. CASE u = w
      BY <1>2, <1>3, <2>1, <3>1, AnsweredBefore
    <3>2. CASE u # w
      <4>1. RunKept(u)
        BY <1>3, <3>2, ClientOthers
      <4>2. QED BY <1>2, <2>1, <4>1 DEF RunKept, FrameKept
    <3>3. QED BY <3>1, <3>2
  <2>2. CASE ~(at'[u] = Idle /\ pc'[u] \in Awaiting /\ reply'[u].kind # "error")
    BY <2>2 DEF Answered, Resolved, Awaiting
  <2>3. QED BY <2>1, <2>2
<1>4. ASSUME ServerSide(ServerMoves), NEW u \in Worker
      PROVE  ToldIsStored!(u)'
  <2>1. UNCHANGED <<pc, position>>
    BY <1>4 DEF ServerSide
  <2>2. CASE at'[u] # Idle \/ reply'[u].kind = "error"
    BY <2>2 DEF Answered, Resolved
  <2>3. CASE FrameKept(u) /\ at'[u] = Idle
    BY <1>2, <2>1, <2>3 DEF FrameKept
  <2>4. CASE FrameDropped(u) /\ at'[u] = Idle
    <3>1. Error("unavailable").kind = "error"
      BY DEF Error
    <3>2. QED BY <1>2, <2>1, <2>2, <2>4, <3>1 DEF FrameDropped
  <2>5. CASE (CheckpointServiceStep(u) \/ WorkflowServiceStep(u)) /\ at'[u] = Idle
    <3>1. CASE reply'[u].kind = "value"
      <4>1. /\ at[u] = "lease_get" /\ checkpoints' = checkpoints
            /\ StoredRow(u) # None /\ reply'[u].value = StoredRow(u).value
        BY <2>5, <3>1, HandlerAnswers DEF Worker
      <4>2. arg[u].position = position[u] /\ arg[u].position \in Position
        BY <4>1 DEF CallsHere, ExecutePoint, LeasePoint, TypeOK, FrameOK,
                    LeaseRequest, Worker
      <4>3. StoredResult'[position'[u]] = reply'[u].value
        BY <2>1, <4>1, <4>2 DEF StoredRow, StoredResult
      <4>4. QED BY <3>1, <4>3 DEF Answered, Resolved
    <3>2. CASE reply'[u].kind = "saved"
      <4>1. CheckpointInsert(u)
        BY <2>5, <3>2, HandlerAnswers DEF Worker
      <4>2. arg[u].position = position[u]
        BY <4>1 DEF CheckpointInsert, CallsHere, ExecutePoint, CheckpointPoint
      <4>3. checkpoints'[position'[u]] # None
        BY <2>1, <4>1, <4>2, InsertedRow DEF Worker
      <4>4. QED BY <3>2, <4>3 DEF Answered, Resolved
    <3>3. QED BY <3>1, <3>2 DEF Answered, Resolved
  <2>6. QED
    BY <1>4, <2>2, <2>3, <2>4, <2>5, ServerOthers
<1>5. CASE UNCHANGED systemVars
  BY <1>5 DEF ToldIsStored, Answered, Resolved, StoredResult, systemVars,
              clientVars, vars, stores, frames
<1>6. QED BY <1>3, <1>4, <1>5, SystemSteps DEF ToldIsStored

\* Without generated keys there is no row without a result.
LEMMA NextNoNullRows ==
  ASSUME ClientInv, ~MayGenerateKeys, NoNullRows, [SystemNext]_systemVars
  PROVE  NoNullRows'
<1> USE DEF ClientInv
<1> DEFINE NullFree == \A p \in Position :
                         checkpoints[p] # None => checkpoints[p].value # None
<1>1. ASSUME NEW w \in Worker, ClientStep(w) \/ ClientFault(w) PROVE NoNullRows'
  <2>1. UNCHANGED checkpoints /\ \A u \in Worker : u # w => RunKept(u)
    BY <1>1, ClientOthers DEF stores
  <2>2. ASSUME NEW r \in Request(Nat), Calls(w, r) PROVE at'[w] \notin KeyPoint
    <3>1. r.rpc \in {"start", "lease", "checkpoint", "complete", "release"}
      BY <2>2 DEF Calls, Request, StartRequest, LeaseRequest,
                  CheckpointRequest, KeyRequest, CompleteRequest, ReleaseRequest
    <3>2. QED BY <2>2, <3>1 DEF Calls, Entry, KeyPoint
  <2>3. at'[w] \notin KeyPoint
    BY <1>1, <2>2, ClientFrame DEF NoNullRows
  <2>4. QED BY <2>1, <2>3 DEF NoNullRows, RunKept, FrameKept
<1>2. CASE ServerSide(ServerMoves)
  <2>1. ASSUME NEW w \in Worker, CheckpointServiceStep(w) \/ WorkflowServiceStep(w)
        PROVE  NullFree' /\ at'[w] \notin KeyPoint
    <3>1. ~KeyInsert(w)
      BY DEF NoNullRows, KeyInsert, KeyPoint
    <3>2. NullFree'
      <4>1. CASE CheckpointInsert(w)
        <5>1. arg[w].value # None
          BY <4>1, NoneAssumption
             DEF CheckpointInsert, TypeOK, FrameOK, CheckpointPoint,
                 CheckpointRequest, Worker
        <5>2. QED
          BY <4>1, <5>1, InsertedRow DEF RowsKept, NoNullRows, Worker
      <4>2. CASE checkpoints' = checkpoints
        BY <4>2 DEF NoNullRows
      <4>3. QED BY <2>1, <3>1, <4>1, <4>2, HandlerRows DEF Worker
    <3>3. PICK p \in Awaiting : /\ at[w] \in PointsOf(p)
                                /\ GoesOn(w, p) \/ Answers(w, p)
      BY <2>1, HandlerPoints DEF Worker
    <3>4. at'[w] = Idle \/ at'[w] \in PointsOf(p)
      BY <3>3 DEF GoesOn, Answers, Answer, TypeOK, FramesOK, Worker
    <3>5. at'[w] \notin KeyPoint
      BY <3>3, <3>4 DEF NoNullRows, Awaiting, PointsOf, LeasePoint,
                        CheckpointPoint, KeyPoint, CompletePoint, Idle
    <3>6. QED BY <3>2, <3>5
  <2>2. Environment => NullFree'
    BY EnvironmentStores DEF NoNullRows
  <2>3. Idle \notin KeyPoint
    BY DEF Idle, KeyPoint
  <2>4. QED
    BY <1>2, <2>1, <2>2, <2>3, ServerOthers
       DEF NoNullRows, FrameKept, FrameDropped
<1>3. CASE UNCHANGED systemVars
  BY <1>3 DEF NoNullRows, systemVars, vars, stores, frames
<1>4. QED BY <1>1, <1>2, <1>3, SystemSteps

-----------------------------------------------------------------------------
(* Runs one after the other                                                *)

\* Only a run under way takes steps, or one that starts.
LEMMA BusySteps ==
  ASSUME NEW w \in Worker, ClientStep(w) \/ ClientFault(w)
  PROVE  Start(w) \/ Alive(w)
BY DEF ClientStep, ClientFault, StartAnswered, KeyCall, KeyAnswered, LeaseCall,
       LeaseAnswered, TaskReturns, ReleaseAnswered, SaveCall, SaveAnswered,
       SaveExpires, RollBack, CompleteCall, CompleteAnswered, TaskThrows,
       SerializeThrows, DeserializeThrows, Crash, LoseReply, Answered, Alive,
       Awaiting, Working

\* The handlers that step are those of a run under way.
LEMMA BusyHandler ==
  ASSUME TypeOK, NEW w \in Call, CheckpointServiceStep(w) \/ WorkflowServiceStep(w)
  PROVE  at[w] # Idle
<1>1. PICK p \in Awaiting : at[w] \in PointsOf(p)
  BY HandlerPoints
<1>2. QED BY <1>1, PointsApart

\* A retry does not start before the run before it has ended.
LEMMA NextOneRun ==
  ASSUME ClientInv, Sequential, OneRun, [SystemNext]_systemVars
  PROVE  OneRun'
<1> USE DEF ClientInv
<1>1. ASSUME NEW w \in Worker, ClientStep(w) \/ ClientFault(w) PROVE OneRun'
  <2>1. \A u \in Worker : u # w => (Busy(u)' <=> Busy(u))
    BY <1>1, ClientOthers DEF Busy, Alive, RunKept, FrameKept
  <2>2. \A u \in Worker : u # w => ~Busy(u)
    BY <1>1, BusySteps DEF Start, OneRun, Busy
  <2>3. QED BY <2>1, <2>2 DEF OneRun
<1>2. CASE ServerSide(ServerMoves)
  <2>1. UNCHANGED pc
    BY <1>2 DEF ServerSide
  <2>2. \A u \in Worker : at'[u] # Idle => at[u] # Idle
    BY <1>2, ServerOthers, BusyHandler DEF FrameKept, FrameDropped, Worker
  <2>3. QED BY <2>1, <2>2 DEF OneRun, Busy, Alive
<1>3. CASE UNCHANGED systemVars
  BY <1>3 DEF OneRun, Busy, Alive, systemVars, clientVars, vars, frames
<1>4. QED BY <1>1, <1>2, <1>3, SystemSteps

\* Whoever's handler steps is the only one under way.
LEMMA OnlyHandler ==
  ASSUME TypeOK, OneRun, NEW w \in Worker,
         CheckpointServiceStep(w) \/ WorkflowServiceStep(w),
         NEW u \in Worker, Busy(u)
  PROVE  u = w
BY BusyHandler DEF OneRun, Busy, Worker

\* Where a handler is on its way to granting a lease, and what it has found.
LEMMA LeasingHandler ==
  ASSUME TypeOK, NEW w \in Call,
         CheckpointServiceStep(w) \/ WorkflowServiceStep(w),
         at'[w] \in {"lease_read", "lease_put"}
  PROVE  /\ checkpoints' = checkpoints /\ leases' = leases /\ now' = now
         /\ arg'[w] = arg[w]
         /\ \/ /\ at[w] = "lease_get" /\ at'[w] = "lease_read"
               /\ StoredRow(w) = None /\ "lease" \in todo'[w]
            \/ /\ at[w] = "lease_read" /\ at'[w] = "lease_read"
               /\ lease'[w] = lease[w] /\ todo'[w] \in {todo[w], todo[w] \ {"token"}}
            \/ /\ at[w] = "lease_read" /\ at'[w] = "lease_read"
               /\ lease'[w] = leases[arg[w].position]
            \/ /\ at[w] = "lease_read" /\ at'[w] = "lease_put"
               /\ "lease" \notin todo[w] /\ ~Held(w)
<1> USE DEF TypeOK, FramesOK, Answer, Joined, Idle, stores, locals
<1>1. CASE LeaseGetCheckpoint(w)
  BY <1>1 DEF LeaseGetCheckpoint
<1>2. CASE LeaseReadLease(w) \/ LeaseReadToken(w)
  BY <1>2 DEF LeaseReadLease, LeaseReadToken
<1>3. CASE LeaseDecide(w)
  BY <1>3 DEF LeaseDecide, MayLease
<1>4. CASE LeasePut(w) \/ CheckpointReadToken(w) \/ CheckpointGetLease(w)
             \/ CheckpointDeleteLease(w) \/ CheckpointDecide(w)
             \/ CheckpointInsert(w)
  BY <1>4 DEF LeasePut, CheckpointReadToken, CheckpointGetLease,
              CheckpointDeleteLease, CheckpointDecide, CheckpointInsert
<1>5. CASE ReleaseDelete(w) \/ KeyGet(w) \/ KeyReadToken(w) \/ KeyInsert(w)
  BY <1>5 DEF ReleaseDelete, KeyGet, KeyReadToken, KeyInsert
<1>6. CASE WorkflowServiceStep(w)
  BY <1>6 DEF WorkflowServiceStep, StartInsertRow, StartInsertRowFails,
              StartIncrement, StartReturn, FinishReadToken, FinishUpdate
<1>7. QED
  BY <1>1, <1>2, <1>3, <1>4, <1>5, <1>6 DEF CheckpointServiceStep

\* A client's step leaves the call of a run about to be granted a lease alone.
LEMMA LeasingClient ==
  ASSUME ClientInv, NEW w \in Worker, ClientStep(w) \/ ClientFault(w),
         NEW u \in Worker, at'[u] \in {"lease_read", "lease_put"}
  PROVE  /\ at'[u] = at[u] /\ arg'[u] = arg[u] /\ todo'[u] = todo[u]
         /\ lease'[u] = lease[u] /\ position'[u] = position[u]
<1>1. CASE u # w
  BY <1>1, ClientOthers DEF RunKept, FrameKept, ClientInv
<1>2. CASE u = w
  <2>1. ASSUME NEW r \in Request(Nat), Calls(w, r) PROVE FALSE
    BY <1>2, <2>1 DEF Calls, Entry, Request, StartRequest, LeaseRequest,
       CheckpointRequest, KeyRequest, CompleteRequest, ReleaseRequest
  <2>2. QED BY <1>2, <2>1, ClientFrame DEF Idle
<1>3. QED BY <1>1, <1>2

\* The lease that was read is still the one that is there.
LEMMA NextLeaseSeen ==
  ASSUME ClientInv, CallsHere, OneRun, LeaseSeen, [SystemNext]_systemVars
  PROVE  LeaseSeen'
<1> USE DEF ClientInv
<1>1. ASSUME NEW w \in Worker, ClientStep(w) \/ ClientFault(w) PROVE LeaseSeen'
  BY <1>1, LeasingClient, ClientOthers DEF LeaseSeen, stores
<1>2. now \in Nat /\ \A p \in Position : leases[p] \in LeaseEntry \cup {None}
  BY DEF TypeOK, StoresOK
<1>3. ASSUME NEW u \in Worker, at[u] \in LeasePoint
      PROVE  arg[u].position \in Position
  BY <1>3 DEF TypeOK, FrameOK, LeaseRequest, Worker
<1>4. ASSUME ServerSide(ServerMoves), NEW u \in Worker,
             at'[u] \in {"lease_read", "lease_put"}
      PROVE  LeaseSeen!(u)'
  <2>1. CASE Environment /\ (FrameKept(u) \/ FrameDropped(u))
    <3>1. FrameKept(u) /\ at[u] \in LeasePoint
      BY <1>4, <2>1 DEF FrameKept, FrameDropped, Idle, LeasePoint
    <3>2. arg[u].position \in Position
      BY <1>3, <3>1
    <3>3. /\ now' \in Nat /\ now <= now'
          /\ leases'[arg[u].position] \in {None, leases[arg[u].position]}
      BY <2>1, <3>2, EnvironmentStores
    <3>4. QED
      BY <1>2, <3>1, <3>2, <3>3
         DEF LeaseSeen, FrameKept, RemainingLease, LeaseEntry
  <2>2. ASSUME NEW w \in Worker,
               CheckpointServiceStep(w) \/ WorkflowServiceStep(w),
               \A v \in Worker : v # w => FrameKept(v)
        PROVE  LeaseSeen!(u)'
    <3>1. u = w
      BY <1>4, <2>2, OnlyHandler DEF Busy, FrameKept, Idle
    <3>2. leases' = leases /\ now' = now /\ arg'[w] = arg[w]
      BY <1>4, <2>2, <3>1, LeasingHandler DEF Worker
    <3>3. CASE at'[w] = "lease_read"
      <4>1. \/ "lease" \in todo'[w]
            \/ /\ at[w] = "lease_read" /\ "lease" \notin todo[w]
               /\ lease'[w] = lease[w]
            \/ lease'[w] = leases[arg[w].position]
        BY <1>4, <2>2, <3>1, <3>3, LeasingHandler DEF Worker
      <4>2. QED BY <3>1, <3>2, <3>3, <4>1 DEF LeaseSeen
    <3>4. CASE at'[w] = "lease_put"
      <4>1. at[w] = "lease_read" /\ "lease" \notin todo[w] /\ ~Held(w)
        BY <1>4, <2>2, <3>1, <3>4, LeasingHandler DEF Worker
      <4>2. leases[arg[w].position] \in {None, lease[w]}
        BY <4>1 DEF LeaseSeen
      <4>3. lease[w] = None \/ RemainingLease(lease[w], now) <= 0
        BY <1>2, <4>1 DEF Held, RemainingLease, LeaseEntry, TypeOK, FramesOK, Worker
      <4>4. QED BY <3>1, <3>2, <3>4, <4>2, <4>3 DEF LeaseSeen
    <3>5. QED BY <1>4, <3>1, <3>3, <3>4
  <2>3. QED BY <1>4, <2>1, <2>2, ServerOthers
<1>5. CASE ServerSide(ServerMoves)
  BY <1>4, <1>5 DEF LeaseSeen
<1>6. CASE UNCHANGED systemVars
  BY <1>6 DEF LeaseSeen, systemVars, vars, stores, frames, locals
<1>7. QED BY <1>1, <1>5, <1>6, SystemSteps

\* Where a run may start its task, or may still come to.
MayStart(w) ==
  \/ at[w] \in {"lease_read", "lease_put"}
  \/ Answered(w, "leasing") /\ Resolved(w, "granted")
  \/ pc[w] = "running"

\* It has got there by the steps of the lease call.
LEMMA ClientMayStart ==
  ASSUME ClientInv, NEW w \in Worker, ClientStep(w) \/ ClientFault(w), MayStart(w)'
  PROVE  MayStart(w) /\ position'[w] = position[w]
<1> USE DEF ClientInv
<1>1. CASE at'[w] \in {"lease_read", "lease_put"}
  BY <1>1, LeasingClient DEF MayStart
<1>2. CASE (Answered(w, "leasing") /\ Resolved(w, "granted"))'
  BY <1>2, AnsweredBefore DEF MayStart, Answered, Resolved, Awaiting
<1>3. CASE pc'[w] = "running"
  <2>1. CASE LeaseAnswered(w)
    BY <1>3, <2>1 DEF LeaseAnswered, Goto, Return, ClientTypeOK, MayStart
  <2>2. CASE LoseReply(w)
    BY <2>2, <1>3 DEF LoseReply, clientVars, Awaiting
  <2>3. CASE \/ Start(w) \/ StartAnswered(w) \/ KeyCall(w) \/ KeyAnswered(w)
             \/ LeaseCall(w) \/ TaskReturns(w) \/ ReleaseAnswered(w)
             \/ SaveCall(w) \/ SaveAnswered(w) \/ SaveExpires(w) \/ RollBack(w)
             \/ CompleteCall(w) \/ CompleteAnswered(w) \/ TaskThrows(w)
             \/ SerializeThrows(w) \/ DeserializeThrows(w) \/ Crash(w)
    BY <1>3, <2>3
       DEF Start, StartAnswered, KeyCall, KeyAnswered, LeaseCall, TaskReturns,
           ReleaseAnswered, SaveCall, SaveAnswered, SaveExpires, RollBack,
           CompleteCall, CompleteAnswered, TaskThrows, SerializeThrows,
           DeserializeThrows, Crash, Send, Goto, Return, FaultyGoto,
           ClientTypeOK
  <2>4. QED BY <2>1, <2>2, <2>3 DEF ClientStep, ClientFault
<1>4. QED BY <1>1, <1>2, <1>3 DEF MayStart

\* And by the steps of its handler, which found no row.
LEMMA HandlerMayStart ==
  ASSUME ClientInv, CallsHere, FreeRow, NEW w \in Worker,
         CheckpointServiceStep(w) \/ WorkflowServiceStep(w),
         UNCHANGED <<pc, position>>, MayStart(w)'
  PROVE  checkpoints'[position'[w]] = None
<1> USE DEF ClientInv
<1>1. CASE at'[w] \in {"lease_read", "lease_put"}
  <2>1. \/ at[w] = "lease_get" /\ StoredRow(w) = None
        \/ at[w] = "lease_read"
    BY <1>1, LeasingHandler DEF Worker
  <2>2. checkpoints' = checkpoints
    BY <1>1, LeasingHandler DEF Worker
  <2>3. checkpoints[position[w]] = None
    BY <2>1 DEF FreeRow, StoredRow, CallsHere, ExecutePoint, LeasePoint
  <2>4. QED BY <2>2, <2>3
<1>2. CASE (Answered(w, "leasing") /\ Resolved(w, "granted"))'
  <2>1. LeasePut(w)
    BY <1>2, HandlerAnswers DEF Answered, Resolved, Worker
  <2>2. QED BY <2>1 DEF LeasePut, FreeRow
<1>3. CASE pc'[w] = "running"
  BY <1>3, BusyHandler DEF CallAwaited, Awaiting, Worker
<1>4. QED BY <1>1, <1>2, <1>3 DEF MayStart

\* The run that may start its task finds no row.
LEMMA NextFreeRow ==
  ASSUME ClientInv, CallsHere, OneRun, FreeRow, [SystemNext]_systemVars
  PROVE  FreeRow'
<1> USE DEF ClientInv
<1>1. ASSUME NEW w \in Worker, ClientStep(w) \/ ClientFault(w),
             NEW u \in Worker, MayStart(u)'
      PROVE  checkpoints'[position'[u]] = None
  <2>1. MayStart(u) /\ position'[u] = position[u]
    <3>1. CASE u = w
      BY <1>1, <3>1, ClientMayStart
    <3>2. CASE u # w
      BY <1>1, <3>2, ClientOthers
         DEF RunKept, FrameKept, MayStart, Answered, Resolved
    <3>3. QED BY <3>1, <3>2
  <2>2. QED BY <1>1, <2>1, ClientOthers DEF FreeRow, MayStart, stores
<1>2. ASSUME ServerSide(ServerMoves), NEW u \in Worker, MayStart(u)'
      PROVE  checkpoints'[position'[u]] = None
  <2>1. UNCHANGED <<pc, position>>
    BY <1>2 DEF ServerSide
  <2>2. CASE Environment /\ (FrameKept(u) \/ FrameDropped(u))
    <3>1. FrameDropped(u) => at'[u] = Idle /\ (at[u] = Idle => reply'[u] = reply[u])
                              /\ (at[u] # Idle => reply'[u].kind = "error")
      BY DEF FrameDropped, Error
    <3>2. MayStart(u)
      BY <1>2, <2>1, <2>2, <3>1
         DEF MayStart, FrameKept, Answered, Resolved, Idle
    <3>3. QED BY <2>1, <2>2, <3>2, EnvironmentStores DEF FreeRow, MayStart
  <2>3. ASSUME NEW w \in Worker,
               CheckpointServiceStep(w) \/ WorkflowServiceStep(w),
               \A v \in Worker : v # w => FrameKept(v)
        PROVE  checkpoints'[position'[u]] = None
    <3>1. CASE u = w
      BY <1>2, <2>1, <2>3, <3>1, HandlerMayStart
    <3>2. CASE u # w
      <4>1. Busy(u)
        BY <1>2, <2>1, <2>3, <3>2
           DEF MayStart, FrameKept, Answered, Busy, Alive, Awaiting, Working, Idle
      <4>2. QED BY <2>3, <3>2, <4>1, OnlyHandler
    <3>3. QED BY <3>1, <3>2
  <2>4. QED BY <1>2, <2>2, <2>3, ServerOthers
<1>3. ASSUME UNCHANGED systemVars, NEW u \in Worker, MayStart(u)'
      PROVE  checkpoints'[position'[u]] = None
  BY <1>3 DEF FreeRow, MayStart, Answered, Resolved, systemVars, clientVars,
              vars, stores, frames
<1>4. (\A u \in Worker : MayStart(u)' => checkpoints'[position'[u]] = None)
        => FreeRow'
  BY DEF FreeRow, MayStart
<1>5. QED BY <1>1, <1>2, <1>3, <1>4, SystemSteps

\* The row of a position whose task has run is the run's own.
LEMMA NextOwnResult ==
  ASSUME ClientInv, CallsHere, OneRun, FreeRow, OwnResult, [SystemNext]_systemVars
  PROVE  OwnResult'
<1> USE DEF ClientInv
<1>1. ASSUME NEW w \in Worker, ClientStep(w) \/ ClientFault(w) PROVE OwnResult'
  <2>1. checkpoints' = checkpoints /\ \A u \in Worker : u # w => RunKept(u)
    BY <1>1, ClientOthers DEF stores
  <2>2. pc'[w] \in {"saving", "checkpointing"} =>
          /\ pc[w] \in {"running", "saving", "checkpointing"}
          /\ position'[w] = position[w]
    <3>1. CASE TaskReturns(w) \/ SaveCall(w) \/ SaveAnswered(w)
      BY <3>1 DEF TaskReturns, SaveCall, SaveAnswered, Send, Goto, Return,
                  Answered, ClientTypeOK
    <3>2. CASE LoseReply(w)
      BY <3>2 DEF LoseReply, clientVars
    <3>3. CASE \/ Start(w) \/ StartAnswered(w) \/ KeyCall(w) \/ KeyAnswered(w)
               \/ LeaseCall(w) \/ LeaseAnswered(w) \/ ReleaseAnswered(w)
               \/ SaveExpires(w) \/ RollBack(w) \/ CompleteCall(w)
               \/ CompleteAnswered(w) \/ TaskThrows(w)
               \/ SerializeThrows(w) \/ DeserializeThrows(w)
               \/ Crash(w)
      BY <3>3
         DEF Start, StartAnswered, KeyCall, KeyAnswered, LeaseCall,
             LeaseAnswered, ReleaseAnswered, SaveExpires, RollBack,
             CompleteCall, CompleteAnswered, TaskThrows, SerializeThrows,
             DeserializeThrows, Crash, Send, Goto, Return, FaultyGoto,
             ClientTypeOK
    <3>4. QED BY <1>1, <3>1, <3>2, <3>3 DEF ClientStep, ClientFault
  <2>3. QED BY <2>1, <2>2 DEF OwnResult, FreeRow, RunKept
<1>2. CASE ServerSide(ServerMoves)
  <2>1. UNCHANGED <<pc, position>>
    BY <1>2 DEF ServerSide
  <2>2. CASE checkpoints' = checkpoints
    BY <2>1, <2>2 DEF OwnResult
  <2>3. ASSUME NEW w \in Worker, CheckpointInsert(w) \/ KeyInsert(w),
               NEW u \in Worker, pc'[u] \in {"saving", "checkpointing"},
               checkpoints'[position'[u]] # None
        PROVE  checkpoints'[position'[u]].value = u
    <3>1. u = w
      BY <2>1, <2>3, OnlyHandler
         DEF Busy, Alive, Awaiting, Working, CheckpointServiceStep
    <3>2. CheckpointInsert(w)
      BY <2>1, <2>3, <3>1
         DEF CallAwaited, KeyInsert, Awaiting, PointsOf, CheckpointPoint, Idle
    <3>3. position[w] \in Position /\ arg[w].value = w
      BY <2>1, <2>3, <3>1, <3>2
         DEF PositionInRange, Executing, CallsHere, CheckpointInsert,
             CheckpointPoint
    <3>4. CASE checkpoints[position[w]] = None
      BY <2>1, <2>3, <3>1, <3>2, <3>3, <3>4, InsertedRow DEF Worker
    <3>5. CASE checkpoints[position[w]] # None
      BY <2>1, <2>3, <3>1, <3>3, <3>5, InsertedRow
         DEF OwnResult, RowsKept, Worker
    <3>6. QED BY <3>4, <3>5
  <2>4. QED
    BY <1>2, <2>2, <2>3, HandlerRows, EnvironmentStores
       DEF ServerSide, ServerMoves, OwnResult, Worker
<1>3. CASE UNCHANGED systemVars
  BY <1>3 DEF OwnResult, systemVars, clientVars, vars, stores
<1>4. QED BY <1>1, <1>2, <1>3, SystemSteps

-----------------------------------------------------------------------------
(* What runs return                                                        *)

\* execute returns what the run has been told is stored or has saved, unless
\* it gives up saving a result that cannot be undone.
LEMMA ClientReturns ==
  ASSUME ClientInv, OnAbort, NEW w \in Worker, ClientStep(w) \/ ClientFault(w),
         NEW p \in Position, returned'[w][p] # returned[w][p]
  PROVE  /\ p = position[w]
         /\ \/ /\ Answered(w, "leasing") /\ Resolved(w, "value")
               /\ returned'[w][p] = reply[w].value
            \/ /\ Answered(w, "checkpointing") /\ Resolved(w, "saved")
               /\ returned'[w][p] = w
<1> USE DEF ClientInv
<1>1. ASSUME NEW v, Return(w, v)
      PROVE  p = position[w] /\ returned'[w][p] = v
  BY <1>1 DEF Return, ClientTypeOK
<1>2. CASE LeaseAnswered(w) \/ SaveAnswered(w) \/ SaveExpires(w)
  BY <1>1, <1>2 DEF LeaseAnswered, SaveAnswered, SaveExpires, Goto
<1>3. CASE \/ Start(w) \/ StartAnswered(w) \/ KeyCall(w) \/ KeyAnswered(w)
           \/ LeaseCall(w) \/ TaskReturns(w) \/ ReleaseAnswered(w)
           \/ SaveCall(w) \/ RollBack(w) \/ CompleteCall(w)
           \/ CompleteAnswered(w) \/ TaskThrows(w)
           \/ SerializeThrows(w) \/ DeserializeThrows(w)
           \/ Crash(w) \/ LoseReply(w)
  BY <1>3
     DEF Start, StartAnswered, KeyCall, KeyAnswered, LeaseCall, TaskReturns,
         ReleaseAnswered, SaveCall, RollBack, CompleteCall, CompleteAnswered,
         TaskThrows, SerializeThrows, DeserializeThrows, Crash, LoseReply,
         Goto, FaultyGoto, clientVars
<1>4. QED BY <1>2, <1>3 DEF ClientStep, ClientFault

\* Only a run's own step changes what it has returned.
LEMMA ReturnsKept ==
  ASSUME ClientInv, [SystemNext]_systemVars, NEW u \in Worker,
         returned'[u] # returned[u]
  PROVE  ClientStep(u) \/ ClientFault(u)
<1>1. ASSUME NEW w \in Worker, ClientStep(w) \/ ClientFault(w) PROVE w = u
  BY <1>1, ClientOthers DEF RunKept, ClientInv
<1>2. ~ServerSide(ServerMoves) /\ ~UNCHANGED systemVars
  BY DEF ServerSide, systemVars, clientVars
<1>3. QED BY <1>1, <1>2, SystemSteps

\* What has just been returned is stored; without generated keys, in any order
\* of runs, and with them, if the runs come one after the other.
LEMMA ReturnedNow ==
  ASSUME ClientInv, OnAbort, ToldIsStored, [SystemNext]_systemVars,
         NEW u \in Worker, NEW p \in Position, returned'[u][p] # returned[u][p]
  PROVE  /\ NoNullRows => StoredResult[p] # None
         /\ OwnResult => StoredResult[p] = returned'[u][p]
<1>1. ClientStep(u) \/ ClientFault(u)
  BY ReturnsKept
<1>2. p = position[u]
  BY <1>1, ClientReturns
<1>3. CASE /\ Answered(u, "leasing") /\ Resolved(u, "value")
           /\ returned'[u][p] = reply[u].value
  <2>1. StoredResult[p] = reply[u].value
    BY <1>2, <1>3 DEF ToldIsStored
  <2>2. reply[u] \in Reply
    BY <1>3 DEF ClientInv, CallAwaited, Answered, Awaiting
  <2>3. reply[u].value # None
    BY <1>3, <2>2, ReplyFields, NoneAssumption DEF Resolved
  <2>4. QED BY <1>3, <2>1, <2>3
<1>4. CASE /\ Answered(u, "checkpointing") /\ Resolved(u, "saved")
           /\ returned'[u][p] = u
  <2>1. checkpoints[p] # None
    BY <1>2, <1>4 DEF ToldIsStored
  <2>2. StoredResult[p] = checkpoints[p].value
    BY <2>1 DEF StoredResult
  <2>3. OwnResult => checkpoints[p].value = u
    BY <1>2, <1>4, <2>1 DEF OwnResult, Answered
  <2>4. QED BY <1>4, <2>1, <2>2, <2>3 DEF NoNullRows
<1>5. QED BY <1>1, <1>3, <1>4, ClientReturns

\* In runs one after the other, what has been returned stays stored.
LEMMA NextReturnsStored ==
  ASSUME ClientInv, OnAbort, ToldIsStored, OwnResult, ReturnsStored,
         [SystemNext]_systemVars
  PROVE  ReturnsStored'
<1>1. RowsKept
  BY SystemRows
<1>2. ASSUME NEW u \in Worker, NEW p \in Position, returned'[u][p] # None
      PROVE  StoredResult'[p] = returned'[u][p]
  <2>1. StoredResult[p] = returned'[u][p]
    BY <1>2, ReturnedNow DEF ReturnsStored
  <2>2. QED BY <1>1, <1>2, <2>1, ResultsStay
<1>3. QED BY <1>2 DEF ReturnsStored

\* Without generated keys, a result has been stored for what was returned.
LEMMA NextReturnedIsStored ==
  ASSUME ClientInv, OnAbort, ToldIsStored, NoNullRows, ReturnedIsStored,
         [SystemNext]_systemVars
  PROVE  ReturnedIsStored'
<1>1. RowsKept
  BY SystemRows
<1>2. ASSUME NEW u \in Worker, NEW p \in Position, returned'[u][p] # None
      PROVE  StoredResult'[p] # None
  <2>1. StoredResult[p] # None
    BY <1>2, ReturnedNow DEF ReturnedIsStored
  <2>2. QED BY <1>1, <2>1, ResultsStay
<1>3. QED BY <1>2 DEF ReturnedIsStored

-----------------------------------------------------------------------------
(* The invariant, and what follows from it                                 *)

LEMMA InitRunsInv == SystemInit => RunsInv
<1> SUFFICES ASSUME SystemInit PROVE RunsInv
  OBVIOUS
<1> USE DEF SystemInit, ServerInit, FramesInit, Worker, Idle
<1>1. CallsHere /\ ToldIsStored
  BY DEF CallsHere, ToldIsStored, Answered, ExecutePoint, LeasePoint,
         CheckpointPoint, KeyPoint
<1>2. NoNullRows
  BY DEF NoNullRows, KeyPoint
<1>3. OneRun /\ FreeRow /\ OwnResult /\ LeaseSeen
  BY DEF OneRun, Busy, Alive, Awaiting, Working, FreeRow, Answered, OwnResult,
         LeaseSeen
<1>4. ReturnsStored /\ ReturnedIsStored
  BY DEF ReturnsStored, ReturnedIsStored
<1>5. QED BY <1>1, <1>2, <1>3, <1>4 DEF RunsInv, SequentialInv

\* RunsInv is inductive.
LEMMA NextRunsInv ==
  ClientInv /\ RunsInv /\ [SystemNext]_systemVars => RunsInv'
<1> SUFFICES ASSUME ClientInv, RunsInv, [SystemNext]_systemVars PROVE RunsInv'
  OBVIOUS
<1> USE DEF RunsInv
<1>1. CallsHere' /\ ToldIsStored'
  BY NextCallsHere, NextToldIsStored
<1>2. ~MayGenerateKeys => NoNullRows'
  BY NextNoNullRows
<1>3. Sequential => SequentialInv'
  BY NextOneRun, NextFreeRow, NextOwnResult, NextLeaseSeen DEF SequentialInv
<1>4. OnAbort /\ Sequential => ReturnsStored'
  BY NextReturnsStored DEF SequentialInv
<1>5. OnAbort /\ ~MayGenerateKeys => ReturnedIsStored'
  BY NextReturnedIsStored
<1>6. QED BY <1>1, <1>2, <1>3, <1>4, <1>5

LEMMA RunsInvHolds == SystemSpec => [](ClientInv /\ RunsInv)
BY InitClientInv, NextClientInv, InitRunsInv, NextRunsInv, PTL DEF SystemSpec

\* Whatever execute has returned to the workflow function is stored, so that a
\* retry is answered with it: for tasks with an onAbort option, whatever the
\* interleaving of the runs.  A generated key is the exception, if its
\* position may be executed by two runs at a time.
THEOREM ReturnedResultsAreStored ==
  OnAbort /\ (MayGenerateKeys => Sequential) =>
    (SystemSpec => []ReturnedIsStored)
<1> SUFFICES ASSUME OnAbort, MayGenerateKeys => Sequential
             PROVE  SystemSpec => []ReturnedIsStored
  OBVIOUS
<1>1. RunsInv => ReturnedIsStored
  BY DEF RunsInv, ReturnsStored, ReturnedIsStored
<1>2. QED BY <1>1, RunsInvHolds, PTL

\* Two runs that got a result of the same position got the same one, if a
\* retry waits for the run before it to end and tasks have an onAbort option.
THEOREM RunsAgree == Sequential /\ OnAbort => (SystemSpec => []SameResults)
<1> SUFFICES ASSUME Sequential, OnAbort PROVE SystemSpec => []SameResults
  OBVIOUS
<1>1. RunsInv => SameResults
  BY DEF RunsInv, ReturnsStored, SameResults
<1>2. QED BY <1>1, RunsInvHolds, PTL

\* A task whose result is stored is not started again, if a retry waits for
\* the run before it to end: whatever was lost, cancelled or restarted.
THEOREM CompletedTasksAreNotReexecuted ==
  Sequential => (SystemSpec => CompletedNotReexecuted)
<1> SUFFICES ASSUME Sequential PROVE SystemSpec => CompletedNotReexecuted
  OBVIOUS
<1>1. ASSUME ClientInv, RunsInv, [SystemNext]_systemVars,
             NEW w \in Worker, pc[w] # "running", pc'[w] = "running"
      PROVE  StoredResult[position[w]] = None
  <2>1. ClientStep(w) \/ ClientFault(w)
    BY <1>1, SystemSteps, ClientOthers
       DEF ClientInv, RunKept, ServerSide, systemVars, clientVars
  <2>2. MayStart(w) /\ position'[w] = position[w]
    BY <1>1, <2>1, ClientMayStart DEF MayStart
  <2>3. position'[w] \in Position
    BY <1>1, NextClientInv DEF ClientInv, PositionInRange, Executing
  <2>4. checkpoints[position[w]] = None
    BY <1>1, <2>2 DEF RunsInv, SequentialInv, FreeRow, MayStart
  <2>5. QED BY <2>2, <2>3, <2>4 DEF StoredResult
<1>2. ClientInv /\ RunsInv /\ [SystemNext]_systemVars =>
        [\A w \in Worker :
           pc[w] # "running" /\ pc'[w] = "running" =>
             StoredResult[position[w]] = None]_systemVars
  BY <1>1
<1>3. QED BY <1>2, RunsInvHolds, PTL DEF CompletedNotReexecuted, SystemSpec

\* A lease is not taken from a position while an earlier one still runs, if a
\* retry waits for the run before it to end.
THEOREM LeasesAreNotStolen == Sequential => (SystemSpec => LeaseNotStolen)
<1> SUFFICES ASSUME Sequential PROVE SystemSpec => LeaseNotStolen
  OBVIOUS
<1>1. ASSUME RunsInv, NEW w \in Worker, at[w] = "lease_put"
      PROVE  LET held == leases[arg[w].position]
             IN  held = None \/ RemainingLease(held, now) <= 0
  BY <1>1 DEF RunsInv, SequentialInv, LeaseSeen
<1>2. RunsInv /\ [SystemNext]_systemVars =>
        [\A w \in Worker :
           at[w] = "lease_put" /\ reply'[w] # None /\ reply'[w].kind = "granted" =>
             LET held == leases[arg[w].position]
             IN  held = None \/ RemainingLease(held, now) <= 0]_systemVars
  BY <1>1
<1>3. QED BY <1>2, RunsInvHolds, PTL DEF LeaseNotStolen, SystemSpec
=============================================================================
