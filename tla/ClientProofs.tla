---------------------------- MODULE ClientProofs ----------------------------
(***************************************************************************)
(* The clients and the server together, for every number of runs and of    *)
(* positions and every bound: types, and what a superseded run is told.    *)
(***************************************************************************)
EXTENDS IdempotentTransformer, ServerProofs, FiniteSetTheorems

\* Where the handler of the call that a run at p awaits may stand, and what
\* it may be answered besides an error.
PointsOf(p) ==
  CASE p = "starting" -> {"start"}
    [] p = "keying" -> KeyPoint
    [] p = "leasing" -> LeasePoint
    [] p = "checkpointing" -> CheckpointPoint
    [] p = "releasing" -> {"release_delete"}
    [] p = "completing" -> CompletePoint

AnswersTo(p) ==
  CASE p = "starting" -> {"token"}
    [] p = "keying" -> {"key"}
    [] p = "leasing" -> {"value", "wait", "granted"}
    [] p = "checkpointing" -> {"saved"}
    [] p = "releasing" -> {"released"}
    [] p = "completing" -> {"completed"}

\* A run's call is one of the kind it awaits; without one, only a crashed run
\* may have left a call behind.
CallAwaited ==
  \A w \in Worker :
    /\ pc[w] \notin Awaiting \cup {"crashed"} => at[w] = Idle
    /\ pc[w] \in Awaiting /\ at[w] # Idle => at[w] \in PointsOf(pc[w])
    /\ pc[w] \in Awaiting /\ at[w] = Idle =>
         reply[w] \in Reply /\ reply[w].kind \in {"error"} \cup AnswersTo(pc[w])

\* Where a run is inside an execute, it is at one of the positions.
Executing == {"keying", "leasing", "running", "saving", "checkpointing",
              "releasing", "rolling"}
PositionInRange == \A w \in Worker : pc[w] \in Executing => position[w] \in Position

-----------------------------------------------------------------------------
(* Ranks are tokens                                                        *)

Stored == IF fencingToken = None THEN 0 ELSE fencingToken
Ranked == {w \in Worker : order[w] > 0}

\* As many runs have a rank as tokens were given out, and one has the last.
RanksCounted ==
  /\ Cardinality(Ranked) = Stored
  /\ \A w \in Worker : order[w] <= Stored
  /\ Stored > 0 => \E w \in Worker : order[w] = Stored

\* A run that has not incremented the token has no rank; the token it is given
\* is its rank, and the one it sends.
RankIsToken ==
  \A w \in Worker :
    /\ pc[w] = "off" => order[w] = 0
    /\ at[w] = "start" /\ "token" \in todo[w] => order[w] = 0 /\ token[w] = None
    /\ at[w] = "start" /\ "token" \notin todo[w] => token[w] = order[w]
    /\ Answered(w, "starting") /\ Resolved(w, "token") =>
         reply[w].fencing_token = order[w]
    /\ pc[w] \in (Awaiting \ {"starting"}) \cup Working => fence[w] = order[w]
    /\ at[w] \in LeasePoint \cup CheckpointPoint \cup KeyPoint \cup CompletePoint =>
         arg[w].fencing_token = order[w]

\* No handler has read a token that was not stored by then.
TokenStored == \A w \in Worker : token[w] # None => token[w] <= Stored

\* When a superseded run called, a later token than its own was stored.
SupersededBelowFloor ==
  \A w \in Worker :
    superseded[w] /\ at[w] \notin {Idle, "start"} => order[w] < floor[w]

ClientInv ==
  /\ TypeOK /\ ClientTypeOK
  /\ CallAwaited /\ PositionInRange
  /\ FenceInv
  /\ RanksCounted /\ RankIsToken /\ TokenStored /\ SupersededBelowFloor

-----------------------------------------------------------------------------
(* Kinds of steps                                                          *)

\* A step of the server's, and what it does to the ranks.
ServerMoves ==
  \/ \E w \in Worker : CheckpointServiceStep(w) \/ WorkflowServiceStep(w)
  \/ Environment

\* A system's step is a client's or the server's.
LEMMA SystemSteps ==
  ASSUME [SystemNext]_systemVars
  PROVE  \/ \E w \in Worker : ClientStep(w) \/ ClientFault(w)
         \/ ServerSide(ServerMoves)
         \/ UNCHANGED systemVars
BY DEF SystemNext, HandlerStep, TimePasses, ServerSide, ServerMoves, Environment,
       Worker

\* The server's steps here are steps of module Server.
LEMMA ServerMovesNext == ServerMoves => Next
BY DEF ServerMoves, Next, ServerStep, Worker

\* The client keeps the server's variables but for a lost answer.
Keeps(w) ==
  /\ UNCHANGED <<stores, at, arg, locals, sweep, drawn, history>>
  /\ faults' \in Nat
  /\ \/ UNCHANGED reply
     \/ reply' = [reply EXCEPT ![w] = Error("unavailable")]

\* What positions are.
LEMMA PositionRange ==
  /\ Cardinality(Position) \in Nat
  /\ \A p \in Position : p \in 0 .. Cardinality(Position)
                           /\ p + 1 \in 0 .. Cardinality(Position)
<1>1. Cardinality(Position) \in Nat
  BY WorkflowAssumption, FS_CardinalityType
<1>2. QED BY <1>1, WorkflowAssumption

\* A client sends requests of the right types, and otherwise leaves the server
\* alone.
LEMMA ClientTouches ==
  ASSUME TypeOK, ClientTypeOK, PositionInRange,
         NEW w \in Worker, ClientStep(w) \/ ClientFault(w)
  PROVE  \/ \E r \in Request(Nat) : Accept(w, r) /\ faults' \in Nat
         \/ Keeps(w)
<1>1. faults \in Nat
  BY DEF TypeOK, BookkeepingOK
<1>2. KeyOf(w) \in Key \/ pc[w] \notin Executing \cup {"ready"} 
        \/ position[w] \notin Position
  BY WorkflowAssumption DEF KeyOf, ClientTypeOK
<1>3. fence[w] \in Nat
  BY DEF ClientTypeOK
<1>4. CASE \/ Start(w) \/ KeyCall(w) \/ LeaseCall(w) \/ SaveCall(w)
           \/ CompleteCall(w) \/ TaskThrows(w)
  <2>1. CASE Start(w)
    BY <1>1, <2>1 DEF Start, Send, Request, StartRequest
  <2>2. CASE KeyCall(w)
    BY <1>1, <1>3, <2>2 DEF KeyCall, Send, Request, KeyRequest
  <2>3. CASE LeaseCall(w)
    BY <1>1, <1>2, <1>3, <2>3, WorkflowAssumption
       DEF LeaseCall, Send, Request, LeaseRequest
  <2>4. CASE SaveCall(w)
    BY <1>1, <1>2, <1>3, <2>4, WorkflowAssumption
       DEF SaveCall, Send, Request, CheckpointRequest, PositionInRange, Executing
  <2>5. CASE CompleteCall(w)
    BY <1>1, <1>3, <2>5 DEF CompleteCall, Send, Request, CompleteRequest
  <2>6. CASE TaskThrows(w)
    BY <1>1, <2>6
       DEF TaskThrows, Fault, Send, Request, ReleaseRequest, PositionInRange,
           Executing
  <2>7. QED BY <1>4, <2>1, <2>2, <2>3, <2>4, <2>5, <2>6
<1>5. CASE \/ StartAnswered(w) \/ KeyAnswered(w) \/ LeaseAnswered(w)
           \/ TaskReturns(w) \/ ReleaseAnswered(w) \/ SaveAnswered(w)
           \/ SaveExpires(w) \/ RollBack(w) \/ CompleteAnswered(w)
  BY <1>1, <1>5
     DEF StartAnswered, KeyAnswered, LeaseAnswered, TaskReturns,
         ReleaseAnswered, SaveAnswered, SaveExpires, RollBack, CompleteAnswered,
         Goto, Return, vars, frames, bookkeeping, Keeps
<1>6. CASE \/ SerializeThrows(w) \/ DeserializeThrows(w)
           \/ Crash(w) \/ LoseReply(w)
  BY <1>1, <1>6
     DEF SerializeThrows, DeserializeThrows, Crash, LoseReply, FaultyGoto,
         Fault, frames, Keeps
<1>7. QED BY <1>4, <1>5, <1>6 DEF ClientStep, ClientFault

\* The server's types and its fencing invariant, under a client's step.
LEMMA ClientServerInv ==
  ASSUME TypeOK, FenceInv, ClientTypeOK, PositionInRange,
         NEW w \in Worker, ClientStep(w) \/ ClientFault(w)
  PROVE  TypeOK' /\ FenceInv'
<1>1. CASE \E r \in Request(Nat) : Accept(w, r) /\ faults' \in Nat
  BY <1>1, AcceptTypeOK, AcceptFenceInv DEF Worker
<1>2. CASE Keeps(w)
  <2>1. Error("unavailable") \in Reply
    BY DEF Error, Reply, ErrCode
  <2>2. TypeOK'
    BY <1>2, <2>1 DEF Keeps, stores, locals, history, TypeOK, StoresOK,
                      FramesOK, BookkeepingOK, FrameOK, Worker
  <2>3. FenceInv'
    BY <1>2, StayFenceInv DEF Keeps, stores, locals, history
  <2>4. QED BY <2>2, <2>3
<1>3. QED BY <1>1, <1>2, ClientTouches

\* And under the server's own.
LEMMA ServerServerInv ==
  ASSUME TypeOK, FenceInv, ServerMoves
  PROVE  TypeOK' /\ FenceInv'
<1>1. TypeOK'
  BY ServerMovesNext, NextTypeOK
<1>2. FenceInv'
  BY CheckpointServiceFenceInv, WorkflowServiceFenceInv, EnvironmentFenceInv
     DEF ServerMoves, Worker
<1>3. QED BY <1>1, <1>2

-----------------------------------------------------------------------------
(* Types and calls                                                         *)

\* What an answer carries.
LEMMA ReplyFields ==
  ASSUME NEW r \in Reply
  PROVE  /\ r.kind = "token" => r.fencing_token \in Nat
         /\ r.kind = "key" => r.idempotency_key \in Key
         /\ r.kind = "value" => r.position \in Position /\ r.value \in Value
BY DEF Reply

\* A run goes on without a call.
LEMMA GotoTypes ==
  ASSUME ClientTypeOK, PositionInRange, CallAwaited, NEW w \in Worker,
         at[w] = Idle,
         NEW p \in Working \cup Stopped, pc' = [pc EXCEPT ![w] = p],
         p \in Executing => pc[w] \in Executing,
         UNCHANGED <<at, reply, position>>
  PROVE  /\ pc' \in [Worker -> {"off"} \cup Awaiting \cup Working \cup Stopped]
         /\ PositionInRange' /\ CallAwaited'
BY DEF ClientTypeOK, PositionInRange, CallAwaited, Working, Stopped, Awaiting

\* execute returns.
LEMMA ReturnTypes ==
  ASSUME ClientTypeOK, PositionInRange, CallAwaited, NEW w \in Worker,
         at[w] = Idle, pc[w] \in Executing, NEW v \in Value, Return(w, v)
  PROVE  ClientTypeOK' /\ PositionInRange' /\ CallAwaited'
<1>1. position[w] \in Position
  BY DEF PositionInRange
<1>2. position[w] + 1 \in 0 .. Cardinality(Position)
  BY <1>1, PositionRange
<1>3. ClientTypeOK'
  BY <1>1, <1>2 DEF Return, ClientTypeOK, Working
<1>4. PositionInRange' /\ CallAwaited'
  BY DEF Return, ClientTypeOK, PositionInRange, CallAwaited, Executing, Awaiting,
         vars, frames
<1>5. QED BY <1>3, <1>4

\* A call is made.
LEMMA SendTypes ==
  ASSUME TypeOK, ClientTypeOK, PositionInRange, CallAwaited, NEW w \in Worker,
         NEW p \in Awaiting, NEW r \in Request(Nat), Send(w, p, r),
         Entry(r.rpc) \in PointsOf(p), Idle \notin PointsOf(p),
         p \in Executing => position[w] \in Position,
         UNCHANGED <<fence, position, retried, genKey, leaseExpiry, returned,
                     order>>
  PROVE  ClientTypeOK' /\ PositionInRange' /\ CallAwaited'
<1>1. superseded'[w] \in BOOLEAN
  BY DEF Send, ClientTypeOK
<1>2. ClientTypeOK'
  BY <1>1 DEF Send, ClientTypeOK
<1>3. PositionInRange'
  BY DEF Send, ClientTypeOK, PositionInRange
<1>4. CallAwaited'
  BY DEF Send, Accept, TypeOK, FramesOK, ClientTypeOK, CallAwaited, Worker,
         Awaiting
<1>5. QED BY <1>2, <1>3, <1>4

\* The steps of a run.
LEMMA ClientTypes ==
  ASSUME TypeOK, ClientTypeOK, PositionInRange, CallAwaited,
         NEW w \in Worker, ClientStep(w) \/ ClientFault(w)
  PROVE  ClientTypeOK' /\ PositionInRange' /\ CallAwaited'
<1> USE DEF Awaiting, Working, Stopped, Executing
<1>1. pc[w] \in Awaiting /\ at[w] = Idle => reply[w] \in Reply
  BY DEF CallAwaited
<1>2. w \in Value
  BY WorkflowAssumption
<1>3. CASE Start(w)
  <2>1. [rpc |-> "start"] \in Request(Nat)
    BY DEF Request, StartRequest
  <2>2. QED BY <1>3, <2>1, SendTypes DEF Start, Entry, PointsOf, Idle
<1>4. CASE KeyCall(w)
  <2> DEFINE r == [rpc |-> "key", fencing_token |-> fence[w],
                   position |-> position[w]]
  <2>1. r \in Request(Nat)
    BY <1>4 DEF KeyCall, Request, KeyRequest, ClientTypeOK
  <2>2. QED BY <1>4, <2>1, SendTypes DEF KeyCall, Entry, PointsOf, KeyPoint, Idle
<1>5. CASE LeaseCall(w)
  <2> DEFINE r == [rpc |-> "lease", fencing_token |-> fence[w],
                   position |-> position[w], idempotency_key |-> KeyOf(w),
                   lease_timeout |-> TaskLease]
  <2>1. r \in Request(Nat)
    BY <1>5, WorkflowAssumption
       DEF LeaseCall, KeyOf, Request, LeaseRequest, ClientTypeOK
  <2>2. QED
    BY <1>5, <2>1, SendTypes DEF LeaseCall, Entry, PointsOf, LeasePoint, Idle
<1>6. CASE SaveCall(w)
  <2> DEFINE r == [rpc |-> "checkpoint", fencing_token |-> fence[w],
                   position |-> position[w], idempotency_key |-> KeyOf(w),
                   value |-> w]
  <2>1. position[w] \in Position
    BY <1>6 DEF SaveCall, PositionInRange
  <2>2. r \in Request(Nat)
    BY <1>2, <1>6, <2>1, WorkflowAssumption
       DEF KeyOf, Request, CheckpointRequest, ClientTypeOK
  <2>3. QED
    BY <1>6, <2>1, <2>2, SendTypes
       DEF SaveCall, Entry, PointsOf, CheckpointPoint, Idle
<1>7. CASE CompleteCall(w)
  <2>1. PICK t \in Retention :
          Send(w, "completing", [rpc |-> "complete", fencing_token |-> fence[w],
                                 expire_after |-> t])
    BY <1>7 DEF CompleteCall
  <2> DEFINE r == [rpc |-> "complete", fencing_token |-> fence[w],
                   expire_after |-> t]
  <2>2. r \in Request(Nat)
    BY DEF Request, CompleteRequest, ClientTypeOK
  <2>3. QED
    BY <1>7, <2>1, <2>2, SendTypes
       DEF CompleteCall, Entry, PointsOf, CompletePoint, Idle
<1>8. CASE TaskThrows(w)
  <2> DEFINE r == [rpc |-> "release", position |-> position[w]]
  <2>1. position[w] \in Position
    BY <1>8 DEF TaskThrows, PositionInRange
  <2>2. r \in Request(Nat)
    BY <2>1 DEF Request, ReleaseRequest
  <2>3. QED
    BY <1>8, <2>1, <2>2, SendTypes DEF TaskThrows, Entry, PointsOf, Idle
<1>9. CASE StartAnswered(w)
  BY <1>1, <1>9, GotoTypes, ReplyFields
     DEF StartAnswered, Answered, Resolved, Goto, ClientTypeOK, vars, frames
<1>10. CASE KeyAnswered(w)
  BY <1>1, <1>10, GotoTypes, ReplyFields
     DEF KeyAnswered, Answered, Resolved, Goto, ClientTypeOK, vars, frames
<1>11. CASE LeaseAnswered(w)
  <2>1. pc[w] = "leasing" /\ at[w] = Idle /\ reply[w] \in Reply
    BY <1>1, <1>11 DEF LeaseAnswered, Answered
  <2>2. CASE Resolved(w, "value") /\ Return(w, reply[w].value)
    BY <2>1, <2>2, ReplyFields, ReturnTypes DEF Resolved
  <2>3. CASE ~(Resolved(w, "value") /\ Return(w, reply[w].value))
    <3>1. now + TaskLease \in Nat
      BY WorkflowAssumption, ParameterAssumption DEF TypeOK, StoresOK
    <3>2. CASE \E p \in {"ready", "failed"} : Goto(w, p)
      BY <2>1, <3>2, GotoTypes DEF Goto, ClientTypeOK, vars, frames
    <3>3. CASE ~ \E p \in {"ready", "failed"} : Goto(w, p)
      <4>1. \E p \in {"running", "ready"} : pc' = [pc EXCEPT ![w] = p]
        BY <1>11, <2>3, <3>3 DEF LeaseAnswered
      <4>2. UNCHANGED <<vars, fence, position, genKey, returned, order,
                        superseded>>
        BY <1>11, <2>3, <3>3 DEF LeaseAnswered
      <4>3. /\ leaseExpiry' \in [Worker -> Nat]
            /\ retried' \in [Worker -> BOOLEAN]
        BY <1>11, <2>3, <3>1, <3>3 DEF LeaseAnswered, ClientTypeOK
      <4> QED
        BY <2>1, <4>1, <4>2, <4>3, GotoTypes DEF ClientTypeOK, vars, frames
    <3> QED
      BY <3>2, <3>3
  <2>4. QED BY <2>2, <2>3
<1>12. CASE TaskReturns(w) \/ ReleaseAnswered(w) \/ RollBack(w) \/ CompleteAnswered(w)
  <2>1. at[w] = Idle
    BY <1>12 DEF TaskReturns, ReleaseAnswered, RollBack, CompleteAnswered,
                 Answered, CallAwaited
  <2>2. QED
    BY <1>12, <2>1, GotoTypes
       DEF TaskReturns, ReleaseAnswered, RollBack, CompleteAnswered, Answered,
           Goto, ClientTypeOK, vars, frames
<1>13. CASE SaveAnswered(w) \/ SaveExpires(w)
  <2>1. at[w] = Idle /\ pc[w] \in {"checkpointing", "saving"}
    BY <1>13 DEF SaveAnswered, SaveExpires, Answered, CallAwaited
  <2>2. CASE Return(w, w)
    BY <1>2, <2>1, <2>2, ReturnTypes
  <2>3. CASE ~Return(w, w)
    BY <1>13, <2>1, <2>3, GotoTypes
       DEF SaveAnswered, SaveExpires, Goto, ClientTypeOK, vars, frames
  <2>4. QED BY <2>2, <2>3
<1>14. CASE SerializeThrows(w) \/ DeserializeThrows(w)
  <2>1. at[w] = Idle
    BY <1>14 DEF SerializeThrows, DeserializeThrows, Answered, CallAwaited
  <2>2. QED
    BY <1>14, <2>1, GotoTypes
       DEF SerializeThrows, DeserializeThrows, FaultyGoto, Stopped,
           ClientTypeOK, frames
<1>15. CASE Crash(w)
  BY <1>15 DEF Crash, FaultyGoto, ClientTypeOK, PositionInRange, CallAwaited,
               frames
<1>16. CASE LoseReply(w)
  <2>1. Error("unavailable") \in Reply /\ Error("unavailable").kind = "error"
    BY DEF Error, Reply, ErrCode
  <2>2. QED
    BY <1>16, <2>1 DEF LoseReply, clientVars, ClientTypeOK, PositionInRange,
                       CallAwaited, TypeOK, FramesOK, Worker
<1>17. QED
  BY <1>3, <1>4, <1>5, <1>6, <1>7, <1>8, <1>9, <1>10, <1>11, <1>12, <1>13,
     <1>14, <1>15, <1>16 DEF ClientStep, ClientFault

\* The handler of a call goes on to another of its awaits or answers it.
GoesOn(w, p) ==
  /\ UNCHANGED <<reply, arg>>
  /\ \E point \in PointsOf(p) : at' = [at EXCEPT ![w] = point]

Answers(w, p) ==
  \E r \in Reply : r.kind \in {"error"} \cup AnswersTo(p) /\ Answer(w, r)

\* The simple answers are answers.
LEMMA SimpleReplies ==
  /\ \A code \in ErrCode : Error(code) \in Reply /\ Error(code).kind = "error"
  /\ \A kind \in {"granted", "released", "completed"} :
       Done(kind) \in Reply /\ Done(kind).kind = kind
  /\ \A p \in Position, key \in Key :
       KeyAnswer(p, key) \in Reply /\ KeyAnswer(p, key).kind = "key"
  /\ \A b \in BOOLEAN : [kind |-> "saved", abort |-> b] \in Reply
BY DEF Error, Done, KeyAnswer, Reply

LEMMA LeasePoints ==
  ASSUME TypeOK, NEW w \in Call,
         \/ LeaseGetCheckpoint(w) \/ LeaseReadLease(w) \/ LeaseReadToken(w)
         \/ LeaseDecide(w) \/ LeasePut(w)
  PROVE  at[w] \in LeasePoint /\ (GoesOn(w, "leasing") \/ Answers(w, "leasing"))
<1> USE DEF GoesOn, Answers, PointsOf, AnswersTo, LeasePoint, ErrCode
<1>1. arg[w] \in LeaseRequest(Nat) /\ arg[w].position \in Position
  BY DEF TypeOK, FrameOK, LeaseRequest, LeaseGetCheckpoint, LeaseReadLease,
         LeaseReadToken, LeaseDecide, LeasePut
<1>2. at \in [Call -> Point]
  BY DEF TypeOK, FramesOK
<1>3. CASE LeaseGetCheckpoint(w)
  <2>1. StoredRow(w) # None /\ StoredRow(w).value # None =>
          [kind |-> "value", position |-> arg[w].position,
           value |-> StoredRow(w).value] \in Reply
    BY <1>1 DEF StoredRow, TypeOK, StoresOK, CheckpointRow, Reply
  <2>2. QED BY <1>3, <2>1, SimpleReplies DEF LeaseGetCheckpoint
<1>4. CASE LeaseReadLease(w) \/ LeaseReadToken(w)
  BY <1>2, <1>4 DEF LeaseReadLease, LeaseReadToken
<1>5. CASE LeaseDecide(w)
  <2>1. Held(w) => [kind |-> "wait",
                    remaining |-> RemainingLease(lease[w], now)] \in Reply
    <3>1. Held(w) => RemainingLease(lease[w], now) \in Nat \ {0}
      BY DEF Held, RemainingLease, TypeOK, FramesOK, StoresOK, LeaseEntry
    <3>2. QED BY <3>1 DEF Reply
  <2>2. QED BY <1>5, <2>1, SimpleReplies DEF LeaseDecide
<1>6. CASE LeasePut(w)
  BY <1>6, SimpleReplies DEF LeasePut
<1>7. QED BY <1>3, <1>4, <1>5, <1>6

LEMMA CheckpointPoints ==
  ASSUME TypeOK, NEW w \in Call,
         \/ CheckpointReadToken(w) \/ CheckpointGetLease(w)
         \/ CheckpointDeleteLease(w) \/ CheckpointDecide(w) \/ CheckpointInsert(w)
  PROVE  /\ at[w] \in CheckpointPoint
         /\ GoesOn(w, "checkpointing") \/ Answers(w, "checkpointing")
<1> USE DEF GoesOn, Answers, PointsOf, AnswersTo, CheckpointPoint, ErrCode
<1>1. at \in [Call -> Point]
  BY DEF TypeOK, FramesOK
<1>2. CASE CheckpointReadToken(w) \/ CheckpointGetLease(w) \/ CheckpointDeleteLease(w)
  BY <1>1, <1>2 DEF CheckpointReadToken, CheckpointGetLease, CheckpointDeleteLease
<1>3. CASE CheckpointDecide(w)
  BY <1>3, SimpleReplies DEF CheckpointDecide
<1>4. CASE CheckpointInsert(w)
  <2>1. [kind |-> "saved", abort |-> Stale(w)] \in Reply
    BY DEF Stale, Reply
  <2>2. QED BY <1>4, <2>1 DEF CheckpointInsert
<1>5. QED BY <1>2, <1>3, <1>4

LEMMA KeyPoints ==
  ASSUME TypeOK, NEW w \in Call, KeyGet(w) \/ KeyReadToken(w) \/ KeyInsert(w)
  PROVE  at[w] \in KeyPoint /\ (GoesOn(w, "keying") \/ Answers(w, "keying"))
<1> USE SimpleReplies DEF GoesOn, Answers, PointsOf, AnswersTo, KeyPoint, ErrCode
<1>1. arg[w] \in KeyRequest(Nat) /\ arg[w].position \in Position
  BY DEF TypeOK, FrameOK, KeyRequest, KeyGet, KeyReadToken, KeyInsert
<1>2. CASE KeyGet(w)
  <2>1. StoredRow(w) # None => StoredRow(w).idempotency_key \in Key
    BY <1>1 DEF StoredRow, TypeOK, StoresOK, CheckpointRow
  <2>2. QED BY <1>1, <1>2, <2>1 DEF KeyGet
<1>3. CASE KeyReadToken(w)
  BY <1>3 DEF KeyReadToken
<1>4. CASE KeyInsert(w)
  BY <1>1, <1>4, ParameterAssumption DEF KeyInsert
<1>5. QED BY <1>2, <1>3, <1>4

LEMMA WorkflowPoints ==
  ASSUME TypeOK, NEW w \in Call, WorkflowServiceStep(w)
  PROVE  \/ at[w] = "start" /\ (GoesOn(w, "starting") \/ Answers(w, "starting"))
         \/ /\ at[w] \in CompletePoint
            /\ GoesOn(w, "completing") \/ Answers(w, "completing")
<1> USE SimpleReplies
    DEF GoesOn, Answers, PointsOf, AnswersTo, CompletePoint, ErrCode
<1>1. at \in [Call -> Point]
  BY DEF TypeOK, FramesOK
<1>2. CASE StartInsertRow(w) \/ StartInsertRowFails(w) \/ StartIncrement(w)
  BY <1>1, <1>2 DEF StartInsertRow, StartInsertRowFails, StartIncrement
<1>3. CASE StartReturn(w)
  <2>1. [kind |-> "token", fencing_token |-> token[w]] \in Reply
    BY <1>3 DEF StartReturn, TypeOK, FrameOK, Reply
  <2>2. QED BY <1>3, <2>1 DEF StartReturn
<1>4. CASE FinishReadToken(w)
  BY <1>4 DEF FinishReadToken
<1>5. CASE FinishUpdate(w)
  BY <1>5 DEF FinishUpdate
<1>6. QED BY <1>2, <1>3, <1>4, <1>5 DEF WorkflowServiceStep

\* A handler's step goes on at an await of the same RPC or answers it.
LEMMA HandlerPoints ==
  ASSUME TypeOK, NEW w \in Call,
         CheckpointServiceStep(w) \/ WorkflowServiceStep(w)
  PROVE  \E p \in Awaiting : /\ at[w] \in PointsOf(p)
                             /\ GoesOn(w, p) \/ Answers(w, p)
<1> USE DEF Awaiting, PointsOf
<1>1. CASE ReleaseDelete(w)
  BY <1>1, SimpleReplies DEF ReleaseDelete, Answers, AnswersTo
<1>2. CASE CheckpointServiceStep(w) /\ ~ReleaseDelete(w)
  BY <1>2, LeasePoints, CheckpointPoints, KeyPoints DEF CheckpointServiceStep
<1>3. CASE WorkflowServiceStep(w)
  BY <1>3, WorkflowPoints
<1>4. QED BY <1>1, <1>2, <1>3

\* A step of a call's handler, for the run that awaits it.
LEMMA HandlerAwaited ==
  ASSUME TypeOK, ClientTypeOK, CallAwaited, NEW w \in Worker,
         CheckpointServiceStep(w) \/ WorkflowServiceStep(w), UNCHANGED pc
  PROVE  CallAwaited'
<1>1. PICK p \in Awaiting : /\ at[w] \in PointsOf(p)
                            /\ GoesOn(w, p) \/ Answers(w, p)
  BY HandlerPoints DEF Worker
<1>2. \A q \in Awaiting : at[w] \in PointsOf(q) => q = p
  BY <1>1 DEF Awaiting, PointsOf, LeasePoint, CheckpointPoint, KeyPoint,
              CompletePoint
<1>3. at[w] # Idle /\ Idle \notin PointsOf(p)
  BY <1>1 DEF Awaiting, PointsOf, LeasePoint, CheckpointPoint, KeyPoint,
              CompletePoint, Idle
<1>4. pc[w] = p \/ pc[w] = "crashed"
  BY <1>2, <1>3 DEF CallAwaited, ClientTypeOK
<1>5. CASE GoesOn(w, p)
  <2>1. PICK point \in PointsOf(p) : at' = [at EXCEPT ![w] = point]
    BY <1>5 DEF GoesOn
  <2>2. UNCHANGED reply /\ point # Idle
    BY <1>3, <1>5, <2>1 DEF GoesOn
  <2>3. QED BY <1>4, <2>1, <2>2, <1>3 DEF CallAwaited, TypeOK, FramesOK, Worker, Awaiting
<1>6. CASE Answers(w, p)
  BY <1>3, <1>4, <1>6
     DEF Answers, Answer, CallAwaited, TypeOK, FramesOK, Worker, Awaiting
<1>7. QED BY <1>1, <1>5, <1>6

\* A step of the server's keeps the runs as they are and their calls awaited.
LEMMA ServerTypes ==
  ASSUME TypeOK, ClientTypeOK, PositionInRange, CallAwaited,
         ServerSide(ServerMoves)
  PROVE  PositionInRange' /\ CallAwaited'
<1>1. pc' = pc /\ position' = position /\ ServerMoves
  BY DEF ServerSide
<1>2. PositionInRange'
  BY <1>1 DEF PositionInRange
<1> SUFFICES CallAwaited'
  BY <1>2
<1>3. CASE \E w \in Worker : CheckpointServiceStep(w) \/ WorkflowServiceStep(w)
  BY <1>1, <1>3, HandlerAwaited
<1>4. CASE Environment
  <2>1. ASSUME NEW c \in Call, Abandon(c) PROVE CallAwaited'
    <3>1. Error("unavailable") \in Reply /\ Error("unavailable").kind = "error"
      BY SimpleReplies DEF ErrCode
    <3>2. QED
      BY <1>1, <2>1, <3>1 DEF Abandon, Answer, CallAwaited, TypeOK, FramesOK, Worker
  <2>2. CASE Restart
    <3>1. Error("unavailable") \in Reply /\ Error("unavailable").kind = "error"
      BY SimpleReplies DEF ErrCode
    <3>2. QED BY <1>1, <2>2, <3>1 DEF Restart, CallAwaited, Worker
  <2>3. CASE at' = at /\ reply' = reply
    BY <1>1, <2>3 DEF CallAwaited
  <2>4. QED BY <1>4, <2>1, <2>2, <2>3 DEF Environment, LeaseEvict, Tick, frames
<1>5. QED BY <1>1, <1>2, <1>3, <1>4 DEF ServerMoves

-----------------------------------------------------------------------------
(* What happens to frames                                                  *)

FrameKept(u) ==
  /\ at'[u] = at[u] /\ arg'[u] = arg[u] /\ todo'[u] = todo[u]
  /\ token'[u] = token[u] /\ lease'[u] = lease[u] /\ reply'[u] = reply[u]

FrameDropped(u) ==
  /\ at'[u] = Idle /\ token'[u] = None
  /\ reply'[u] = IF at[u] = Idle THEN reply[u] ELSE Error("unavailable")

\* A handler's step leaves the frames of the other calls alone.
LEMMA OtherFrames ==
  ASSUME TypeOK, NEW w \in Call,
         CheckpointServiceStep(w) \/ WorkflowServiceStep(w),
         NEW u \in Call, u # w
  PROVE  FrameKept(u)
<1> USE DEF TypeOK, FramesOK, Answer, Joined, locals, FrameKept
<1>1. CASE CheckpointServiceStep(w)
  BY <1>1 DEF CheckpointServiceStep, LeaseGetCheckpoint, LeaseReadLease,
              LeaseReadToken, LeaseDecide, LeasePut, CheckpointReadToken,
              CheckpointGetLease, CheckpointDeleteLease, CheckpointDecide,
              CheckpointInsert, ReleaseDelete, KeyGet, KeyReadToken, KeyInsert
<1>2. CASE WorkflowServiceStep(w)
  BY <1>2 DEF WorkflowServiceStep, StartInsertRow, StartInsertRowFails,
              StartIncrement, StartReturn, FinishReadToken, FinishUpdate
<1>3. QED BY <1>1, <1>2

\* Faults and time drop frames or leave them alone.
LEMMA EnvironmentFrames ==
  ASSUME TypeOK, Environment
  PROVE  /\ fencingToken' = fencingToken /\ floor' = floor
         /\ \A u \in Call : FrameKept(u) \/ FrameDropped(u)
<1> USE DEF TypeOK, FramesOK, locals, stores, bookkeeping, history, frames,
            FrameKept, FrameDropped
<1>1. ASSUME NEW c \in Call, Abandon(c)
      PROVE  /\ fencingToken' = fencingToken /\ floor' = floor
             /\ \A u \in Call : FrameKept(u) \/ FrameDropped(u)
  BY <1>1 DEF Abandon, Answer
<1>2. CASE Restart
  BY <1>2 DEF Restart
<1>3. CASE (\E p \in Position : LeaseEvict(p)) \/ Tick
  BY <1>3 DEF LeaseEvict, Tick
<1>4. QED BY <1>1, <1>2, <1>3 DEF Environment

\* Where a handler takes its token from, if it does not increment it.
LEMMA HandlerToken ==
  ASSUME TypeOK, NEW w \in Call,
         CheckpointServiceStep(w) \/ WorkflowServiceStep(w), ~StartIncrement(w)
  PROVE  /\ fencingToken' = fencingToken /\ floor' = floor
         /\ token'[w] \in {None, token[w], fencingToken}
         /\ at[w] = "start" => token'[w] \in {None, token[w]}
<1> USE DEF TypeOK, FramesOK, Answer, Joined, locals, stores, bookkeeping, history
<1>1. CASE CheckpointServiceStep(w)
  BY <1>1 DEF CheckpointServiceStep, LeaseGetCheckpoint, LeaseReadLease,
              LeaseReadToken, LeaseDecide, LeasePut, CheckpointReadToken,
              CheckpointGetLease, CheckpointDeleteLease, CheckpointDecide,
              CheckpointInsert, ReleaseDelete, KeyGet, KeyReadToken, KeyInsert
<1>2. CASE WorkflowServiceStep(w)
  BY <1>2 DEF WorkflowServiceStep, StartInsertRow, StartInsertRowFails,
              StartReturn, FinishReadToken, FinishUpdate
<1>3. QED BY <1>1, <1>2

-----------------------------------------------------------------------------
(* Ranks                                                                   *)

\* Without an increment the ranks stay as they are.
LEMMA RanksKept ==
  ASSUME TypeOK, ClientTypeOK, ServerSide(ServerMoves),
         \A w \in Worker : ~StartIncrement(w)
  PROVE  order' = order /\ fencingToken' = fencingToken /\ floor' = floor
<1>1. fencingToken' = fencingToken /\ floor' = floor
        /\ \A u \in Worker : ~Incremented(u)
  <2>1. ASSUME NEW w \in Worker, CheckpointServiceStep(w) \/ WorkflowServiceStep(w)
        PROVE  fencingToken' = fencingToken /\ floor' = floor
                 /\ \A u \in Worker : ~Incremented(u)
    BY <2>1, OtherFrames, HandlerToken DEF Worker, Incremented, FrameKept
  <2>2. CASE Environment
    BY <2>2, EnvironmentFrames DEF Worker, Incremented, FrameKept, FrameDropped
  <2>3. QED BY <2>1, <2>2 DEF ServerSide, ServerMoves
<1>2. order' = [w \in Worker |-> order[w]]
  BY <1>1 DEF ServerSide
<1>3. QED BY <1>1, <1>2 DEF ClientTypeOK

\* The run that increments the token is given the next rank.
LEMMA RankGiven ==
  ASSUME TypeOK, ClientTypeOK, RanksCounted, RankIsToken,
         NEW w \in Worker, StartIncrement(w), ServerSide(ServerMoves)
  PROVE  /\ Stored \in Nat /\ Stored' = Stored + 1
         /\ fencingToken' = Stored + 1 /\ floor' = floor
         /\ order[w] = 0 /\ order' = [order EXCEPT ![w] = Stored + 1]
         /\ token' = [token EXCEPT ![w] = Stored + 1]
         /\ at[w] = "start" /\ "token" \in todo[w]
<1>1. /\ at[w] = "start" /\ "token" \in todo[w]
      /\ fencingToken' = IncrementToken(fencingToken)
      /\ token' = [token EXCEPT ![w] = fencingToken'] /\ floor' = floor
  BY DEF StartIncrement, bookkeeping, history
<1>2. Stored \in Nat /\ fencingToken' = Stored + 1
  BY <1>1 DEF Stored, IncrementToken, TypeOK, StoresOK
<1>3. Stored' = Stored + 1
  BY <1>2, NoneAssumption DEF Stored
<1>4. order[w] = 0 /\ token[w] = None
  BY <1>1 DEF RankIsToken
<1>5. \A u \in Worker : Incremented(u) <=> u = w
  BY <1>1, <1>2, <1>4, NoneAssumption DEF Incremented, TypeOK, FramesOK, Worker
<1>6. order' = [u \in Worker |-> IF u = w THEN Stored + 1 ELSE order[u]]
  BY <1>5 DEF ServerSide, RanksCounted, Ranked
<1>7. order' = [order EXCEPT ![w] = Stored + 1]
  BY <1>6 DEF ClientTypeOK
<1>8. QED BY <1>1, <1>2, <1>3, <1>4, <1>7

\* One more run has a rank.
LEMMA RankedMore ==
  ASSUME ClientTypeOK, RanksCounted, Stored \in Nat, NEW w \in Worker,
         order[w] = 0, order' = [order EXCEPT ![w] = Stored + 1],
         Stored' = Stored + 1
  PROVE  RanksCounted'
<1>1. Ranked' = Ranked \cup {w} /\ w \notin Ranked
  BY DEF Ranked, ClientTypeOK
<1>2. IsFiniteSet(Ranked)
  <2>1. Ranked \subseteq Worker
    BY DEF Ranked
  <2>2. QED BY <2>1, WorkflowAssumption, FS_Subset
<1>3. Cardinality(Ranked') = Stored + 1
  BY <1>1, <1>2, FS_AddElement DEF RanksCounted
<1>4. QED BY <1>3 DEF RanksCounted, ClientTypeOK

\* Ranks do not exceed the number of runs.
LEMMA RanksBounded ==
  ASSUME NEW rank \in [Worker -> Nat],
         \A w \in Worker : rank[w] <= Cardinality({u \in Worker : rank[u] > 0})
  PROVE  rank \in [Worker -> 0 .. Cardinality(Worker)]
<1> DEFINE R == {u \in Worker : rank[u] > 0}
<1>1. R \subseteq Worker
  OBVIOUS
<1>2. /\ Cardinality(Worker) \in Nat /\ Cardinality(R) \in Nat
      /\ Cardinality(R) <= Cardinality(Worker)
  BY <1>1, WorkflowAssumption, FS_Subset, FS_CardinalityType
<1>3. QED BY <1>2

-----------------------------------------------------------------------------
(* The server's steps and the tokens                                       *)

\* The points of two RPCs have nothing in common.
LEMMA PointsApart ==
  /\ \A p, q \in Awaiting : PointsOf(p) \cap PointsOf(q) # {} => p = q
  /\ \A p \in Awaiting : /\ Idle \notin PointsOf(p)
                         /\ "start" \in PointsOf(p) => p = "starting"
                         /\ p = "starting" => PointsOf(p) = {"start"}
                         /\ "token" \in AnswersTo(p) => p = "starting"
BY DEF Awaiting, PointsOf, AnswersTo, LeasePoint, CheckpointPoint, KeyPoint,
       CompletePoint, Idle

\* The increment.
LEMMA IncrementRanks ==
  ASSUME ClientInv, NEW w \in Worker, StartIncrement(w), ServerSide(ServerMoves)
  PROVE  /\ order' \in [Worker -> Nat]
         /\ RanksCounted' /\ RankIsToken' /\ TokenStored' /\ SupersededBelowFloor'
<1> USE DEF ClientInv
<1>1. /\ Stored \in Nat /\ Stored' = Stored + 1
      /\ floor' = floor
      /\ order[w] = 0 /\ order' = [order EXCEPT ![w] = Stored + 1]
      /\ token' = [token EXCEPT ![w] = Stored + 1]
      /\ at[w] = "start" /\ "token" \in todo[w]
  BY RankGiven
<1>2. /\ UNCHANGED <<at, arg, reply>> /\ todo' = [todo EXCEPT ![w] = @ \ {"token"}]
      /\ UNCHANGED <<pc, fence, superseded>>
  BY DEF StartIncrement, Joined, ServerSide
<1>3. pc[w] \in {"starting", "crashed"}
  BY <1>1 DEF CallAwaited, Awaiting, PointsOf, LeasePoint, CheckpointPoint,
              KeyPoint, CompletePoint, Idle
<1>4. RanksCounted'
  BY <1>1, RankedMore
<1>5. RankIsToken'
  BY <1>1, <1>2, <1>3
     DEF RankIsToken, Answered, Resolved, ClientTypeOK, TypeOK, FramesOK, Worker,
         Awaiting, Working, Idle, LeasePoint, CheckpointPoint, KeyPoint,
         CompletePoint
<1>6. TokenStored'
  BY <1>1, NoneAssumption DEF TokenStored, TypeOK, FramesOK, Worker
<1>7. SupersededBelowFloor'
  BY <1>1, <1>2 DEF SupersededBelowFloor, ClientTypeOK
<1>8. QED BY <1>1, <1>4, <1>5, <1>6, <1>7 DEF ClientTypeOK

\* What the handler of start does with the token it has been given.
LEMMA StartSteps ==
  ASSUME TypeOK, NEW w \in Call, at[w] = "start",
         CheckpointServiceStep(w) \/ WorkflowServiceStep(w), ~StartIncrement(w)
  PROVE  \/ /\ at'[w] = "start" /\ token'[w] = token[w]
            /\ todo'[w] = todo[w] \ {"row"}
         \/ /\ at'[w] = Idle /\ "token" \notin todo[w]
            /\ reply'[w] = [kind |-> "token", fencing_token |-> token[w]]
<1> USE DEF TypeOK, FramesOK, Answer, Joined
<1>1. ~CheckpointServiceStep(w)
  BY DEF CheckpointServiceStep, LeaseGetCheckpoint, LeaseReadLease,
         LeaseReadToken, LeaseDecide, LeasePut, CheckpointReadToken,
         CheckpointGetLease, CheckpointDeleteLease, CheckpointDecide,
         CheckpointInsert, ReleaseDelete, KeyGet, KeyReadToken, KeyInsert
<1>2. QED
  BY <1>1 DEF WorkflowServiceStep, StartInsertRow, StartInsertRowFails,
              StartReturn, FinishReadToken, FinishUpdate

\* Any other step of a handler.
LEMMA HandlerRanks ==
  ASSUME ClientInv, NEW w \in Worker,
         CheckpointServiceStep(w) \/ WorkflowServiceStep(w), ~StartIncrement(w),
         order' = order, UNCHANGED <<pc, fence, superseded>>
  PROVE  RankIsToken' /\ TokenStored' /\ SupersededBelowFloor'
<1> USE DEF ClientInv
<1>1. \A u \in Worker : u # w => FrameKept(u)
  BY OtherFrames DEF Worker
<1>2. /\ fencingToken' = fencingToken /\ floor' = floor
      /\ token'[w] \in {None, token[w], fencingToken}
  BY HandlerToken DEF Worker
<1>3. PICK p \in Awaiting : /\ at[w] \in PointsOf(p)
                            /\ GoesOn(w, p) \/ Answers(w, p)
  BY HandlerPoints DEF Worker
<1>4. \/ at'[w] \in PointsOf(p) /\ arg'[w] = arg[w] /\ reply'[w] = reply[w]
      \/ at'[w] = Idle /\ reply'[w].kind \in {"error"} \cup AnswersTo(p)
  BY <1>3 DEF GoesOn, Answers, Answer, TypeOK, FramesOK, Worker
<1>5. at[w] # Idle
  BY <1>3, PointsApart
<1>6. TokenStored'
  <2>1. Stored' = Stored
    BY <1>2 DEF Stored
  <2>2. token'[w] # None => token'[w] <= Stored
    BY <1>2 DEF TokenStored, Stored, TypeOK, StoresOK
  <2>3. QED BY <1>1, <2>1, <2>2 DEF TokenStored, FrameKept
<1>7. SupersededBelowFloor'
  BY <1>1, <1>2, <1>3, <1>4, <1>5, PointsApart
     DEF SupersededBelowFloor, FrameKept
<1>8. RankIsToken'
  <2> DEFINE Kind == LeasePoint \cup CheckpointPoint \cup KeyPoint \cup CompletePoint
  <2>1. at'[w] \in Kind => at[w] \in Kind /\ arg'[w] = arg[w]
    BY <1>3, <1>4 DEF Awaiting, PointsOf, Idle, LeasePoint, CheckpointPoint,
                      KeyPoint, CompletePoint
  <2>2. CASE at[w] = "start"
    <3>1. ASSUME at'[w] = "start", token'[w] = token[w],
                 todo'[w] = todo[w] \ {"row"}
          PROVE  RankIsToken'
      BY <1>1, <2>1, <2>2, <3>1
         DEF RankIsToken, FrameKept, Answered, Resolved, Idle
    <3>2. ASSUME at'[w] = Idle, "token" \notin todo[w],
                 reply'[w] = [kind |-> "token", fencing_token |-> token[w]]
          PROVE  RankIsToken'
      <4>1. reply'[w].fencing_token = order[w]
        BY <2>2, <3>2 DEF RankIsToken
      <4>2. at'[w] \notin Kind \cup {"start"}
        BY <3>2 DEF Idle, LeasePoint, CheckpointPoint, KeyPoint, CompletePoint
      <4>3. QED
        BY <1>1, <4>1, <4>2 DEF RankIsToken, FrameKept, Answered, Resolved
    <3>3. QED BY <2>2, <3>1, <3>2, StartSteps DEF Worker
  <2>3. CASE at[w] # "start"
    <3>1. at'[w] # "start" /\ ~(at'[w] = Idle /\ reply'[w].kind = "token")
      BY <1>3, <1>4, <2>3, PointsApart DEF Idle
    <3>2. QED
      BY <1>1, <2>1, <3>1 DEF RankIsToken, FrameKept, Answered, Resolved
  <2>4. QED BY <2>2, <2>3
<1>9. QED BY <1>6, <1>7, <1>8

\* Faults and time.
LEMMA EnvironmentRanks ==
  ASSUME ClientInv, Environment, order' = order,
         UNCHANGED <<pc, fence, superseded>>
  PROVE  RankIsToken' /\ TokenStored' /\ SupersededBelowFloor'
<1> USE DEF ClientInv
<1>1. /\ fencingToken' = fencingToken /\ floor' = floor
      /\ \A u \in Worker : FrameKept(u) \/ FrameDropped(u)
  BY EnvironmentFrames DEF Worker
<1>2. TokenStored'
  BY <1>1 DEF TokenStored, Stored, FrameKept, FrameDropped
<1>3. SupersededBelowFloor'
  BY <1>1 DEF SupersededBelowFloor, FrameKept, FrameDropped
<1>4. Error("unavailable").kind = "error"
  BY DEF Error
<1>5. Idle \notin LeasePoint \cup CheckpointPoint \cup KeyPoint \cup CompletePoint
        \cup {"start"}
  BY DEF Idle, LeasePoint, CheckpointPoint, KeyPoint, CompletePoint
<1>6. RankIsToken'
  BY <1>1, <1>4, <1>5
     DEF RankIsToken, FrameKept, FrameDropped, Answered, Resolved
<1>7. QED BY <1>2, <1>3, <1>6

\* The server's steps preserve ClientInv.
LEMMA ServerClientInv ==
  ASSUME ClientInv, ServerSide(ServerMoves)
  PROVE  ClientInv'
<1> USE DEF ClientInv
<1>1. TypeOK' /\ FenceInv'
  BY ServerServerInv DEF ServerSide
<1>2. PositionInRange' /\ CallAwaited'
  BY ServerTypes
<1>3. /\ order' \in [Worker -> Nat]
      /\ RanksCounted' /\ RankIsToken' /\ TokenStored' /\ SupersededBelowFloor'
  <2>1. CASE \E w \in Worker : StartIncrement(w)
    BY <2>1, IncrementRanks
  <2>2. CASE \A w \in Worker : ~StartIncrement(w)
    <3>1. order' = order /\ fencingToken' = fencingToken
      BY <2>2, RanksKept
    <3>2. UNCHANGED <<pc, fence, superseded>> /\ ServerMoves
      BY DEF ServerSide
    <3>3. RanksCounted' /\ order' \in [Worker -> Nat]
      BY <3>1 DEF RanksCounted, Ranked, Stored, ClientTypeOK
    <3>4. QED
      BY <2>2, <3>1, <3>2, <3>3, HandlerRanks, EnvironmentRanks DEF ServerMoves
  <2>3. QED BY <2>1, <2>2
<1>4. ClientTypeOK'
  <2>1. order' \in [Worker -> 0 .. Cardinality(Worker)]
    BY <1>3, RanksBounded DEF RanksCounted, Ranked
  <2>2. QED BY <2>1 DEF ServerSide, ClientTypeOK
<1>5. QED BY <1>1, <1>2, <1>3, <1>4

-----------------------------------------------------------------------------
(* The clients' steps and the tokens                                       *)

\* A run calls: at the start without a rank, later with its token.
LEMMA SendRanks ==
  ASSUME ClientInv, NEW w \in Worker, NEW p \in Awaiting,
         NEW r \in Request(Nat), Send(w, p, r), Entry(r.rpc) \in PointsOf(p),
         p = "starting" => pc[w] = "off",
         p # "starting" => pc[w] \in Working,
         r.rpc \in {"lease", "checkpoint", "key", "complete"} =>
           r.fencing_token = fence[w],
         UNCHANGED <<fence, order>>
  PROVE  RankIsToken' /\ TokenStored' /\ SupersededBelowFloor'
<1> USE DEF ClientInv
<1>1. /\ at[w] = Idle /\ at' = [at EXCEPT ![w] = Entry(r.rpc)]
      /\ arg' = [arg EXCEPT ![w] = r]
      /\ reply' = [reply EXCEPT ![w] = None]
      /\ floor' = [floor EXCEPT ![w] = Stored]
      /\ todo' = [todo EXCEPT ![w] = FirstJoin(r.rpc)]
      /\ UNCHANGED <<fencingToken, token>>
      /\ pc' = [pc EXCEPT ![w] = p]
      /\ superseded' = [superseded EXCEPT ![w] =
                          \E u \in Worker : order[u] > order[w]]
  BY DEF Send, Accept, Stored, stores
<1>2. TokenStored'
  BY <1>1 DEF TokenStored, Stored
<1>3. Stored \in Nat
  BY DEF Stored, TypeOK, StoresOK
<1>4. SupersededBelowFloor'
  <2>1. ASSUME NEW u \in Worker, order[u] > order[w] PROVE order[w] < Stored
    BY <1>3, <2>1 DEF RanksCounted, ClientTypeOK
  <2>2. QED
    BY <1>1, <2>1 DEF SupersededBelowFloor, TypeOK, FramesOK, BookkeepingOK,
                      ClientTypeOK, Worker
<1>5. RankIsToken'
  <2>1. ASSUME NEW u \in Worker, u # w PROVE RankIsToken!(u)'
    BY <1>1, <2>1 DEF RankIsToken, Answered, Resolved, TypeOK, FramesOK, ClientTypeOK, Worker
  <2>2. at'[w] = Entry(r.rpc) /\ Entry(r.rpc) # Idle /\ pc'[w] = p
    BY <1>1, RequestOK DEF TypeOK, FramesOK, ClientTypeOK, Worker
  <2>3. /\ todo'[w] = FirstJoin(r.rpc) /\ token'[w] = None /\ arg'[w] = r
        /\ order'[w] = order[w] /\ fence'[w] = fence[w]
    BY <1>1 DEF TypeOK, FramesOK, Worker, FenceInv, IdleForgets
  <2>4. CASE p = "starting"
    <3>1. Entry(r.rpc) = "start" /\ "token" \in FirstJoin(r.rpc) /\ order[w] = 0
      BY <2>4, PointsApart, RequestOK DEF RankIsToken
    <3>2. RankIsToken!(w)'
      BY <2>2, <2>3, <2>4, <3>1
         DEF Answered, Idle, Working, LeasePoint, CheckpointPoint, KeyPoint,
             CompletePoint
    <3>3. QED BY <2>1, <3>2 DEF RankIsToken
  <2>5. CASE p # "starting"
    <3>1. Entry(r.rpc) # "start" /\ fence[w] = order[w]
      BY <2>5, PointsApart DEF RankIsToken
    <3>2. Entry(r.rpc) \in LeasePoint \cup CheckpointPoint \cup KeyPoint
                             \cup CompletePoint => r.fencing_token = order[w]
      <4>1. r.rpc \in {"start", "lease", "checkpoint", "key", "complete", "release"}
        BY DEF Request, StartRequest, LeaseRequest, CheckpointRequest,
               KeyRequest, CompleteRequest, ReleaseRequest
      <4>2. QED
        BY <3>1, <4>1 DEF Entry, LeasePoint, CheckpointPoint, KeyPoint, CompletePoint
    <3>3. RankIsToken!(w)'
      BY <2>2, <2>3, <2>5, <3>1, <3>2 DEF Answered, Awaiting
    <3>4. QED BY <2>1, <3>3 DEF RankIsToken
  <2>6. QED BY <2>4, <2>5
<1>6. QED BY <1>2, <1>4, <1>5

\* A run goes on, stops or loses an answer without calling.
LEMMA LocalRanks ==
  ASSUME ClientInv, NEW w \in Worker, NEW p,
         pc' = [pc EXCEPT ![w] = p], p \notin {"off", "starting"},
         fence'[w] = order[w] \/ p \notin (Awaiting \ {"starting"}) \cup Working,
         \A u \in Worker : u # w => fence'[u] = fence[u],
         UNCHANGED <<fencingToken, at, arg, todo, token, reply, floor, order,
                     superseded>>
  PROVE  RankIsToken' /\ TokenStored' /\ SupersededBelowFloor'
<1>1. RankIsToken'
  BY DEF ClientInv, RankIsToken, Answered, Resolved, ClientTypeOK
<1>2. TokenStored' /\ SupersededBelowFloor'
  BY DEF ClientInv, TokenStored, Stored, SupersededBelowFloor
<1>3. QED BY <1>1, <1>2

\* The clients' steps leave ranks and tokens right.
LEMMA ClientRanks ==
  ASSUME ClientInv, NEW w \in Worker, ClientStep(w) \/ ClientFault(w)
  PROVE  /\ RanksCounted' /\ RankIsToken' /\ TokenStored' /\ SupersededBelowFloor'
<1> USE DEF ClientInv
<1>1. order' = order /\ fencingToken' = fencingToken
  BY DEF ClientStep, ClientFault, Start, StartAnswered, KeyCall, KeyAnswered,
         LeaseCall, LeaseAnswered, TaskReturns, ReleaseAnswered, SaveCall,
         SaveAnswered, SaveExpires, RollBack, CompleteCall, CompleteAnswered,
         TaskThrows, SerializeThrows, DeserializeThrows, Crash, LoseReply,
         Goto, Return, FaultyGoto, Send, Accept, vars, stores, clientVars
<1>2. RanksCounted'
  BY <1>1 DEF RanksCounted, Ranked, Stored
<1> SUFFICES RankIsToken' /\ TokenStored' /\ SupersededBelowFloor'
  BY <1>2
<1>3. w \in Value
  BY WorkflowAssumption
<1>4. KeyOf(w) \in Key \/ position[w] \notin Position
  BY WorkflowAssumption DEF KeyOf, ClientTypeOK
<1>5. fence[w] \in Nat
  BY DEF ClientTypeOK
<1>6. CASE Start(w)
  <2>1. [rpc |-> "start"] \in Request(Nat)
    BY DEF Request, StartRequest
  <2>2. QED BY <1>6, <2>1, SendRanks DEF Start, Entry, PointsOf, Awaiting
<1>7. CASE KeyCall(w)
  <2> DEFINE r == [rpc |-> "key", fencing_token |-> fence[w],
                   position |-> position[w]]
  <2>1. r \in Request(Nat)
    BY <1>5, <1>7 DEF KeyCall, Request, KeyRequest
  <2>2. QED
    BY <1>7, <2>1, SendRanks
       DEF KeyCall, Entry, PointsOf, KeyPoint, Awaiting, Working
<1>8. CASE LeaseCall(w)
  <2> DEFINE r == [rpc |-> "lease", fencing_token |-> fence[w],
                   position |-> position[w], idempotency_key |-> KeyOf(w),
                   lease_timeout |-> TaskLease]
  <2>1. r \in Request(Nat)
    BY <1>4, <1>5, <1>8, WorkflowAssumption DEF LeaseCall, Request, LeaseRequest
  <2>2. QED
    BY <1>8, <2>1, SendRanks
       DEF LeaseCall, Entry, PointsOf, LeasePoint, Awaiting, Working
<1>9. CASE SaveCall(w)
  <2> DEFINE r == [rpc |-> "checkpoint", fencing_token |-> fence[w],
                   position |-> position[w], idempotency_key |-> KeyOf(w),
                   value |-> w]
  <2>1. r \in Request(Nat)
    BY <1>3, <1>4, <1>5, <1>9
       DEF SaveCall, PositionInRange, Executing, Request, CheckpointRequest
  <2>2. QED
    BY <1>9, <2>1, SendRanks
       DEF SaveCall, Entry, PointsOf, CheckpointPoint, Awaiting, Working
<1>10. CASE CompleteCall(w)
  <2>1. PICK t \in Retention :
          Send(w, "completing", [rpc |-> "complete", fencing_token |-> fence[w],
                                 expire_after |-> t])
    BY <1>10 DEF CompleteCall
  <2> DEFINE r == [rpc |-> "complete", fencing_token |-> fence[w],
                   expire_after |-> t]
  <2>2. r \in Request(Nat)
    BY <1>5 DEF Request, CompleteRequest
  <2>3. QED
    BY <1>10, <2>1, <2>2, SendRanks
       DEF CompleteCall, Entry, PointsOf, CompletePoint, Awaiting, Working
<1>11. CASE TaskThrows(w)
  <2> DEFINE r == [rpc |-> "release", position |-> position[w]]
  <2>1. r \in Request(Nat)
    BY <1>11 DEF TaskThrows, PositionInRange, Executing, Request, ReleaseRequest
  <2>2. QED
    BY <1>11, <2>1, SendRanks DEF TaskThrows, Entry, PointsOf, Awaiting, Working
<1>12. CASE StartAnswered(w)
  <2>1. Rejected(w) \/ reply[w].fencing_token = order[w]
    BY <1>12 DEF StartAnswered, RankIsToken
  <2>2. QED
    BY <1>12, <2>1, LocalRanks
       DEF StartAnswered, Goto, vars, stores, frames, locals, bookkeeping,
           history, Awaiting, Working, ClientTypeOK, Resolved, Rejected
<1>13. CASE \/ KeyAnswered(w) \/ LeaseAnswered(w)
            \/ TaskReturns(w) \/ ReleaseAnswered(w) \/ SaveAnswered(w)
            \/ SaveExpires(w) \/ RollBack(w) \/ CompleteAnswered(w)
            \/ SerializeThrows(w) \/ DeserializeThrows(w) \/ Crash(w)
  <2>1. /\ fence' = fence
        /\ UNCHANGED <<fencingToken, at, arg, todo, token, reply, floor, order,
                       superseded>>
        /\ \E p \in Working \cup Stopped : pc' = [pc EXCEPT ![w] = p]
        /\ pc[w] \in (Awaiting \ {"starting"}) \cup Working
             \/ pc' = [pc EXCEPT ![w] = "crashed"]
    BY <1>13 DEF KeyAnswered, LeaseAnswered, TaskReturns, ReleaseAnswered,
                 SaveAnswered, SaveExpires, RollBack, CompleteAnswered,
                 SerializeThrows, DeserializeThrows, Crash, Alive, FaultyGoto,
                 Goto, Return, Answered, Awaiting, Working, Stopped, vars,
                 stores, frames, locals, bookkeeping, history
  <2>2. PICK p \in Working \cup Stopped :
          /\ pc' = [pc EXCEPT ![w] = p]
          /\ pc[w] \in (Awaiting \ {"starting"}) \cup Working \/ p = "crashed"
    <3>1. pc[w] \in (Awaiting \ {"starting"}) \cup Working
            \/ (pc' = [pc EXCEPT ![w] = "crashed"] /\ "crashed" \in Stopped)
      BY <2>1 DEF Stopped
    <3>2. QED BY <2>1, <3>1
  <2>3. /\ p \notin {"off", "starting"}
        /\ fence'[w] = order[w] \/ p \notin (Awaiting \ {"starting"}) \cup Working
        /\ \A u \in Worker : u # w => fence'[u] = fence[u]
    BY <2>1, <2>2 DEF RankIsToken, Awaiting, Working, Stopped
  <2>4. QED BY <2>1, <2>2, <2>3, LocalRanks
<1>14. CASE LoseReply(w)
  <2>1. Error("unavailable").kind = "error"
    BY DEF Error
  <2>2. /\ reply' = [reply EXCEPT ![w] = Error("unavailable")]
        /\ UNCHANGED <<fencingToken, at, arg, todo, token, floor, order,
                       superseded, pc, fence>>
    BY <1>14 DEF LoseReply, clientVars, stores, locals, history
  <2>3. RankIsToken'
    BY <2>1, <2>2 DEF RankIsToken, Answered, Resolved, TypeOK, FramesOK, Worker
  <2>4. QED BY <2>2, <2>3 DEF TokenStored, Stored, SupersededBelowFloor
<1>15. QED
  BY <1>6, <1>7, <1>8, <1>9, <1>10, <1>11, <1>12, <1>13, <1>14
     DEF ClientStep, ClientFault

-----------------------------------------------------------------------------
(* The invariant, and what follows from it                                 *)

\* Initially every run is off and no token is stored.
LEMMA InitClientInv == SystemInit => ClientInv
<1> SUFFICES ASSUME SystemInit PROVE ClientInv
  OBVIOUS
<1>1. TypeOK /\ FenceInv
  BY InitTypeOK, InitFenceInv DEF SystemInit, Init
<1>2. ClientTypeOK
  BY PositionRange, WorkflowAssumption, FS_CardinalityType
     DEF SystemInit, ClientTypeOK
<1>3. CallAwaited /\ PositionInRange
  BY DEF SystemInit, ServerInit, FramesInit, CallAwaited, PositionInRange,
         Awaiting, Executing, Worker
<1>4. RanksCounted
  <2>1. Ranked = {} /\ Stored = 0
    BY DEF SystemInit, ServerInit, Ranked, Stored
  <2>2. QED BY <2>1, FS_EmptySet DEF SystemInit, RanksCounted
<1>5. RankIsToken
  BY DEF SystemInit, ServerInit, FramesInit, RankIsToken, Answered, Idle,
         Awaiting, Working, LeasePoint, CheckpointPoint, KeyPoint,
         CompletePoint, Worker
<1>6. TokenStored /\ SupersededBelowFloor
  BY DEF SystemInit, ServerInit, FramesInit, TokenStored, SupersededBelowFloor,
         Worker
<1>7. QED BY <1>1, <1>2, <1>3, <1>4, <1>5, <1>6 DEF ClientInv

\* ClientInv is inductive.
LEMMA NextClientInv == ClientInv /\ [SystemNext]_systemVars => ClientInv'
<1> SUFFICES ASSUME ClientInv, [SystemNext]_systemVars PROVE ClientInv'
  OBVIOUS
<1>1. ASSUME NEW w \in Worker, ClientStep(w) \/ ClientFault(w) PROVE ClientInv'
  BY <1>1, ClientServerInv, ClientTypes, ClientRanks DEF ClientInv
<1>2. CASE ServerSide(ServerMoves)
  BY <1>2, ServerClientInv
<1>3. CASE UNCHANGED systemVars
  <2>1. TypeOK' /\ ClientTypeOK'
    BY <1>3, NextTypeOK DEF ClientInv, systemVars, clientVars, ClientTypeOK
  <2>2. FenceInv' /\ TokenStored' /\ SupersededBelowFloor' /\ RanksCounted'
    BY <1>3, StayFenceInv
       DEF ClientInv, systemVars, clientVars, vars, stores, frames, locals,
           bookkeeping, history, TokenStored, SupersededBelowFloor,
           RanksCounted, Ranked, Stored
  <2>3. CallAwaited' /\ PositionInRange' /\ RankIsToken'
    BY <1>3 DEF ClientInv, systemVars, clientVars, vars, stores, frames, locals,
                CallAwaited, PositionInRange, RankIsToken, Answered, Resolved
  <2>4. QED BY <2>1, <2>2, <2>3 DEF ClientInv
<1>4. QED BY <1>1, <1>2, <1>3, SystemSteps

LEMMA ClientInvHolds == SystemSpec => []ClientInv
BY InitClientInv, NextClientInv, PTL DEF SystemSpec

\* The runners and the server keep their types, and whatever a run awaits it
\* is answered with an answer of that RPC or an error: the generated client
\* never finds another message in the place of the one it decodes.
THEOREM SystemTypeCorrect == SystemSpec => []SystemTypeOK
<1>1. ClientInv => SystemTypeOK
  BY DEF ClientInv, CallAwaited, AnswersTo, SystemTypeOK, Awaiting
<1>2. QED BY <1>1, ClientInvHolds, PTL

\* A run that calls after a later run has been given its token is not granted
\* a lease: the fence the token is for, as the runs themselves see it.
THEOREM SupersededRunsNotGranted == SystemSpec => []SupersededNotGranted
<1>1. ClientInv => SupersededNotGranted
  <2> SUFFICES ASSUME ClientInv, NEW w \in Worker, at[w] = "lease_put",
                      superseded[w]
               PROVE  FALSE
    BY DEF SupersededNotGranted
  <2>1. arg[w].fencing_token = order[w] /\ order[w] < floor[w]
    BY DEF ClientInv, RankIsToken, SupersededBelowFloor, LeasePoint, Idle
  <2>2. Fenced /\ AboutToGrant(w)
    BY FenceInvSuffices DEF ClientInv, AboutToGrant
  <2>3. order[w] \in Nat /\ floor[w] \in Nat
    BY DEF ClientInv, ClientTypeOK, TypeOK, BookkeepingOK, Worker
  <2>4. QED BY <2>1, <2>2, <2>3 DEF Fenced, Worker
<1>2. QED BY <1>1, ClientInvHolds, PTL
=============================================================================
