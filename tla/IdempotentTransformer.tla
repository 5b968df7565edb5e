----------------------- MODULE IdempotentTransformer -----------------------
(***************************************************************************)
(* Workers that run one workflow through the TypeScript client against the *)
(* server.  A worker is one run of the workflow function: startWorkflow,   *)
(* then execute for each position in turn, then complete; when execute     *)
(* throws, the run ends and a retry is another worker.  Each worker has at *)
(* most one RPC outstanding, so the server's calls are the workers, and a  *)
(* call answered (at[w] = Idle) is picked up by the client's next step.    *)
(* A task returns a value no other execution returns: its worker.          *)
(*                                                                         *)
(* Source: packages/core/idempotent-transformer/idempotent-transformer.ts  *)
(* and packages/grpc-adapter/src/grpc-adapter.ts.                          *)
(***************************************************************************)
EXTENDS Server

CONSTANTS
  TaskKey,        \* the idempotency key written at each position's execute
  TaskLease,      \* its leaseTimeout option
  OnAbort,        \* whether tasks are given the onAbort option
  MayGenerateKeys, \* whether the workflow may generate a key for a task
  Sequential      \* whether a retry waits for the run before it to end

Worker == Call

ASSUME WorkflowAssumption ==
  /\ IsFiniteSet(Worker) /\ Value = Worker
  /\ IsFiniteSet(Position) /\ Position # {}
  /\ Position = 0 .. Cardinality(Position) - 1
  /\ TaskKey \in [Position -> Key]
  /\ TaskLease \in LeaseTimeout
  /\ OnAbort \in BOOLEAN /\ MayGenerateKeys \in BOOLEAN
  /\ Sequential \in BOOLEAN

VARIABLES
  pc,             \* where the run stands
  fence,          \* fencingToken of the runner
  position,       \* position of the runner
  retried,        \* whether the current execute has used its one retry
  genKey,         \* the key generated for this position, or None
  leaseExpiry,    \* leaseExpiry of the current execute
  returned,       \* what execute returned at each position, or None
  \* History.
  order,          \* rank of the run's fencing token among all, 0 for none
  superseded      \* a later token was out when the run's last call was made

clientVars == <<pc, fence, position, retried, genKey, leaseExpiry, returned,
                order, superseded>>
systemVars == <<vars, clientVars>>

\* Control points at which the run awaits an RPC, and those at which it does
\* its own work.
Awaiting == {"starting", "keying", "leasing", "checkpointing", "releasing",
             "completing"}
Working == {"ready", "running", "saving", "rolling"}
Stopped == {"completed", "failed", "aborted", "crashed"}

Alive(w) == pc[w] \in Awaiting \cup Working

-----------------------------------------------------------------------------
(* RPCs of the gRPC adapter: one request, resolved with the answer or      *)
(* rejected with an error.                                                 *)

Send(w, p, r) ==
  /\ Room(r)
  /\ Accept(w, r)
  /\ pc' = [pc EXCEPT ![w] = p]
  /\ superseded' = [superseded EXCEPT ![w] =
                      \E u \in Worker : order[u] > order[w]]

Answered(w, p) == pc[w] = p /\ at[w] = Idle
Rejected(w) == reply[w].kind = "error"
Resolved(w, kind) == reply[w].kind = kind

\* The run goes on at p with the runner's variables as they are.
Goto(w, p) ==
  /\ pc' = [pc EXCEPT ![w] = p]
  /\ UNCHANGED <<vars, fence, position, retried, genKey, leaseExpiry, returned,
                 order, superseded>>

\* execute returns v.
Return(w, v) ==
  /\ pc' = [pc EXCEPT ![w] = "ready"]
  /\ returned' = [returned EXCEPT ![w][position[w]] = v]
  /\ position' = [position EXCEPT ![w] = @ + 1]
  /\ retried' = [retried EXCEPT ![w] = FALSE]
  /\ genKey' = [genKey EXCEPT ![w] = None]
  /\ leaseExpiry' = [leaseExpiry EXCEPT ![w] = 0]
  /\ UNCHANGED <<vars, fence, order, superseded>>

-----------------------------------------------------------------------------
(* startWorkflow                                                           *)

Start(w) ==
  /\ pc[w] = "off"
  /\ Sequential => \A u \in Worker : ~Alive(u) /\ at[u] = Idle
  /\ Send(w, "starting", [rpc |-> "start"])
  /\ UNCHANGED <<fence, position, retried, genKey, leaseExpiry, returned,
                 order, faults>>

StartAnswered(w) ==
  /\ Answered(w, "starting")
  /\ \/ Rejected(w) /\ Goto(w, "failed")
     \/ /\ Resolved(w, "token")
        /\ pc' = [pc EXCEPT ![w] = "ready"]
        /\ fence' = [fence EXCEPT ![w] = reply[w].fencing_token]
        /\ UNCHANGED <<vars, position, retried, genKey, leaseExpiry, returned,
                       order, superseded>>

-----------------------------------------------------------------------------
(* generateIdempotencyKey, called before an execute whose key it becomes;  *)
(* a retry of the workflow may go either way.  It does not advance the     *)
(* position.                                                               *)

KeyCall(w) ==
  /\ pc[w] = "ready" /\ position[w] \in Position
  /\ MayGenerateKeys /\ genKey[w] = None
  /\ Send(w, "keying", [rpc |-> "key", fencing_token |-> fence[w],
                            position |-> position[w]])
  /\ UNCHANGED <<fence, position, retried, genKey, leaseExpiry, returned,
                 order, faults>>

KeyAnswered(w) ==
  /\ Answered(w, "keying")
  /\ \/ Rejected(w) /\ Goto(w, "failed")
     \/ /\ Resolved(w, "key")
        /\ pc' = [pc EXCEPT ![w] = "ready"]
        /\ genKey' = [genKey EXCEPT ![w] = reply[w].idempotency_key]
        /\ UNCHANGED <<vars, fence, position, retried, leaseExpiry, returned,
                       order, superseded>>

-----------------------------------------------------------------------------
(* execute: the lease                                                      *)

KeyOf(w) == IF genKey[w] # None THEN genKey[w] ELSE TaskKey[position[w]]

LeaseCall(w) ==
  /\ pc[w] = "ready" /\ position[w] \in Position
  /\ Send(w, "leasing",
          [rpc |-> "lease", fencing_token |-> fence[w],
           position |-> position[w], idempotency_key |-> KeyOf(w),
           lease_timeout |-> TaskLease])
  /\ UNCHANGED <<fence, position, retried, genKey, leaseExpiry, returned,
                 order, faults>>

\* A missing token is forgiven once, at the first position.
MayRetry(w) ==
  /\ reply[w].code = "fencing_token_not_found"
  /\ position[w] = 0 /\ ~retried[w]

\* Slip: the numbers in the answer are not looked at, neither how long to wait
\* (which is taken for a refusal) nor when the lease ends.
LeaseAnsweredGivesUp(w) ==
  /\ Answered(w, "leasing")
  /\ \/ Resolved(w, "value") /\ Return(w, reply[w].value)
     \/ Resolved(w, "granted") /\ Goto(w, "running")
     \/ (Resolved(w, "wait") \/ Rejected(w)) /\ Goto(w, "failed")

\* A worker told to wait asks again: how long it sleeps first is left open.
LeaseAnswered(w) ==
  /\ Answered(w, "leasing")
  /\ \/ Resolved(w, "value") /\ Return(w, reply[w].value)
     \/ Resolved(w, "wait") /\ Goto(w, "ready")
     \/ /\ Resolved(w, "granted")
        /\ pc' = [pc EXCEPT ![w] = "running"]
        /\ leaseExpiry' = [leaseExpiry EXCEPT ![w] = now + TaskLease]
        /\ UNCHANGED <<vars, fence, position, retried, genKey, returned, order,
                       superseded>>
     \/ /\ Rejected(w) /\ MayRetry(w)
        /\ pc' = [pc EXCEPT ![w] = "ready"]
        /\ retried' = [retried EXCEPT ![w] = TRUE]
        /\ UNCHANGED <<vars, fence, position, genKey, leaseExpiry, returned,
                       order, superseded>>
     \/ Rejected(w) /\ ~MayRetry(w) /\ Goto(w, "failed")

-----------------------------------------------------------------------------
(* execute: the task and its checkpoint                                    *)

TaskReturns(w) == pc[w] = "running" /\ Goto(w, "saving")

\* The lease is released, and then the task's error thrown (or the release's).
TaskThrows(w) ==
  /\ pc[w] = "running"
  /\ Fault
  /\ Send(w, "releasing", [rpc |-> "release", position |-> position[w]])
  /\ UNCHANGED <<fence, position, retried, genKey, leaseExpiry, returned,
                 order>>

ReleaseAnswered(w) == Answered(w, "releasing") /\ Goto(w, "failed")

\* Every error is swallowed and the call repeated while the lease runs.
SaveCall(w) ==
  /\ pc[w] = "saving" /\ now < leaseExpiry[w]
  /\ Send(w, "checkpointing",
          [rpc |-> "checkpoint", fencing_token |-> fence[w],
           position |-> position[w], idempotency_key |-> KeyOf(w),
           value |-> w])
  /\ UNCHANGED <<fence, position, retried, genKey, leaseExpiry, returned,
                 order, faults>>

\* Slip: an error ends the loop as an answer does.
SaveAnsweredOnce(w) ==
  /\ Answered(w, "checkpointing")
  /\ \/ Rejected(w) /\ Return(w, w)
     \/ Resolved(w, "saved") /\ reply[w].abort /\ Goto(w, "aborted")
     \/ Resolved(w, "saved") /\ ~reply[w].abort /\ Return(w, w)

SaveAnswered(w) ==
  /\ Answered(w, "checkpointing")
  /\ \/ Rejected(w) /\ Goto(w, "saving")
     \/ Resolved(w, "saved") /\ reply[w].abort /\ Goto(w, "aborted")
     \/ Resolved(w, "saved") /\ ~reply[w].abort /\ Return(w, w)

\* Slip: the result is returned whether or not the task can be undone.
SaveExpiresReturn(w) ==
  pc[w] = "saving" /\ now >= leaseExpiry[w] /\ Return(w, w)

\* No attempt succeeded.  Without onAbort the result is returned all the same.
SaveExpires(w) ==
  /\ pc[w] = "saving" /\ now >= leaseExpiry[w]
  /\ \/ OnAbort /\ Goto(w, "rolling")
     \/ ~OnAbort /\ Return(w, w)

\* The onAbort function runs, again if it throws, and execute throws.
RollBack(w) == pc[w] = "rolling" /\ Goto(w, "aborted")

-----------------------------------------------------------------------------
(* complete                                                                *)

CompleteCall(w) ==
  /\ pc[w] = "ready" /\ position[w] \notin Position
  /\ \E t \in Retention :
       Send(w, "completing", [rpc |-> "complete", fencing_token |-> fence[w],
                                  expire_after |-> t])
  /\ UNCHANGED <<fence, position, retried, genKey, leaseExpiry, returned,
                 order, faults>>

CompleteAnswered(w) ==
  /\ Answered(w, "completing")
  /\ \/ Rejected(w) /\ Goto(w, "failed")
     \/ Resolved(w, "completed") /\ Goto(w, "completed")

-----------------------------------------------------------------------------
(* What may go wrong on the worker's side                                  *)

FaultyGoto(w, p) ==
  /\ Fault
  /\ pc' = [pc EXCEPT ![w] = p]
  /\ UNCHANGED <<stores, frames, sweep, drawn, history, fence, position,
                 retried, genKey, leaseExpiry, returned, order, superseded>>

\* The result cannot be serialized, or the task throws before it returns a
\* promise: neither is caught, and the lease is not released.
SerializeThrows(w) == pc[w] = "running" /\ FaultyGoto(w, "failed")

\* The result that was found cannot be deserialized.
DeserializeThrows(w) ==
  Answered(w, "leasing") /\ Resolved(w, "value") /\ FaultyGoto(w, "failed")

\* The worker's process dies; a call of its may still be under way.
Crash(w) == Alive(w) /\ FaultyGoto(w, "crashed")

\* The call was handled, but the connection breaks before the answer is in.
LoseReply(w) ==
  /\ pc[w] \in Awaiting /\ at[w] = Idle /\ ~Rejected(w)
  /\ Fault
  /\ reply' = [reply EXCEPT ![w] = Error("unavailable")]
  /\ UNCHANGED <<stores, at, arg, locals, sweep, drawn, history, clientVars>>

-----------------------------------------------------------------------------
ClientStep(w) ==
  \/ Start(w) \/ StartAnswered(w)
  \/ KeyCall(w) \/ KeyAnswered(w)
  \/ LeaseCall(w) \/ LeaseAnswered(w)
  \/ TaskReturns(w) \/ ReleaseAnswered(w)
  \/ SaveCall(w) \/ SaveAnswered(w) \/ SaveExpires(w) \/ RollBack(w)
  \/ CompleteCall(w) \/ CompleteAnswered(w)

ClientFault(w) ==
  \/ TaskThrows(w) \/ SerializeThrows(w) \/ DeserializeThrows(w)
  \/ Crash(w) \/ LoseReply(w)

\* The server's steps leave the clients alone; a run ranks by its token.
Incremented(w) == at[w] = "start" /\ token[w] = None /\ token'[w] # None

ServerSide(step) ==
  /\ step
  /\ order' = [w \in Worker |->
                 IF Incremented(w)
                 THEN Cardinality({u \in Worker : order[u] > 0}) + 1
                 ELSE order[w]]
  /\ UNCHANGED <<pc, fence, position, retried, genKey, leaseExpiry, returned,
                 superseded>>

HandlerStep(w) ==
  ServerSide(CheckpointServiceStep(w) \/ WorkflowServiceStep(w))

\* Something is still to happen at a later time: a lease, an entry or a result's
\* deadline ends.  Otherwise the time makes no difference.
TimeMatters ==
  \/ \E p \in Position :
       /\ leases[p] # None
       /\ RemainingLease(leases[p], now) > 0 \/ ~Evictable(leases[p], now)
  \/ \E w \in Worker : Held(w) \/ now < leaseExpiry[w]

TimePasses == TimeMatters /\ ServerSide(Tick)

SystemInit ==
  /\ ServerInit
  /\ pc = [w \in Worker |-> "off"]
  /\ fence = [w \in Worker |-> 0]
  /\ position = [w \in Worker |-> 0]
  /\ retried = [w \in Worker |-> FALSE]
  /\ genKey = [w \in Worker |-> None]
  /\ leaseExpiry = [w \in Worker |-> 0]
  /\ returned = [w \in Worker |-> [p \in Position |-> None]]
  /\ order = [w \in Worker |-> 0]
  /\ superseded = [w \in Worker |-> FALSE]

SystemNext ==
  \/ \E w \in Worker : ClientStep(w) \/ ClientFault(w) \/ HandlerStep(w)
  \/ \E w \in Worker : ServerSide(Abandon(w))
  \/ \E p \in Position : ServerSide(LeaseEvict(p))
  \/ ServerSide(Restart)
  \/ TimePasses

SystemSpec == SystemInit /\ [][SystemNext]_systemVars

\* Every ready future and promise is polled, and time goes on.  Faults
\* and the eviction of an expired entry may never happen.
Fairness ==
  /\ \A w \in Worker :
       WF_systemVars(ClientStep(w)) /\ WF_systemVars(HandlerStep(w))
  /\ WF_systemVars(TimePasses)

FairSystemSpec == SystemSpec /\ Fairness
-----------------------------------------------------------------------------
(* Types                                                                   *)

ClientTypeOK ==
  /\ pc \in [Worker -> {"off"} \cup Awaiting \cup Working \cup Stopped]
  /\ fence \in [Worker -> Nat]
  /\ position \in [Worker -> 0 .. Cardinality(Position)]
  /\ retried \in [Worker -> BOOLEAN]
  /\ genKey \in [Worker -> Key \cup {None}]
  /\ leaseExpiry \in [Worker -> Nat]
  /\ returned \in [Worker -> [Position -> Value \cup {None}]]
  /\ order \in [Worker -> 0 .. Cardinality(Worker)]
  /\ superseded \in [Worker -> BOOLEAN]

\* The server's state and the runners' have their types, and a run that awaits
\* an RPC and finds it answered finds an answer that RPC can give.
SystemTypeOK ==
  /\ TypeOK
  /\ ClientTypeOK
  /\ \A w \in Worker : pc[w] \in Awaiting /\ at[w] = Idle =>
       reply[w].kind \in {"error"} \cup
         CASE pc[w] = "starting" -> {"token"}
           [] pc[w] = "keying" -> {"key"}
           [] pc[w] = "leasing" -> {"value", "wait", "granted"}
           [] pc[w] = "checkpointing" -> {"saved"}
           [] pc[w] = "releasing" -> {"released"}
           [] pc[w] = "completing" -> {"completed"}

-----------------------------------------------------------------------------
(* Safety                                                                  *)

\* Whatever execute has returned to the workflow function is in the
\* checkpoint table, so that a retry is answered with it.
ReturnedIsStored ==
  \A w \in Worker, p \in Position :
    returned[w][p] # None => StoredResult[p] # None

\* Two runs that got a result of the same position got the same one.
SameResults ==
  \A u, w \in Worker, p \in Position :
    returned[u][p] # None /\ returned[w][p] # None =>
      returned[u][p] = returned[w][p]

\* A task whose result is stored is not started again, by any run.
CompletedNotReexecuted ==
  [][\A w \in Worker :
       pc[w] # "running" /\ pc'[w] = "running" =>
         StoredResult[position[w]] = None]_systemVars

\* A lease is not taken from a position while an earlier lease still runs.
LeaseNotStolen ==
  [][\A w \in Worker :
       at[w] = "lease_put" /\ reply'[w] # None /\ reply'[w].kind = "granted" =>
         LET held == leases[arg[w].position]
         IN  held = None \/ RemainingLease(held, now) <= 0]_systemVars

\* A run that made its call after a later run had its token is not granted a
\* lease.
SupersededNotGranted ==
  \A w \in Worker : at[w] = "lease_put" => ~superseded[w]

\* A run is told to abort only when another run really has a later token.
AbortIsDue ==
  \A w \in Worker :
    Answered(w, "checkpointing") /\ Resolved(w, "saved") /\ reply[w].abort =>
      \E u \in Worker : order[u] > order[w]

\* A key the server generated for a position can be executed with there.
GeneratedKeyUsable ==
  \A w \in Worker :
    Answered(w, "leasing") /\ Rejected(w) =>
      reply[w].code # "checkpoint_value_not_found"

\* A run that was superseded before it asked to complete the workflow, under a
\* later run that is still under way, does not complete it.
CompletedByNewest ==
  [][\A w \in Worker :
       at[w] = "complete_update" /\ workflow' # workflow =>
         ~superseded[w]]_systemVars

=============================================================================
