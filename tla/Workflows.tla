----------------------------- MODULE Workflows -----------------------------
(***************************************************************************)
(* The programs of module Programs, run by the TypeScript client against   *)
(* the server.  A program may use several workflow ids, one inside a task  *)
(* of another, and may execute two tasks together: the activities of a run *)
(* are its workflow functions and its tasks, and each has at most one RPC  *)
(* outstanding.  The server handles an RPC in one step, as module Rpc says *)
(* it does when nothing interferes, or it comes to a halt in the middle of *)
(* one, and other calls go between; the cleanup job takes three steps.     *)
(*                                                                         *)
(* Source: packages/core/idempotent-transformer/idempotent-transformer.ts, *)
(* and, by way of Rpc, the handlers of server/src.                         *)
(***************************************************************************)
EXTENDS Rpc, Programs, FiniteSets

CONSTANTS
  Explored,       \* programs that may be run
  Runs,           \* number of times a program is run, at most
  Uuid,           \* keys the server may draw
  Retention,      \* completedRetentionTime
  MaxNow,         \* bound on the clock
  MaxFaults       \* bound on faults, of each program

\* Each task of a program is executed at one place of it, and there are enough
\* positions for them; one that runs a workflow throws only if that one fails.
WellFormed(p) ==
  LET flows == DOMAIN p.steps
      tasks(w) == UNION {p.steps[w][i] : i \in DOMAIN p.steps[w]}
  IN  /\ "outer" \in flows
      /\ \A t \in DOMAIN p.inner : p.inner[t] \in flows
      /\ DOMAIN p.inner \cap p.throws = {}
      /\ \A w \in flows :
           /\ p.steps[w] \in Seq(SUBSET (Key \cap Value))
           /\ tasks(w) \cap flows = {}
           /\ IsFiniteSet(tasks(w))
           /\ Cardinality(tasks(w)) <= Cardinality(Position)
      /\ \A v, w \in flows : v # w => tasks(v) \cap tasks(w) = {}
      /\ \A w \in flows : \A i, j \in DOMAIN p.steps[w] :
           i # j => p.steps[w][i] \cap p.steps[w][j] = {}

ASSUME ProgramAssumption == \A p \in Explored : WellFormed(p)
ASSUME PositionsAssumption ==
  /\ IsFiniteSet(Position)
  /\ Position = 0 .. Cardinality(Position) - 1
ASSUME WorkflowsAssumption ==
  /\ {Runs, Retention, DefaultLease, ShortLease} \subseteq Nat
  /\ Uuid \subseteq Key
  /\ None \notin WorkflowRow /\ None \notin CheckpointRow
  /\ None \notin LeaseEntry

\* None is not the answer that a result is saved, nor a call so answered.
Saved == [kind : {"saved"}, abort : BOOLEAN]
TaskRequest ==
  [rpc : {"key", "lease", "checkpoint", "release"}, fencing_token : Nat,
   position : Position, idempotency_key : Key, lease_timeout : Nat,
   value : Value]
ASSUME NoneIsNoAnswer ==
  None \notin Saved /\ None \notin [request : TaskRequest, answer : Saved]

VARIABLES
  program,        \* the program that is run
  stores,         \* what the server stores about each workflow
  job,            \* the cleanup job under way, or None
  flow,           \* the runner of each run and workflow, and where it stands
  exec,           \* where each run and task stands
  call,           \* the RPC each activity of a run awaits, or None
  stage,          \* what the handler of that RPC has still to do
  now, faults,
  \* History.
  kept,           \* tasks whose result was accepted and may not be purged
  finished,       \* how often each task has returned
  due,            \* when the retention of each completed workflow is over
  held,           \* when the lease each execute works under is over
  disturbed,      \* a fault, a lease nearly over, or a purge has happened
  crossed         \* a handler has been left in the middle

history == <<kept, finished, due, held, disturbed>>
pieces == <<stage, crossed>>
vars == <<program, stores, job, flow, exec, call, now, faults, history, pieces>>

Run == 1 .. Runs
Flow == DOMAIN program.steps
TasksOf(w) == UNION {program.steps[w][i] : i \in DOMAIN program.steps[w]}
Task == UNION {TasksOf(w) : w \in Flow}
Activity == Flow \cup Task
FlowOf(a) == CHOOSE w \in Flow : a = w \/ a \in TasksOf(w)

\* A task that runs a workflow of its own, and where that one stands.
HasInner(t) == t \in DOMAIN program.inner
InnerIs(r, t, p) == flow[r][program.inner[t]].pc = p

Over == {"completed", "failed", "crashed"}
Ended(r) == flow[r]["outer"].pc \in Over

\* The task is under way, or its result is not saved yet.
Working == {"running", "saving", "checkpointing"}

Fault == faults < MaxFaults[program] /\ faults' = faults + 1 /\ disturbed' = TRUE
NoFault == UNCHANGED <<faults, disturbed>>

-----------------------------------------------------------------------------
(* RPCs                                                                    *)

Send(r, a, request) ==
  call' = [call EXCEPT ![r][a] = [request |-> request, answer |-> None]]

Answered(r, a) == call[r][a] # None /\ call[r][a].answer # None
Answer(r, a) == call[r][a].answer
Received(r, a) == call' = [call EXCEPT ![r][a] = None]

Becomes(r, t, p) == exec' = [exec EXCEPT ![r][t].pc = p]
FlowBecomes(r, w, p) == flow' = [flow EXCEPT ![r][w].pc = p]

ServerUnchanged == UNCHANGED <<program, stores, job, now, pieces>>

-----------------------------------------------------------------------------
(* Workflow functions                                                      *)

\* startWorkflow, in a run of the program or in the task t of an outer one.
OpenFlow(r, w) ==
  /\ flow[r][w].pc = "off"
  /\ FlowBecomes(r, w, "starting")
  /\ Send(r, w, [rpc |-> "start"])
  /\ UNCHANGED exec /\ ServerUnchanged /\ NoFault
  /\ UNCHANGED <<kept, finished, due, held>>

Begin(r) ==
  /\ \/ r = 1
     \/ program.runs = "overlap"
     \/ program.runs = "retry" /\ r > 1 /\ Ended(r - 1)
  /\ OpenFlow(r, "outer")

BeginInner(r, t) ==
  /\ exec[r][t].pc = "running" /\ HasInner(t)
  /\ OpenFlow(r, program.inner[t])

\* The tasks of the step i are executed together.
Enter(r, w, i) ==
  /\ flow' = [flow EXCEPT ![r][w].step = i]
  /\ exec' = [exec EXCEPT ![r] =
                [t \in Task |-> IF t \in program.steps[w][i]
                                THEN [@[t] EXCEPT !.pc = "ready"] ELSE @[t]]]

Going(f, token) == [f EXCEPT !.pc = "going", !.fencing_token = token]

FlowStarted(r, w) ==
  /\ flow[r][w].pc = "starting" /\ Answered(r, w)
  /\ LET failed == Answer(r, w).kind = "error"
     IN  flow' = [flow EXCEPT ![r][w] =
                    IF failed THEN [@ EXCEPT !.pc = "failed"]
                    ELSE Going(@, Answer(r, w).fencing_token)]
  /\ Received(r, w)
  /\ UNCHANGED <<exec, history, faults>> /\ ServerUnchanged

\* The tasks of the step the flow is in, none before the first.
Current(r, w) ==
  IF flow[r][w].step = 0 THEN {} ELSE program.steps[w][flow[r][w].step]

StepDone(r, w) == \A t \in Current(r, w) : exec[r][t].pc = "returned"

NextStep(r, w) ==
  /\ flow[r][w].pc = "going" /\ StepDone(r, w)
  /\ flow[r][w].step < Len(program.steps[w])
  /\ Enter(r, w, flow[r][w].step + 1)
  /\ UNCHANGED <<call, history, faults>> /\ ServerUnchanged

CallComplete(r, w, p) ==
  /\ FlowBecomes(r, w, p)
  /\ Send(r, w, [rpc |-> "complete", expire_after |-> Retention,
                 fencing_token |-> flow[r][w].fencing_token])

\* The last step is done, or an execute of the step threw.
FlowEnds(r, w) ==
  /\ flow[r][w].pc = "going"
  /\ \/ /\ StepDone(r, w) /\ flow[r][w].step = Len(program.steps[w])
        /\ IF program.ending = "never"
           THEN FlowBecomes(r, w, "completed") /\ UNCHANGED call
           ELSE CallComplete(r, w, "completing")
     \/ /\ \E t \in Current(r, w) : exec[r][t].pc = "threw"
        /\ IF program.ending = "always"
           THEN CallComplete(r, w, "recovering")
           ELSE FlowBecomes(r, w, "failed") /\ UNCHANGED call
  /\ UNCHANGED <<exec, history, faults>> /\ ServerUnchanged

\* Whoever completes after an error does so too if the error is complete's.
FlowCompleted(r, w) ==
  /\ flow[r][w].pc \in {"completing", "recovering"} /\ Answered(r, w)
  /\ IF Answer(r, w).kind # "error"
     THEN FlowBecomes(r, w, "completed") /\ Received(r, w)
     ELSE IF program.ending = "always" /\ flow[r][w].pc = "completing"
     THEN CallComplete(r, w, "recovering")
     ELSE FlowBecomes(r, w, "failed") /\ Received(r, w)
  /\ UNCHANGED <<exec, history, faults>> /\ ServerUnchanged

-----------------------------------------------------------------------------
(* execute                                                                 *)

RunnerOf(r, t) == flow[r][FlowOf(t)]

\* The request of an execute: token and position are the runner's at the time
\* of the call, whatever they were at an earlier call of the same execute.
TaskCall(r, t, rpc) ==
  [rpc |-> rpc, fencing_token |-> RunnerOf(r, t).fencing_token,
   position |-> RunnerOf(r, t).position, idempotency_key |-> exec[r][t].key,
   lease_timeout |-> Leases(program, t), value |-> t]

Calls(r, t, p, rpc) ==
  /\ Becomes(r, t, p)
  /\ Send(r, t, TaskCall(r, t, rpc))
  /\ UNCHANGED <<flow, kept, finished, due, held>> /\ ServerUnchanged

\* What becomes of an execute by the answer it gets.
Returned(e) == [e EXCEPT !.pc = "returned", !.expiry = 0]
Keyed(e, key) == [e EXCEPT !.pc = "ready", !.key = key]
Leased(e, expiry) == [e EXCEPT !.pc = "running", !.expiry = expiry]
Retried(e) == [e EXCEPT !.pc = "ready", !.retried = TRUE]

\* execute returns, and advances the position of the runner.
Return(r, t) ==
  /\ exec' = [exec EXCEPT ![r][t] = Returned(@)]
  /\ flow' = [flow EXCEPT ![r][FlowOf(t)].position = @ + 1]
  /\ held' = [held EXCEPT ![r][t] = 0]

\* execute throws.
Throw(r, t) ==
  /\ Becomes(r, t, "threw")
  /\ held' = [held EXCEPT ![r][t] = 0]
  /\ UNCHANGED flow

GenerateKey(r, t) ==
  /\ exec[r][t].pc = "ready" /\ t \in program.generated /\ exec[r][t].key = t
  /\ Calls(r, t, "keying", "key")
  /\ NoFault

KeyAnswered(r, t) ==
  /\ exec[r][t].pc = "keying" /\ Answered(r, t)
  /\ exec' = IF Answer(r, t).kind = "error"
             THEN [exec EXCEPT ![r][t].pc = "threw"]
             ELSE [exec EXCEPT ![r][t] =
                     Keyed(@, Answer(r, t).idempotency_key)]
  /\ Received(r, t)
  /\ UNCHANGED <<flow, history, faults>> /\ ServerUnchanged

LeaseCall(r, t) ==
  /\ exec[r][t].pc = "ready"
  /\ t \in program.generated => exec[r][t].key # t
  /\ Calls(r, t, "leasing", "lease")
  /\ NoFault

\* A missing token is forgiven once, at the first position.
MayRetry(r, t) ==
  /\ Answer(r, t).code = "fencing_token_not_found"
  /\ RunnerOf(r, t).position = 0 /\ ~exec[r][t].retried

\* Slip: the answer is not a value, so the lease is taken to be granted.
LeaseAnsweredNoWait(r, t) ==
  /\ exec[r][t].pc = "leasing" /\ Answered(r, t)
  /\ \/ Answer(r, t).kind = "value" /\ Return(r, t)
     \/ /\ Answer(r, t).kind \in {"wait", "granted"}
        /\ exec' = [exec EXCEPT ![r][t] = Leased(@, now + Leases(program, t))]
        /\ UNCHANGED <<flow, held>>
     \/ Answer(r, t).kind = "error" /\ Throw(r, t)
  /\ Received(r, t)
  /\ UNCHANGED <<kept, finished, due, disturbed, faults>> /\ ServerUnchanged

LeaseAnswered(r, t) ==
  /\ exec[r][t].pc = "leasing" /\ Answered(r, t)
  /\ \/ Answer(r, t).kind = "value" /\ Return(r, t)
     \/ /\ Answer(r, t).kind = "wait"
        /\ Becomes(r, t, "ready") /\ UNCHANGED <<flow, held>>
     \/ /\ Answer(r, t).kind = "granted"
        /\ exec' = [exec EXCEPT ![r][t] = Leased(@, now + Leases(program, t))]
        /\ UNCHANGED <<flow, held>>
     \/ /\ Answer(r, t).kind = "error" /\ MayRetry(r, t)
        /\ exec' = [exec EXCEPT ![r][t] = Retried(@)]
        /\ UNCHANGED <<flow, held>>
     \/ Answer(r, t).kind = "error" /\ ~MayRetry(r, t) /\ Throw(r, t)
  /\ Received(r, t)
  /\ UNCHANGED <<kept, finished, due, disturbed, faults>> /\ ServerUnchanged

\* The result that was found cannot be deserialized.
DeserializeThrows(r, t) ==
  /\ exec[r][t].pc = "leasing" /\ Answered(r, t)
  /\ Answer(r, t).kind = "value"
  /\ Fault
  /\ Throw(r, t)
  /\ Received(r, t)
  /\ UNCHANGED <<kept, finished, due>> /\ ServerUnchanged

TaskReturns(r, t) ==
  /\ exec[r][t].pc = "running"
  /\ HasInner(t) => InnerIs(r, t, "completed")
  /\ ~(r = 1 /\ t \in program.throws)
  /\ Becomes(r, t, "saving")
  /\ finished' = [finished EXCEPT ![t] = @ + 1]
  /\ UNCHANGED <<flow, call, kept, due, held, disturbed, faults>>
  /\ ServerUnchanged

\* The result cannot be serialized, or the task throws before it returns a
\* promise: execute throws, and the lease is not released.
TaskThrowsUncaught(r, t) ==
  /\ exec[r][t].pc = "running"
  /\ Fault
  /\ \/ /\ HasInner(t) => InnerIs(r, t, "completed")
        /\ ~(r = 1 /\ t \in program.throws)
        /\ finished' = [finished EXCEPT ![t] = @ + 1]
     \/ /\ HasInner(t) => InnerIs(r, t, "off")
        /\ UNCHANGED finished
  /\ Throw(r, t)
  /\ UNCHANGED <<call, kept, due>>
  /\ ServerUnchanged

\* As the program says, because its own workflow failed, or of itself.
TaskThrows(r, t) ==
  /\ exec[r][t].pc = "running"
  /\ \/ r = 1 /\ t \in program.throws /\ NoFault
     \/ HasInner(t) /\ InnerIs(r, t, "failed") /\ NoFault
     \/ ~HasInner(t) /\ Fault
  /\ Calls(r, t, "releasing", "release")

Released(r, t) ==
  /\ exec[r][t].pc = "releasing" /\ Answered(r, t)
  /\ Throw(r, t)
  /\ Received(r, t)
  /\ UNCHANGED <<kept, finished, due, disturbed, faults>> /\ ServerUnchanged

SaveCall(r, t) ==
  /\ exec[r][t].pc = "saving" /\ now < exec[r][t].expiry
  /\ Calls(r, t, "checkpointing", "checkpoint")
  /\ NoFault

SaveAnswered(r, t) ==
  /\ exec[r][t].pc = "checkpointing" /\ Answered(r, t)
  /\ IF Answer(r, t).kind = "error"
     THEN Becomes(r, t, "saving") /\ UNCHANGED <<flow, held>>
     ELSE IF Answer(r, t).abort THEN Throw(r, t) ELSE Return(r, t)
  /\ Received(r, t)
  /\ UNCHANGED <<kept, finished, due, disturbed, faults>> /\ ServerUnchanged

\* No attempt succeeded; none of the programs gives onAbort.
SaveExpires(r, t) ==
  /\ exec[r][t].pc = "saving" /\ now >= exec[r][t].expiry
  /\ Return(r, t)
  /\ UNCHANGED <<call, kept, finished, due, disturbed, faults>>
  /\ ServerUnchanged

-----------------------------------------------------------------------------
(* The server                                                              *)

Pending(r, a) == call[r][a] # None /\ call[r][a].answer = None

Alive(r, a) ==
  IF a \in Flow THEN flow[r][a].pc # "crashed" ELSE exec[r][a].pc # "crashed"

\* The call of a worker that has crashed is handled all the same.
Tell(r, a, reply) ==
  /\ call' = [call EXCEPT ![r][a] =
                IF Alive(r, a) THEN [request |-> @.request, answer |-> reply]
                ELSE None]
  /\ stage' = [stage EXCEPT ![r][a] = "all"]

Unavailable == [kind |-> "error", code |-> "unavailable"]

\* What the handler may do to the stores, and what it would answer; in the
\* middle of a call, what is left to do by what it has found.  A lease bears
\* the time at which it is put.
AnyOutcome(r, a) ==
  LET db == stores[FlowOf(a)]
      request == call[r][a].request
  IN  CASE stage[r][a] = "all" -> Outcomes(db, request, now, Uuid)
        [] stage[r][a] = "rowless" -> LeaseRpcDenies(db, request, now)
        [] stage[r][a] = "granting" -> {Granting(db, request, now)}
        [] stage[r][a] = "saving" -> {Saving(db, request, FALSE)}
        [] stage[r][a] = "aborting" -> {Saving(db, request, TRUE)}

Effect(r, a, o) ==
  LET w == FlowOf(a)
      request == call[r][a].request
  IN  /\ o \in AnyOutcome(r, a)
      /\ stores' = [stores EXCEPT ![w] = o.stores]
      /\ due' = IF o.reply.kind = "completed"
                THEN [due EXCEPT ![w] = now + request.expire_after] ELSE due
      /\ held' = IF o.reply.kind = "granted" /\ Alive(r, a)
                 THEN [held EXCEPT ![r][a] = now + request.lease_timeout]
                 ELSE held
      /\ kept' = IF o.reply.kind = "saved" THEN kept \cup {a} ELSE kept
      /\ UNCHANGED <<program, job, flow, exec, now, finished, crossed>>

\* The row of the workflow was not inserted although it is missing.
RowLost(o) == o.reply.kind = "token" /\ o.stores.workflow = None

Handle(r, a) ==
  /\ Pending(r, a)
  /\ \E o \in AnyOutcome(r, a) :
       /\ IF RowLost(o) THEN Fault ELSE NoFault
       /\ Effect(r, a, o)
       /\ Tell(r, a, o.reply)

\* The connection breaks, before the call is handled or after.
Break(r, a) ==
  /\ Pending(r, a) /\ Alive(r, a)
  /\ Fault
  /\ \/ \E o \in AnyOutcome(r, a) : ~RowLost(o) /\ Effect(r, a, o)
     \/ UNCHANGED <<program, stores, job, flow, exec, now, kept, finished, due,
                    held, crossed>>
  /\ Tell(r, a, Unavailable)

\* The handler comes to a halt; the calls of others may be handled before it
\* goes on from there.  Those of leases and results do, whose later writes
\* rest on what they have read; the others, and the reads under one join!,
\* are kept in one step here and taken apart in module Server.
Halts(r, t, from, to) ==
  /\ Pending(r, t) /\ stage[r][t] = from
  /\ stage' = [stage EXCEPT ![r][t] = to]
  /\ crossed' = TRUE
  /\ UNCHANGED <<program, job, flow, exec, call, now, faults, history>>

\* handle_lease_checkpoint has found no row ..
LeaseFindsNoRow(r, t) ==
  /\ Halts(r, t, "all", "rowless")
  /\ call[r][t].request.rpc = "lease"
  /\ stores[FlowOf(t)].checkpoints[call[r][t].request.position] = None
  /\ UNCHANGED stores

\* .. and then no lease but its own token, and is to put the lease.
LeaseMayBePut(r, t) ==
  /\ Halts(r, t, "rowless", "granting")
  /\ \E o \in LeaseRpcWithoutRow(stores[FlowOf(t)], call[r][t].request, now) :
       o.reply.kind = "granted"
  /\ UNCHANGED stores

\* handle_checkpoint has removed the lease, and is to save the result.
SaveFreesLease(r, t) ==
  LET w == FlowOf(t)
      request == call[r][t].request
  IN  /\ Pending(r, t) /\ request.rpc = "checkpoint"
      /\ \E o \in CheckpointRpc(stores[w], request, now) :
           /\ o.reply.kind = "saved"
           /\ Halts(r, t, "all", IF o.reply.abort THEN "aborting" ELSE "saving")
      /\ stores' = [stores EXCEPT ![w] = Freed(@, request.position)]

HandlerHalts(r, t) ==
  LeaseFindsNoRow(r, t) \/ LeaseMayBePut(r, t) \/ SaveFreesLease(r, t)

Crash(r) ==
  /\ \E w \in Flow : flow[r][w].pc \notin {"off"} \cup Over
  /\ Fault
  /\ flow' = [flow EXCEPT ![r] =
                [w \in Flow |-> [@[w] EXCEPT !.pc = "crashed"]]]
  /\ exec' = [exec EXCEPT ![r] =
                [t \in Task |-> [@[t] EXCEPT !.pc = "crashed"]]]
  /\ call' = [call EXCEPT ![r] =
                [a \in Activity |-> IF Pending(r, a) THEN @[a] ELSE None]]
  /\ UNCHANGED <<kept, finished, due, held>> /\ ServerUnchanged

\* The tables are on disk; leases, handlers and the job are gone.
Restart ==
  /\ Fault
  /\ stores' = [w \in Flow |->
                  [stores[w] EXCEPT !.leases = NewStores.leases]]
  /\ job' = None
  /\ call' = [r \in Run |-> [a \in Activity |->
                IF ~Pending(r, a) THEN call[r][a]
                ELSE IF ~Alive(r, a) THEN None
                ELSE [request |-> call[r][a].request,
                      answer |-> Unavailable]]]
  /\ stage' = [r \in Run |-> [a \in Activity |-> "all"]]
  /\ held' = [r \in Run |-> [t \in Task |-> 0]]
  /\ UNCHANGED <<program, flow, exec, now, kept, finished, due, crossed>>

Evict(w, p) ==
  /\ stores[w].leases[p] # None /\ Evictable(stores[w].leases[p], now)
  /\ stores' = [stores EXCEPT ![w].leases[p] = None]
  /\ UNCHANGED <<program, job, flow, exec, call, now, faults, history, pieces>>

-----------------------------------------------------------------------------
(* The cleanup job: one statement over all workflows at a time.            *)

Due(w, timestamp) == Expired(stores[w].workflow, timestamp)

CleanupStart ==
  /\ job = None
  /\ \E w \in Flow : Due(w, now)
  /\ job' = [timestamp |-> now, todo |-> {"tokens", "checkpoints"}]
  /\ UNCHANGED <<program, stores, flow, exec, call, now, faults, history,
                 pieces>>

Without(db, table) ==
  IF table = "tokens" THEN [db EXCEPT !.fencingToken = None]
  ELSE [db EXCEPT !.checkpoints = NewStores.checkpoints]

\* After a delete a result may be gone, if its time is really over.
MayBeGone(t) ==
  LET w == FlowOf(t)
  IN  Due(w, job.timestamp) /\ due[w] # None /\ due[w] < job.timestamp

\* Slip: the rows are not restricted to those of expired workflows.
DeleteEverywhere(table) ==
  stores' = [w \in Flow |-> Without(stores[w], table)]

Delete(table) ==
  stores' = [w \in Flow |-> IF Due(w, job.timestamp)
                            THEN Without(stores[w], table) ELSE stores[w]]

CleanupRows(table) ==
  /\ job # None /\ table \in job.todo
  /\ job' = [job EXCEPT !.todo = @ \ {table}]
  /\ Delete(table)
  /\ kept' = IF table = "checkpoints" THEN {t \in kept : ~MayBeGone(t)}
             ELSE kept
  /\ disturbed' = TRUE
  /\ UNCHANGED <<program, flow, exec, call, now, faults, finished, due, held,
                 pieces>>

CleanupWorkflows ==
  /\ job # None /\ job.todo = {}
  /\ job' = None
  /\ stores' = [w \in Flow |-> IF Due(w, job.timestamp)
                               THEN [stores[w] EXCEPT !.workflow = None]
                               ELSE stores[w]]
  /\ due' = [w \in Flow |-> IF Due(w, job.timestamp) THEN None ELSE due[w]]
  /\ UNCHANGED <<program, flow, exec, call, now, faults, kept, finished, held,
                 disturbed, pieces>>

CleanupFails ==
  /\ job # None
  /\ Fault
  /\ job' = None
  /\ UNCHANGED <<program, stores, flow, exec, call, now, kept, finished, due,
                 held, pieces>>

-----------------------------------------------------------------------------
\* A lease, an entry, a result's deadline or a retention is still to end.
TimeMatters ==
  \/ \E w \in Flow, p \in Position :
       LET entry == stores[w].leases[p]
       IN  entry # None /\ (RemainingLease(entry, now) > 0 \/ ~Evictable(entry, now))
  \/ \E r \in Run, t \in Task :
       exec[r][t].pc \in Working /\ now < exec[r][t].expiry
  \/ \E w \in Flow : LET row == stores[w].workflow
                     IN  row # None /\ row.expire_at # None /\ row.expire_at >= now

\* The execute has a lease and its task is not yet done or its result saved.
Holds(r, t) ==
  \/ exec[r][t].pc \in Working
  \/ /\ exec[r][t].pc = "leasing" /\ Answered(r, t)
     /\ Answer(r, t).kind = "granted"

\* Somebody is still at work on a task when a second of its lease is left.
Tick ==
  /\ now < MaxNow /\ TimeMatters
  /\ now' = now + 1
  /\ disturbed' = (disturbed \/ \E r \in Run, t \in Task :
                      Holds(r, t) /\ held[r][t] - now' < Second)
  /\ UNCHANGED <<program, stores, job, flow, exec, call, faults, kept, finished,
                 due, held, pieces>>

Init ==
  /\ program \in Explored
  /\ stores = [w \in Flow |-> NewStores]
  /\ job = None
  /\ flow = [r \in Run |-> [w \in Flow |->
               [pc |-> "off", step |-> 0, fencing_token |-> 0, position |-> 0]]]
  /\ exec = [r \in Run |-> [t \in Task |->
               [pc |-> "off", expiry |-> 0, retried |-> FALSE, key |-> t]]]
  /\ call = [r \in Run |-> [a \in Activity |-> None]]
  /\ stage = [r \in Run |-> [a \in Activity |-> "all"]]
  /\ crossed = FALSE
  /\ now = 0 /\ faults = 0
  /\ kept = {} /\ disturbed = FALSE
  /\ finished = [t \in Task |-> 0]
  /\ due = [w \in Flow |-> None]
  /\ held = [r \in Run |-> [t \in Task |-> 0]]

FlowStep(r, w) ==
  \/ FlowStarted(r, w) \/ NextStep(r, w) \/ FlowEnds(r, w)
  \/ FlowCompleted(r, w)

TaskStep(r, t) ==
  \/ BeginInner(r, t)
  \/ GenerateKey(r, t) \/ KeyAnswered(r, t)
  \/ LeaseCall(r, t) \/ LeaseAnswered(r, t) \/ DeserializeThrows(r, t)
  \/ TaskReturns(r, t) \/ TaskThrows(r, t) \/ TaskThrowsUncaught(r, t)
  \/ Released(r, t)
  \/ SaveCall(r, t) \/ SaveAnswered(r, t) \/ SaveExpires(r, t)

Next ==
  \/ \E r \in Run : Begin(r) \/ Crash(r)
  \/ \E r \in Run, w \in Flow : FlowStep(r, w)
  \/ \E r \in Run, t \in Task : TaskStep(r, t)
  \/ \E r \in Run, a \in Activity : Handle(r, a) \/ Break(r, a)
  \/ \E r \in Run, t \in Task : HandlerHalts(r, t)
  \/ \E w \in Flow, p \in Position : Evict(w, p)
  \/ Restart \/ Tick
  \/ CleanupStart \/ CleanupWorkflows \/ CleanupFails
  \/ \E table \in {"tokens", "checkpoints"} : CleanupRows(table)

Spec == Init /\ [][Next]_vars
-----------------------------------------------------------------------------
\* Stores and runners have their types, an execute asks for a position that
\* its workflow has, and whoever awaits an RPC and finds it answered finds an
\* answer that RPC can give.
TypeOK ==
  /\ \A w \in Flow :
       /\ stores[w].workflow \in WorkflowRow \cup {None}
       /\ stores[w].checkpoints \in [Position -> CheckpointRow \cup {None}]
       /\ stores[w].leases \in [Position -> LeaseEntry \cup {None}]
       /\ stores[w].fencingToken \in Nat \cup {None}
       /\ \A r \in Run : flow[r][w].fencing_token \in Nat
  /\ \A r \in Run, t \in Task :
       call[r][t] # None => call[r][t].request.position \in Position
  /\ \A r \in Run, a \in Activity : Answered(r, a) =>
       LET p == IF a \in Flow THEN flow[r][a].pc ELSE exec[r][a].pc
       IN  Answer(r, a).kind \in {"error"} \cup
             CASE p = "starting" -> {"token"}
               [] p \in {"completing", "recovering"} -> {"completed"}
               [] p = "keying" -> {"key"}
               [] p = "leasing" -> {"value", "wait", "granted"}
               [] p = "checkpointing" -> {"saved"}
               [] p = "releasing" -> {"released"}

\* An execute answered with a result is answered with a result of its own
\* task, also when two executes share the position of their runner.
ResultOfOwnTask ==
  \A r \in Run, t \in Task :
    Answered(r, t) /\ Answer(r, t).kind = "value" => Answer(r, t).value = t

\* The server gives the execute of t in run r a lease.
Grants(r, t) ==
  /\ Pending(r, t) /\ call'[r][t] # None /\ call'[r][t].answer # None
  /\ call'[r][t].answer.kind = "granted"

\* No two executes of the program are called together.
OneByOne(p) == \A w \in DOMAIN p.steps : \A i \in DOMAIN p.steps[w] :
                 Cardinality(p.steps[w][i]) = 1
InTurn == OneByOne(program)

\* A task whose result the server has accepted is not started again before its
\* workflow has been completed and the retention is over, even if the answer
\* was lost, unless a handler has been left in the middle of a call.
KeptUntilRetention ==
  [][InTurn /\ ~crossed =>
       \A r \in Run, t \in Task : Grants(r, t) => t \notin kept]_vars

\* Nobody is given the lease of a position at which another execute is at
\* work with at least a second of its lease left, unless a handler has been
\* left in the middle of a call.
OneHolder ==
  [][InTurn /\ ~crossed => \A r, s \in Run, t \in Task :
       r # s /\ Grants(r, t) /\ Holds(s, t) => held[s][t] - now < Second]_vars

\* getWorkflowStatus: a workflow that was found is found until its retention
\* after the last complete is over, and a completed one stays completed.
StatusKept ==
  [][\A w \in Flow :
       LET told == StatusRpc(stores[w])
           tells == StatusRpc(stores'[w])
       IN  /\ told = Running => tells \in {Running, Completed}
           /\ told = Completed /\ tells # told =>
                /\ tells = "workflow_not_found"
                /\ due[w] # None /\ due[w] < now]_vars

\* What the tests assert of a program that nothing disturbs and whose calls are
\* not interleaved with each other: no task is executed twice, and a run fails
\* only if it is the first of one with a task that throws at first.
ScenariosPass ==
  ~disturbed /\ ~crossed =>
    /\ \A t \in Task : finished[t] <= 1
    /\ InTurn /\ program.generated = {} /\ program.runs # "overlap" =>
         \A r \in Run :
           flow[r]["outer"].pc = "failed" => r = 1 /\ program.throws # {}
=============================================================================
