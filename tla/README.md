# idempotent-transformer in TLA+

A formal model of idempotent-transformer: a workflow library for TypeScript
whose tasks are executed at most once per position, and the Rust server that
stores their results, leases positions to workers and fences off workers that
have been superseded. Paths below are relative to `src/`.

## 1. The system

A *workflow* is an id and a sequence of positions. A worker runs the workflow
function: `startWorkflow` gives it a *fencing token*, `execute` is called for
one task after the other, `complete` ends the workflow. `execute` asks the
server for the lease of its position: the server answers with the stored
result, with a time to wait, with a lease, or with an error. With the lease the
worker runs the task and sends its result (a *checkpoint*), again and again
until the lease is over. A second worker of the same workflow gets a higher
token; with it the server is to keep the first one from doing more. A task may
itself be a workflow function with an id of its own.

| Component | Source | State | Operations | Modules |
|---|---|---|---|---|
| Tables and lease cache | `server/src/repositories`, `server/migrations`, `server/src/schema` | rows of `Workflows`, `WorkflowFencingTokens`, `Checkpoints`; cache entries with a TTL | one SQL statement or cache call each | `Tables` |
| Checkpoint service | `server/src/services/checkpoint_service.rs` | locals of the handlers in flight | `handle_lease_checkpoint`, `handle_checkpoint`, `release_checkpoint`, `create_durable_idempotency_key` | `CheckpointService`, `Rpc` |
| Workflow service | `server/src/services/workflow_service.rs` | locals of the handlers and jobs in flight | `create_workflow`, `finish_workflow`, `handle_workflow_cleanup` | `WorkflowService`, `Rpc` |
| Cleanup job | `server/src/cron` | none | starts `handle_workflow_cleanup` every ten seconds, on every node | `Cleanup`, `Workflows` |
| RPC server | `server/src/rpc_server`, `server/proto` | none | seven RPCs, each handed to a service | `ServerState`, `Server`, `Rpc` |
| Client | `packages/core/idempotent-transformer` | per runner: fencing token, position; per `execute`: lease expiry, retry count | `startWorkflow`, `execute`, `complete`, `generateIdempotencyKey`, `getWorkflowStatus` | `IdempotentTransformer`, `Progress`, `Workflows` |
| gRPC adapter | `packages/grpc-adapter`, `packages/core/base/rpc-adapter` | none | one request and its answer or error | `IdempotentTransformer`, `Workflows` |
| Serializer | `packages/message-pack-adapter`, `packages/core/base/serializer` | registry of decorated classes, extensions of msgpackr | `@Serialize`, `configure`, `serialize`, `deserialize` | `Serializer` |
| Tests, measurements, example | `bdd_tests`, `overhead_tests`, `examples` | none | workflow functions | `Programs` |
| hiqlite, Raft, tonic | libraries | replicated tables, cache, locks | external | |
| Set-up, factory, NestJS module, logger | the rest | none of the program's own | construction, output | `Serializer` (`Build`) |

The components interact by calls: client → adapter → RPC server → services →
repositories → store. Handlers are async functions on a thread pool: between
two awaits another handler, or one of another node, may do anything. What they
share is the store alone. Two processes share, besides, what one has serialized
and the other deserializes, and the code each was built from.

What is hard here:

* **Interleaving at every await.** The checkpoint is read, then the lease and
  the token, then a lease is put, in separate statements. The lock that is
  meant to order them (`checkpoint_service.rs:144`) is bound to `_` and so
  released in the statement that acquires it: in the model it does not exist.
* **Stale tokens.** A token is checked halfway through a call and acted on
  later, while other workers start and the cleanup deletes tokens.
* **Faults.** A worker dies with a lease; an answer is lost after the call was
  handled; a statement fails; a node restarts and its cache is empty while the
  tables are not; one of the cleanup's deletes fails.
* **Time.** Leases end while a task runs, while its result is being saved, or
  between reading the lease and judging it; client, server and cache count the
  same lease from different moments and in different units.
* **Nesting and overlap.** An inner workflow is over before the outer task that
  ran it is saved. Calls of `execute` made together share the runner's position.
* **Set-up order.** Classes register themselves when they are loaded, the
  serializer takes those it finds when it is configured, the registry goes on
  changing, and the process that reads a result may run other code.
* **Liveness.** A worker told to wait asks again, a checkpoint that failed is
  repeated: both loops must end, whatever fails.

`PROJECT.json` lists the hazards one by one, each at its line.

What makes each component correct: the *tables*, that a result once written
stays until the workflow is purged, and every answer carries it; the *checkpoint
service*, that superseded workers get nothing they may act on and nothing is
acknowledged that is not stored; the *workflow service* and the *cleanup*, that
data disappears only after completion and retention, and then all of it does;
the *client*, that what `execute` returned is stored, completed tasks are not
started again, and every run comes to an end; the *serializer*, that what a
task returned is what every later run is given.

## 2. The modules

```
Tables ─┬─ ServerState ─┬─ CheckpointService ─┐
        │               ├─ WorkflowService ───┴─ Server ─┬─ IdempotentTransformer ── MCIdempotentTransformer ── Progress
        │               │        └─ Cleanup              ├─ MCServer
        │               │                                ├─ AtomicCalls
        ├─ Rpc ──────── │ ───────────────────────────────┘
        │   │           WriteOnce (INSTANCE, twice) ── Server
        │   └─ Workflows ── MCWorkflows
        │        └── Programs
Serializer ── MCSerializer

Proofs:  Server ── ServerProofs ─┬─ ResultsProofs ──┐
         IdempotentTransformer ──┴──────────────────│── ClientProofs ── RunsProofs
         AtomicCalls ───────────────────────────────┴── AtomicCallsProofs
         Workflows ── WorkflowsProofs ── ScenariosProofs
         Serializer ── SerializerProofs
```

The server is modelled twice, at two grains: `Server` takes a step per awaited
statement, `Rpc` one per call. `AtomicCalls` checks that a call nothing
interferes with does at the fine grain what `Rpc` says. Races of handlers and
the client's answer to them are checked on the fine grain, on one workflow id;
`Workflows` uses the coarse one, and can so afford whole programs, several
workflow ids, leases of several seconds and the cleanup job at once; where calls
overlap it may leave a handler in the middle.

**Tables.** The rows of one workflow id: every table, cache key and lock key is
keyed by it. One operator per statement, from the old row to the new one:
`InsertCheckpoint` for `INSERT .. ON CONFLICT DO UPDATE SET created_at`, which
keeps the key *and the value* of an existing row; `IncrementToken`; `Expired`
with SQL's rule that NULL compares as false; `RemainingLease`; `CacheTtl`, whole
seconds rounded down. Columns nothing reads back are left out. Eviction counts a
lease's TTL from its `created_at`; the cache counts it from the put that
follows, which is no earlier, so the model may drop an entry a little sooner
than the cache would.

**ServerState.** The stores as variables, and one *frame* per RPC being handled:
`at` (the await the handler is suspended on), `arg` (the request), `todo` (the
statements of the current `tokio::join!` still to run), the locals `token`,
`lease`, `expireAt`, and `reply`. An action is one awaited statement together
with the code up to the next await. Statements under one `join!` take effect in
either order. `Abandon` is a failed statement or a handler dropped by tonic;
`Restart` a node's restart: tables kept, cache, handlers and jobs gone. `issued`
(tokens handed out), `drawn` (UUIDs drawn) and `floor` (the token stored when a
call was accepted) are history; `faults` counts faults.

**CheckpointService, WorkflowService.** The handlers, statement by statement.
`CleanupTokens` and `CleanupCheckpoints` are the joined deletes of the job,
`CleanupWorkflows` the last one. A definition introduced by "Slip:" is a
plausible mistake in that piece of code, used to show that the properties
notice it; no specification uses one.

**Server.** Both services under the most general caller: any request at any
time with any token ever handed out. Its invariants and refinements hold for any
client, the TypeScript one included.

**WriteOnce.** The abstract specification: a table in which a position is
written once, answers carry what is written, and a purge empties all of it.
`Server` instantiates it with `StoredResult` and `ToldResult` (results) and with
`StoredKey` and `ToldKey` (generated keys).

**Rpc.** Each RPC as the set of its outcomes (stores after it, answer).
`LeaseRpc` and `CheckpointRpc` give the order in which row, lease and token
decide; `StatusRpc` is `workflow_status`. `LeaseRpcWithoutRow`, `Granting` and
`Saving` are the rest of a call that has been left in the middle.

**AtomicCalls.** `Server` with a snapshot for each call of what was stored when
it was accepted, dropped as soon as anyone else changes the stores or a fault
strikes. `CallsAtomic` compares the call's end with `Outcomes` of its snapshot.

**Cleanup.** The job alone, from any state a completed workflow can have left,
under weak fairness.

**IdempotentTransformer.** Workers running the TypeScript client against
`Server`. A worker is one run of the workflow function, with at most one RPC
outstanding, so the server's calls are the workers. `pc` is where the run
stands, `fence` and `position` are the runner's fields, `retried`, `leaseExpiry`
and `genKey` locals of the current `execute`. `LeaseAnswered`, `SaveAnswered`,
`SaveExpires` and `RollBack` are the branches of `execute` and its loops.
`TaskThrows`, `SerializeThrows`, `DeserializeThrows`, `Crash` and `LoseReply`
are what can go wrong outside the server. A task may use the key written at its
position or, with `MayGenerateKeys`, one it asked the server for; a retry need
not do the same. A task returns the name of its worker, so that results of two
executions can be told apart. The time a waiting worker sleeps is left open: it
asks again at any time. `order` (the rank of a run's token) and `superseded`
(whether a later token was out when the run last called) are history.

**Progress.** The same with a record (`hit`) of which runs a fault has touched,
so that something can be promised to the others.

**Programs, Workflows.** `Programs` writes down, as data, the workflow functions
that the repository runs: the tests' (`OneTask`, `FourTasks`, `Nested`,
`Expiry`), the README's (`NestedOnce`), the measurements' (`SameWorkflow`,
`DifferentWorkflow`), the NestJS example's (`HandlePayment`), and two executes
awaited together (`Joint`). `Workflows` runs any of them: `flow` is the runner
of each run and workflow id, `exec` each call of `execute`, `call` the RPC each
of them awaits, `stores` what the server keeps of each id, `job` the cleanup. A
nested workflow begins in the running task (`BeginInner`) and the task returns
when it has completed. An RPC is handled in one step (`Handle`), which may find
that its connection breaks before or after (`Break`); or the handler halts on
the way (`stage`), and the calls of others are handled before it goes on. It may
halt where what is written later rests on what was read earlier: a lease call
that has found no row (`LeaseFindsNoRow`), that has found no lease and its token
current (`LeaseMayBePut`), and a checkpoint that has removed the lease and not
yet inserted the row (`SaveFreesLease`). `crossed` records that some handler has
done so; a lease bears the time at which it is put. The calls of a run that has
crashed stay at the server and are handled, in one step or in pieces, at any
later time. `DeserializeThrows` and `TaskThrowsUncaught` are the exceptions that
`execute` does not catch. A program is a parameter; `WellFormed` says what makes
one: each task is executed at one place, the names of tasks and of flows are
distinct, and there are positions enough. `kept` is history: the tasks whose
result the server has accepted, whether or not the answer arrived, until the
cleanup deletes checkpoints of a workflow whose retention is over; `due` is when
that is.

**Serializer.** `decoratedModels` is the registry of one process, a Map and so
in the order of first insertion; `Serialize` the decorator, run when a class's
module is loaded, after those of its base classes; `Configure` adds one
extension per registered class in front of those there are; `Pack` takes the
first extension the value is an `instanceof`; `Unpack` looks the written name up
in the registry as it is by then, for all extensions share type 1 and one read
function. `Execute` stores a result, `Replay` reads it, in the same process
or in another one with its own version of the names (`naming`).

## 3. The checks

`MC*.tla` give constants their values; a run is `tlc -config X.cfg <module>`
with the module `PROJECT.json` names.

| Run | Instance | Shows |
|---|---|---|
| Leasing | any client; 2 calls, 1 position, tokens to 2, clock to 2, 1 fault | `TypeOK`, `Fenced`, `ResultsWrittenOnce`, `AcknowledgedIsStored` |
| Lifecycle | any client; all six RPCs, cleanup, 1 call at a time, 1 fault | `DurableKeys`, `CallsAtomic` |
| Sequential | 3 runs one after the other, 2 tasks, written or generated keys, 2 faults | `ReturnedIsStored`, `SameResults`, `CompletedNotReexecuted`, `LeaseNotStolen` |
| Concurrent | 2 overlapping runs, 2 tasks, 1 fault | `SystemTypeOK`, `ReturnedIsStored`, `SupersededNotGranted`, `AbortIsDue` |
| Progress | 2 overlapping runs, 1 task, 1 fault | `EveryRunEnds` |
| Cleanup | 2 jobs, 2 positions, 2 faults | `EventuallyDeleted` |
| Serialization | 2 processes, 3 classes, 4 versions of their names | `TypeOK`, `DecodedAsWritten`, `ReadyNotRefused` |
| Workflows | 9 programs, up to 2 runs, half-second clock, cleanup, 1 fault, handlers whole or in pieces | `TypeOK`, `ResultOfOwnTask`, `ScenariosPass`, `KeptUntilRetention`, `OneHolder`, `StatusKept` |

Four more runs check what the repository says and the code does not do; TLC
finds each violated:

| Run | Property | What happens |
|---|---|---|
| LeaseStolen | `LeaseNotStolen` | two calls both read "no lease" before either puts one; the lock does not keep them apart |
| Reexecution | `CompletedNotReexecuted` | a call reads "no checkpoint", another worker saves its result and so gives its lease back, the first call is granted the lease of the completed task |
| GeneratedKeyRefused | `GeneratedKeyUsable` | `generateIdempotencyKey` makes a row without a value; `execute` with that key at that position is refused, although the example application does it |
| StaleCompletion | `CompletedByNewest` | `finish_workflow` compares the wrong way round and lets a superseded run complete the workflow under its successor |

What each question is:

* **Leasing**: races of two calls for one position. The state constraint
  `Focus` lets a call for a key or of `complete` have the server to itself, and
  a generated key be used only once it is drawn: start, lease, checkpoint
  and release race freely, after any history of all six.
* **Lifecycle**: the whole life of a workflow with its cleanup, one call at a
  time, and there the agreement of the two grains.
* **Workflows** has two kinds of behaviour. In those in which no handler has
  been left in the middle (`~crossed`), runs may overlap and crash, but their
  calls do not cut into each other: there `ScenariosPass`, `KeptUntilRetention`
  and `OneHolder` are checked. In the others, where the call of a second run or
  of a crashed one may come in between, all three are false, as `LeaseStolen`
  and `Reexecution` show step by step, and the types, `ResultOfOwnTask` and
  `StatusKept` are what is left. `KeptUntilRetention` says that a task whose
  result the server has accepted, even if the answer was lost, is not run again
  before its workflow was completed and its retention is over, although the
  cleanup takes three statements, forgets tokens and works from the row of a
  workflow that may have been started again. `OneHolder` says that no lease is
  given while another run works with at least a second left of its own: client,
  server and cache measure the lease separately, and the cache rounds.
  `StatusKept` is what a caller of `getWorkflowStatus` can rely on: a workflow
  once found is found until the retention after its last completion.
  `ScenariosPass` is what the tests assert.
* **Serialization**: whether a result survives every order of loading,
  configuring and building, and a deployment in between.
* **Progress**: liveness of overlapping runs. A run ends completed unless a
  fault hits *it* or a later run takes its place.

**Bounds, and why they are enough.** `Call`/`Worker`: fencing and every race of
the handlers is between two callers; three appear where a third is needed to see
the outcome (a retry of a retry). `Position`: positions share only the token;
two show that the runner's position advances. `MaxToken`: one token per start.
`MaxNow`: in the fine-grained modules one unit is a second, a lease and a
minimum TTL, so a bound of two lets a lease end and another begin. In
`IdempotentTransformer` the clock moves only while a time still to come makes a
difference (`TimeMatters`), and no behaviour takes it past the bounds given:
with one more the runs reach the same states. In `Workflows` a unit is half a
second, so that the leases of 1.5 and 1 seconds differ from the cache's whole
seconds; the bound of four lets a lease be held, end, and be given again within
the retention, and a retention of one second be over. `MaxFaults`: faults are
rare, and single ones at every point already exercise each error path; two in
`Sequential` let a retry fail as well. `Nested` and `Joint` run without
faults (`OneFault`): two runs of seven nested tasks with a fault anywhere are
out of reach, and for `Joint` see below. `SameWorkflow` keeps two of its five
tasks, which are alike, and its overlapping runs meet either a fault or handlers
in pieces (`FaultOrPieces`); the other programs meet both. `MaxExtensions`: four let two classes be configured
twice. UUIDs never run out: `Room` holds back a call that could not draw one,
or would take the token past `MaxToken`. Symmetry is over callers, values and
processes and used in safety runs only. Client runs say `CHECK_DEADLOCK FALSE`
because a system whose runs have all ended does stop, and so do `Workflows` and
`Serialization`; `Leasing` and `Lifecycle` check deadlock.

**Where a property is restricted, and why.**

* `SameResults`, `CompletedNotReexecuted` and `LeaseNotStolen` hold for runs
  that do not overlap (the passing run `Sequential`) and not for ones that do.
* `DurableKeys` is checked one call at a time: two calls that race for a key
  draw two, store the first and tell each its own
  (`checkpoint_service.rs:243-256`; the documentation says "durable").
* `AcknowledgedIsStored` excepts a position held by a generated key: its row
  has no value and wins over the result, which is dropped without an error.
* `Fenced` compares with the token stored when the call was accepted. When the
  cleanup deletes the token there is nothing left to compare with, and the
  floors of calls in flight return to zero.
* `ReturnedIsStored` is checked with `onAbort` given. Without it,
  `execute` returns a result it could not save
  (`idempotent-transformer.ts:150-174`).
* `KeptUntilRetention` and `OneHolder` are about executes called in turn
  (`InTurn`). Of two awaited together each saves at the position the runner has
  when its own task is done: both may save at one position, where the second is
  acknowledged and dropped, and each may release a lease of the other's. Even
  without a fault an execute may be refused
  (`non_deterministic_checkpoint_found`), since it asks again, after a wait, at
  a position that has moved. What holds of them is `ResultOfOwnTask`: an answer
  with a value is of the task that asked.
* `KeptUntilRetention`, `OneHolder` and `ScenariosPass` say nothing once a
  handler has been left in the middle for the call of another (`crossed`). Two
  overlapping runs, or one and the call of a crashed one, are then enough to
  break each: both find no lease and are granted one, or a run that found no row
  is granted the lease of a task that another has saved since.
* `OneHolder`, so restricted, is checked of two runs. With three it is false
  even of whole calls: a run whose lease is over and which saves late deletes
  the lease of its successor, and a third is given it.
* `ScenariosPass` speaks of behaviours without a fault, a lease running out or a
  purge, as the tests do; and not of `HandlePayment`, which always fails
  (`GeneratedKeyRefused`).
* `SupersededNotGranted` is about clients and server without a cleanup job.
  After a cleanup tokens start at one again and the token of a superseded run
  may be the current one: then it is false. `Fenced` allows for that (below),
  and is proved with the cleanup jobs, though its run has none.
* `DecodedAsWritten` excepts names that two classes share: the decorator asks
  "Keep this unique" (`serialize.decorator.ts:9`) and does not check it. And it
  is about classes that had been configured when the result was written: of the
  others only a plain object is stored, or an instance of the nearest configured
  base class. Neither the factory nor the NestJS module nor the README calls
  `configure`.

**More that the model shows and no run states**, seen as traces while modelling:

* of two overlapping runs the one whose checkpoint comes second returns its own
  result, not the stored one (`idempotent-transformer.ts:174`);
* the result of a superseded run is refused after its lease has ended only if
  the entry of that lease is still found (`checkpoint_service.rs:63`). The cache
  drops the entry at about the same time, and an earlier attempt of the same
  save deletes it; without it the late result is saved, with `abort`, although
  the comment above that line says that it is rejected;
* a checkpoint whose answer is lost until the lease is over is rolled back by
  `onAbort` though it is stored;
* tokens start at one again after a cleanup, so a worker of the earlier life can
  be current again;
* a checkpoint inserted between the cleanup's deletes, or under a row whose
  insert failed unnoticed (`workflow_service.rs:28`), is never deleted;
* a workflow started again after its completion keeps `status` and `expire_at`
  (`workflows.rs:16`): the cleanup may take the new run's token and checkpoints
  from under it;
* the test of user-defined classes
  (`bdd_tests/features/step_definitions/contracted-based-serialization/01.ts:110-114`)
  completes the workflow with its first runner after it has started a second
  one: it passes because of what `StaleCompletion` shows;
* an inner workflow is completed before the outer task is saved; if the outer
  save fails for longer than the inner retention, the retry runs the inner tasks
  again.

**Fairness.** `Fairness` has weak fairness for each worker's own steps, for each
handler's steps and for time: a JavaScript event loop and tokio run whatever can
run, a statement on a live store returns, and clocks move. A step that should
not be forced is not: faults, the eviction of an entry, a cleanup job and a
client's crash are never fair. `CleanupFairness` is weak fairness of each part
of the job: cron fires again for ever. Nothing needs strong fairness.

## 4. The proofs

Checked by tlapm for every value of the constants that satisfies the modules'
assumptions: any number of calls, positions, keys, values, jobs, processes,
classes and versions, any bounds.

* `ServerProofs!TypeCorrect`: `Spec => []TypeOK`. `TypeOK` is inductive because
  `FrameOK` says, for each await, which request the frame holds and which locals
  have been assigned; without it `token[c] > arg[c].fencing_token` would not be
  known to compare numbers. One lemma per action.
* `ServerProofs!StaleWorkersFenced`: `Spec => []Fenced`. `Fenced` alone is not
  inductive: the token is read in one step and compared in another. `FenceInv`
  adds that no floor exceeds the stored token (`FloorStored`), that a token
  read by a handler is at least its floor (`TokenRead`), that a
  handler starts without one (`IdleForgets`), and that between its check and its
  grant a call keeps the token that was checked (`GrantChecked`). Steps
  fall into four kinds, one lemma each: a call is accepted, answered, reads
  the token, or goes on without touching it; then one line per action.
* `ResultsProofs!ServerImplementsWriteOnce`: every step of the server is a step
  of `WriteOnce` under `StoredResult` and `ToldResult`, or a stutter. Only
  `CheckpointInsert` writes, only `LeaseGetCheckpoint` tells, only
  `CleanupCheckpoints` purges.
* `ResultsProofs!AcknowledgedStored`: from `NullIsGenerated` (a row without
  a value was made by a drawn key) and `Unanswered` (a call being handled has
  no answer yet, so an answer is new).
* `SerializerProofs!SerializerTypes`, `ResultsDecoded`, `ReadyServed`: the three
  properties of `Serializer`, for any class hierarchy. That a result comes back
  as its own class rests on an order kept through three places. A class is
  loaded after its base classes (`BasesLoaded`), so it comes after them in the
  registry (`BasesRegisteredFirst`; here a shared name would do harm, as the
  Map keeps the place of a name whose class changes); `configure` reverses that
  order and puts it in front, so the class's own extension is found before any
  of its base classes' (`OwnExtensionFirst`), also when configured again
  with more classes. Hence the bytes carry the class's own name (`StoredNamed`),
  and a registry that agrees with its version (`NamesAgree`) has at most that
  class under it. `ReadyServed` needs only that every loaded decorated class's
  name is in the registry (`NamesRegistered`).

* `ClientProofs!SystemTypeCorrect`, `SupersededRunsNotGranted`: the client with
  the server it calls, `SystemSpec => []SystemTypeOK` and
  `[]SupersededNotGranted`, for any number of runs, tasks and faults, in a
  system that has no cleanup job. The types need `CallAwaited`: the handler of a
  run's call is one of the RPC the run awaits, so its answer is one that the run
  can read; and `PositionInRange`: inside an execute the runner is at one of the
  workflow's positions. `SupersededNotGranted` is about ranks, which the client
  knows nothing of, and `Fenced` about tokens. Between them stand `RankIsToken`
  (the rank of a run *is* its token), `RanksCounted` (the highest rank is the
  stored token), `TokenStored` (no handler has read one above it), and
  `SupersededBelowFloor` (a call made after a later run had its token carries
  one that is below the call's floor); with `FenceInv` such a call is refused
  between its check and its grant.
* `RunsProofs!AbortsAreDue`: `[]AbortIsDue`, from the same invariant: an answer
  that makes `execute` abort names a token larger than the run's own.
* `RunsProofs!ReturnedResultsAreStored`, `RunsAgree`,
  `CompletedTasksAreNotReexecuted`, `LeasesAreNotStolen`: what a run may rely on
  whatever the other runs did. `RunsInv` has a part for all runs and one for
  each of the theorems' conditions. For all: a call is about the position the
  run is at and carries its own result (`CallsHere`), and what a run is told is
  stored when it reads the answer (`ToldIsStored`). If no keys are generated no
  row is without a value (`NoNullRows`). If a retry waits for the run before it
  (`Sequential`): at most one run is alive or has a call at the server
  (`OneRun`); from the time it finds no row until its task is done there is none
  (`FreeRow`), and a row that is there while it saves is its own (`OwnResult`);
  and the lease it has read is the one there, or gone, until it puts its own
  (`LeaseSeen`). The conditions are needed: without `Sequential`, `LeaseStolen`
  and `Reexecution` are the counterexamples of the last two; without `OnAbort` a
  run returns what it could not save (`SaveExpires`), and its retry returns
  something else; a generated key leaves a row without a value, which wins over
  the result of a run that overlaps.
* `AtomicCallsProofs!CallsAreAtomic`: `TracedSpec => CallsAtomic`, for any
  number of calls and in whichever order the joined statements run. `AloneInv`
  says, await by await, what a call that nothing interferes with has made of
  the snapshot so far: which of its statements are reflected in the stores, and
  what its locals hold. Together with the step lemma of each RPC this makes the
  call's end one of `Outcomes` of its snapshot, and so justifies the coarse
  grain of `Workflows` wherever calls do not overlap; where they do, `Workflows`
  has its handlers halt.
* `AtomicCallsProofs!GeneratedKeysAreDurable`: `OneCall => (Spec =>
  DurableKeys)`, with cleanup jobs and faults at any point. `KeyIsFree` carries
  what the first statement found to the one that inserts: the position has no
  row. It takes `OneCall` (section 3).
* `WorkflowsProofs!WorkflowsTypeCorrect`: `Spec => []TypeOK`, for any set of
  well-formed programs. The hard part of the types is that no execute asks for
  a position that its workflow does not have. `StepsInv` gives it: the tasks of
  the steps before a runner's have returned, those of later steps have not
  begun, and the position is the number of tasks that have returned; a task that
  has yet to return makes that number smaller than the number of positions.
* `WorkflowsProofs!StatusIsKept`: `Spec => StatusKept`, from `DueInv`: the row
  of a completed workflow says when its retention is over, and says
  it also after a start that finds the row and a job that read an earlier time.
* `WorkflowsProofs!ResultsAreOwn`, `AcceptedResultsAreKept`: `[]ResultOfOwnTask`
  and `KeptUntilRetention`. `PlaceInv` says that of executes called in turn the
  runner is at the position of its step; `RequestInv` that a request is then for
  that position, and in any case under the task's own key if keys are not
  generated; `RowsInv` that a stored result is under its own key or at its own
  position, hence `AnswersInv`, that an answer with a value is the task's own;
  `KeptInv` that what is kept is stored, so that no lease can be granted for it,
  by a call that looks for the row and grants in one step. `ResultsAreOwn` holds
  for handlers in pieces too: a handler that has gone past the row answers no
  value. `ResultsAreOwn` excludes programs that await executes together *and*
  have their keys generated, none of which is in the repository: two such
  executes share a position, and with it, after a purge and a repeated key, they
  could share a row.
* `ScenariosProofs!OneHolderAtATime`: `Spec => OneHolder`, for at most two runs
  or any number that do not overlap, whatever crashes, restarts, is lost or is
  cleaned up, as long as no handler is left in the middle of a call (`~crossed`;
  `StageInv` says that every handler then has its whole call to do, and the
  invariants below speak of such states). It first gives each step of a program
  a form without the order of its assignments (`FlowMove`, `TaskMove`,
  `ServerMove`, .. and `Moves`, that there are no others). `TurnInv` then says
  who is under way: a workflow function is going while a task of it is executed
  (`GoingInv`), whatever is open is nested in the outermost one of its run
  (`NestInv`, of any *set* of open functions, because it must find the
  outermost), and a retry finds the others ended (`RetryInv`); so runs that do
  not overlap never meet. For two that do, `HolderInv` is the reason: while one
  may still be given the lease and the other is at work with a second of its own
  left, the result is stored or the lease in the cache is the one of the run at
  work, and ends by the server's clock when that run's does. A checkpoint and a
  release delete whatever lease there is, but the only other run is not yet as
  far as that; a third one might be. All this is said of functions that no run
  has got to the end of, which is so while two of two runs are at a task of it;
  of such a one the row is not completed and whoever has started it has a token
  (`FreshInv`), so the cleanup leaves it alone.
* `ScenariosProofs!UndisturbedScenariosPass`: `[](Plain(program) =>
  ScenariosPass)` for any program, leases and number of runs: executes called in
  turn, leases positive, and where runs overlap no task that may throw and no
  inner workflow (every program of `Programs` but `Joint` is so), in behaviours
  in which nothing disturbs the program and no handler halts. It is a proof that
  the parts of the protocol fit together when nothing goes wrong. `CalmInv` is
  the invariant of an undisturbed program: tokens are there (`TokensInv`); who
  has a lease has it in the cache, with more than a second left or all of it,
  until its result is stored, and nobody else has one (`LeasePart`); a task is
  done once because by then its row is there or its only lease holder is saving
  it (`DonePart`); a runner's token, and that of its calls, is the stored one,
  so no call is answered with an error and no result refused (`RunnerPart`,
  `CallPart`, `ClosePart`); and a run fails only behind a task that throws,
  through any nesting (`FailPart`). Of the condition on overlapping runs the
  first half is needed: a task that throws releases its lease, and if that call
  is handled when the lease is over and another run has the next one, it frees
  that, and a third run starts the task again. That there is no inner workflow
  is only what the proof can do.

Every theorem's hypotheses are the modules' `ASSUME`s and what its statement
names. The `ASSUME`s: `None` is none of the values it stands beside, positions
are numbers, so are leases and retentions, positive where a theorem says so,
UUIDs are keys, a class is an instance of itself; workers and positions are
finite in number (`WorkflowAssumption`, `PositionsAssumption`), as the runs of a
process and the executes of a function are; programs are well-formed
(`ProgramAssumption`). TLC evaluates them in every run. `Sequential`, `OnAbort`
and `MayGenerateKeys` are constants of `IdempotentTransformer`, and the run
`Sequential` has an instance of them in which the hypotheses hold.

Only model-checked, and why:

* `EveryRunEnds` and `EventuallyDeleted`: liveness under fairness is beyond the
  prover.
* `ScenariosPass` of `Joint`, whose executes are called together: the first
  part of it, that no task is executed twice, rests there on leases that belong
  to a position and not to a task.
* `OneHolder` of three and more overlapping runs is false (section 3), and so
  are `OneHolder`, `KeptUntilRetention` and `ScenariosPass` once a handler has
  been left in the middle.
* `LeaseNotStolen`, `CompletedNotReexecuted`, `CompletedByNewest` and
  `GeneratedKeyUsable` without the conditions above are false, and TLC shows it.

## 5. Not modelled

* Replicas: `query_as_optional` may read a node that lags behind the leader.
  Which reads lag and how far is decided in hiqlite, whose code is not in the
  repository; the stores are one copy here.
* Some races of handlers inside nested workflows: in `Workflows` the reads under
  one `join!` are one step, and handlers other than those of leases and results
  are not left in the middle. The races themselves are those of one id, in
  `Server`.
* A client whose call is rejected while its handler, or a statement it has sent,
  is still under way, and which repeats the call meanwhile. `LoseReply` takes an
  answer away after the handler has ended, and `Abandon` drops a handler at any
  await, with the statements before it done; a statement that lands after the
  drop would be a matter of when Raft commits what was proposed, inside hiqlite.
  `Server` has two calls of one worker at once, its callers being free to send
  anything, so what is checked and proved of it holds here too; the client's
  properties are about a client with one call at the server. The call of a
  worker that has *crashed* does go on, in `IdempotentTransformer` and in
  `Workflows`; the retry waits for it where `Sequential` is set.
* Byte formats: what msgpackr does with plain data, and compression. The two
  compression experiments of `overhead_tests` use storage adapters and a
  compressor that are not in the repository.
* Set-up of the node, the NestJS module's wiring, logging, timing and statistics
  of the measurements.

## 6. Plan

1. Done: the server and its two services, the cleanup, the client, the abstract
   write-once table, fencing and results proved; RPCs as atomic steps and their
   agreement with the handlers; programs with nested and overlapping work; the
   serializer, its properties proved.
2. Done: proofs for the client, alone and of runs one after the other; of the
   agreement of the two grains; of durable keys; and of `Workflows`, for all
   well-formed programs.
3. Done: who holds the lease of a task, and what becomes of a program that
   nothing disturbs, for all programs whose executes are called in turn. With
   it every invariant and every action property that a run checks is stated by a
   theorem.
4. Done: handlers of leases and results in pieces under `Workflows`, and what
   then remains true.
5. Left: the other handlers in pieces, and calls that are repeated while the
   first is still at the server.
