---------------------------- MODULE ServerState ----------------------------
(***************************************************************************)
(* The state the server's handlers work on: the stores (Tables), and one   *)
(* frame per RPC being handled.  A handler is an async function: it runs   *)
(* from one await to the next without giving way to the handlers of other  *)
(* calls, so an action is one awaited statement with the code up to the    *)
(* next await.  Two statements under tokio::join! take effect in either    *)
(* order, with other handlers in between: todo holds the pending ones.     *)
(***************************************************************************)
EXTENDS Tables

CONSTANTS
  Call,           \* RPCs that may be in flight together
  Sweep,          \* cleanup jobs that may run together, one per node
  LeaseTimeout,   \* values of LeaseCheckpointRequest.lease_timeout
  Retention,      \* values of CompleteWorkflowRequest.expire_after
  Uuid,           \* what Uuid::new_v4 may draw
  MaxNow,         \* bound on the clock
  MaxFaults       \* bound on store errors, cancelled calls and restarts

ASSUME NoneIsNoEntry ==
  /\ None \notin WorkflowRow
  /\ None \notin CheckpointRow
  /\ None \notin LeaseEntry
ASSUME ParameterAssumption ==
  /\ LeaseTimeout \subseteq Nat \ {0}
  /\ Retention \subseteq Nat \ {0}
  /\ Uuid \subseteq Key
ASSUME BoundAssumption == MaxNow \in Nat /\ MaxFaults \in Nat

VARIABLES
  \* The stores, shared by every call.
  workflow,       \* row of Workflows, or None
  fencingToken,   \* WorkflowFencingTokens.fencing_token, or None
  checkpoints,    \* Checkpoints row of each position, or None
  leases,         \* Cache::One entry of each position, or None
  now,            \* the clock every node reads
  \* The frame of each call: Idle, or where its handler stands.
  at,             \* the await it is suspended on
  arg,            \* the request
  todo,           \* statements of the current join! not yet done
  token,          \* local: fencing token read or incremented
  lease,          \* local: lease read, or lease about to be put
  expireAt,       \* local of finish_workflow
  reply,          \* the last answer, kept for the caller
  \* The cleanup jobs.
  sweep,          \* None, or the timestamp and pending deletes of the job
  \* Bookkeeping.
  drawn,          \* UUIDs handed out so far
  issued,         \* tokens returned to callers so far
  floor,          \* history: token stored when the call was accepted
  faults          \* faults so far

stores == <<workflow, fencingToken, checkpoints, leases, now>>
locals == <<todo, token, lease, expireAt>>
frames == <<at, arg, reply, locals>>
history == <<issued, floor>>
bookkeeping == <<drawn, faults, history>>
vars == <<stores, frames, sweep, bookkeeping>>

-----------------------------------------------------------------------------
(* Requests.  A caller sends a token it was given: Request(Nat) is the     *)
(* type, Request(issued) what can arrive.                                  *)

StartRequest == [rpc : {"start"}]
CompleteRequest(tokens) ==
  [rpc : {"complete"}, fencing_token : tokens, expire_after : Retention]
LeaseRequest(tokens) ==
  [rpc : {"lease"}, fencing_token : tokens, position : Position,
   idempotency_key : Key, lease_timeout : LeaseTimeout]
CheckpointRequest(tokens) ==
  [rpc : {"checkpoint"}, fencing_token : tokens, position : Position,
   idempotency_key : Key, value : Value]
ReleaseRequest == [rpc : {"release"}, position : Position]
KeyRequest(tokens) ==
  [rpc : {"key"}, fencing_token : tokens, position : Position]

Request(tokens) ==
  StartRequest \cup CompleteRequest(tokens) \cup LeaseRequest(tokens)
    \cup CheckpointRequest(tokens) \cup ReleaseRequest \cup KeyRequest(tokens)

-----------------------------------------------------------------------------
(* Answers.  A value and a key carry the position they were asked for.     *)

ErrCode == {"fencing_token_not_found", "fencing_token_expired",
            "non_deterministic_checkpoint_found",
            "checkpoint_value_not_found", "unexpected state", "unavailable"}

Reply ==
  [kind : {"error"}, code : ErrCode]
    \cup [kind : {"value"}, position : Position, value : Value]
    \cup [kind : {"wait"}, remaining : Nat \ {0}]
    \cup [kind : {"token"}, fencing_token : Nat]
    \cup [kind : {"key"}, position : Position, idempotency_key : Key]
    \cup [kind : {"saved"}, abort : BOOLEAN]
    \cup [kind : {"granted", "released", "completed"}]

ASSUME NoneIsNoReply == None \notin Reply

Error(code) == [kind |-> "error", code |-> code]
Done(kind) == [kind |-> kind]

-----------------------------------------------------------------------------
(* Frames                                                                  *)

Idle == "idle"

\* Where a call of each RPC begins, and what its first join! must do.
Entry(rpc) ==
  CASE rpc = "start" -> "start"
    [] rpc = "complete" -> "complete_read"
    [] rpc = "lease" -> "lease_get"
    [] rpc = "checkpoint" -> "checkpoint_read"
    [] rpc = "release" -> "release_delete"
    [] rpc = "key" -> "key_get"

FirstJoin(rpc) ==
  CASE rpc = "start" -> {"row", "token"}
    [] rpc = "checkpoint" -> {"token", "get"}
    [] OTHER -> {}

\* The generated tonic service decodes the request and calls the handler.
Accept(c, r) ==
  /\ at[c] = Idle
  /\ at' = [at EXCEPT ![c] = Entry(r.rpc)]
  /\ arg' = [arg EXCEPT ![c] = r]
  /\ todo' = [todo EXCEPT ![c] = FirstJoin(r.rpc)]
  /\ reply' = [reply EXCEPT ![c] = None]
  /\ floor' = [floor EXCEPT ![c] =
                 IF fencingToken = None THEN 0 ELSE fencingToken]
  /\ UNCHANGED <<stores, token, lease, expireAt, sweep, drawn, issued>>

\* The handler of c returns r and its frame is gone.
Answer(c, r) ==
  /\ at' = [at EXCEPT ![c] = Idle]
  /\ arg' = [arg EXCEPT ![c] = None]
  /\ reply' = [reply EXCEPT ![c] = r]
  /\ todo' = [todo EXCEPT ![c] = {}]
  /\ token' = [token EXCEPT ![c] = None]
  /\ lease' = [lease EXCEPT ![c] = None]
  /\ expireAt' = [expireAt EXCEPT ![c] = None]

\* The statement s of c's join! has run.
Joined(c, s) == todo' = [todo EXCEPT ![c] = @ \ {s}]

Fault == faults < MaxFaults /\ faults' = faults + 1

\* The awaited statement fails, or the connection closes and tonic drops the
\* handler: what it had not yet done is never done.
Abandon(c) ==
  /\ at[c] # Idle
  /\ Fault
  /\ Answer(c, Error("unavailable"))
  /\ UNCHANGED <<stores, sweep, drawn, history>>

\* The node restarts: handlers and jobs are gone, the tables are on disk and
\* the cache (cache_storage_disk = false) starts empty.
Restart ==
  /\ Fault
  /\ leases' = [p \in Position |-> None]
  /\ at' = [c \in Call |-> Idle]
  /\ arg' = [c \in Call |-> None]
  /\ todo' = [c \in Call |-> {}]
  /\ token' = [c \in Call |-> None]
  /\ lease' = [c \in Call |-> None]
  /\ expireAt' = [c \in Call |-> None]
  /\ reply' = [c \in Call |->
                 IF at[c] = Idle THEN reply[c] ELSE Error("unavailable")]
  /\ sweep' = [k \in Sweep |-> None]
  /\ UNCHANGED <<workflow, fencingToken, checkpoints, now, drawn, history>>

\* Time passes, between any two steps.
Tick ==
  /\ now < MaxNow
  /\ now' = now + 1
  /\ UNCHANGED <<workflow, fencingToken, checkpoints, leases, frames, sweep,
                 bookkeeping>>

\* The cache drops an entry whose TTL is over.
LeaseEvict(p) ==
  /\ leases[p] # None
  /\ Evictable(leases[p], now)
  /\ leases' = [leases EXCEPT ![p] = None]
  /\ UNCHANGED <<workflow, fencingToken, checkpoints, now, frames, sweep,
                 bookkeeping>>

FramesInit ==
  /\ at = [c \in Call |-> Idle]
  /\ arg = [c \in Call |-> None]
  /\ todo = [c \in Call |-> {}]
  /\ token = [c \in Call |-> None]
  /\ lease = [c \in Call |-> None]
  /\ expireAt = [c \in Call |-> None]
  /\ reply = [c \in Call |-> None]
  /\ sweep = [k \in Sweep |-> None]

BookkeepingInit ==
  /\ drawn = {} /\ issued = {}
  /\ floor = [c \in Call |-> 0]
  /\ faults = 0

ServerInit ==
  /\ workflow = None
  /\ fencingToken = None
  /\ checkpoints = [p \in Position |-> None]
  /\ leases = [p \in Position |-> None]
  /\ now = 0
  /\ FramesInit
  /\ BookkeepingInit
=============================================================================
