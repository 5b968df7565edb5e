------------------------------- MODULE Server -------------------------------
(***************************************************************************)
(* The server as its clients see it: the two services over the shared      *)
(* stores, called by clients that may send any request at any time with    *)
(* any token they were ever given.  Whatever the TypeScript client does is *)
(* one case of this.                                                       *)
(***************************************************************************)
EXTENDS CheckpointService, WorkflowService, FiniteSets

CONSTANTS
  Rpc,            \* the RPCs clients use, by name
  MaxToken        \* bound on the stored fencing token

ASSUME MaxTokenAssumption == MaxToken \in Nat \ {0}

KeyPoint == {"key_get", "key_read", "key_insert"}

\* Bounds: tokens to be stored, and UUIDs to be drawn, by calls in flight.
Room(r) ==
  /\ r.rpc = "start" =>
       Cardinality({c \in Call : at[c] = "start" /\ "token" \in todo[c]})
         + (IF fencingToken = None THEN 0 ELSE fencingToken) < MaxToken
  /\ r.rpc = "key" =>
       Cardinality({c \in Call : at[c] \in KeyPoint})
         < Cardinality(Uuid \ drawn)

Receive(c) ==
  /\ \E r \in Request(issued) :
       r.rpc \in Rpc /\ Room(r) /\ Accept(c, r)
  /\ UNCHANGED faults

Environment ==
  \/ \E c \in Call : Abandon(c)
  \/ Restart
  \/ \E p \in Position : LeaseEvict(p)
  \/ Tick

ServerStep ==
  \/ \E c \in Call : CheckpointServiceStep(c) \/ WorkflowServiceStep(c)
  \/ \E k \in Sweep : CleanupStep(k)
  \/ Environment

Init == ServerInit

Next == (\E c \in Call : Receive(c)) \/ ServerStep

Spec == Init /\ [][Next]_vars

-----------------------------------------------------------------------------
(* Types                                                                   *)

LeasePoint == {"lease_get", "lease_read", "lease_put"}
CheckpointPoint == {"checkpoint_read", "checkpoint_insert"}
CompletePoint == {"complete_read", "complete_update"}
Point == {Idle, "start", "release_delete"}
           \cup LeasePoint \cup CheckpointPoint \cup KeyPoint \cup CompletePoint

Statement == {"row", "token", "lease", "get", "delete"}

SweepFrame == [timestamp : Nat, todo : SUBSET {"tokens", "checkpoints"}]

StoresOK ==
  /\ workflow \in WorkflowRow \cup {None}
  /\ fencingToken \in Nat \cup {None}
  /\ checkpoints \in [Position -> CheckpointRow \cup {None}]
  /\ leases \in [Position -> LeaseEntry \cup {None}]
  /\ now \in Nat

FramesOK ==
  /\ at \in [Call -> Point]
  /\ arg \in [Call -> Request(Nat) \cup {None}]
  /\ todo \in [Call -> SUBSET Statement]
  /\ token \in [Call -> Nat \cup {None}]
  /\ lease \in [Call -> LeaseEntry \cup {None}]
  /\ expireAt \in [Call -> Nat \cup {None}]
  /\ reply \in [Call -> Reply \cup {None}]
  /\ sweep \in [Sweep -> SweepFrame \cup {None}]

BookkeepingOK ==
  /\ drawn \subseteq Uuid
  /\ issued \subseteq Nat
  /\ floor \in [Call -> Nat]
  /\ faults \in Nat

\* What a handler finds in its frame at each await: its own kind of request,
\* and the locals it has assigned by then.
FrameOK(c) ==
  /\ at[c] \in LeasePoint => arg[c] \in LeaseRequest(Nat)
  /\ at[c] \in CheckpointPoint => arg[c] \in CheckpointRequest(Nat)
  /\ at[c] \in KeyPoint => arg[c] \in KeyRequest(Nat)
  /\ at[c] \in CompletePoint => arg[c] \in CompleteRequest(Nat)
  /\ at[c] = "release_delete" => arg[c] \in ReleaseRequest
  /\ at[c] = "start" /\ "token" \notin todo[c] => token[c] \in Nat
  /\ at[c] \in {"lease_put", "checkpoint_insert", "key_insert"} =>
       token[c] \in Nat
  /\ at[c] = "lease_put" => lease[c] \in LeaseEntry
  /\ at[c] = "complete_update" => expireAt[c] \in Nat

\* Every row, cache entry, request, local and answer has the shape the code
\* gives it; in particular a handler never reads a local (token, lease,
\* expire_at) that no path to that await has assigned.
TypeOK ==
  StoresOK /\ FramesOK /\ BookkeepingOK /\ \A c \in Call : FrameOK(c)

-----------------------------------------------------------------------------
(* Fencing                                                                 *)

\* The calls about to give a worker something it may act on: a lease, a key,
\* or the news that its result was saved without an abort.
AboutToGrant(c) ==
  \/ at[c] \in {"lease_put", "key_insert"}
  \/ at[c] = "checkpoint_insert" /\ ~Stale(c)

\* A worker whose token had been superseded before it called is never given a
\* lease or a key and never told that its result counts, although the token
\* is read halfway through the call and other workers may start, save and be
\* cleaned up between any two of its statements.
Fenced ==
  \A c \in Call : AboutToGrant(c) => arg[c].fencing_token >= floor[c]

-----------------------------------------------------------------------------
(* Results                                                                 *)

StoredResult ==
  [p \in Position |->
     IF checkpoints[p] = None THEN None ELSE checkpoints[p].value]

ToldResult ==
  [c \in Call |->
     IF reply[c] # None /\ reply[c].kind = "value"
     THEN [position |-> reply[c].position, value |-> reply[c].value]
     ELSE None]

Results == INSTANCE WriteOnce
             WITH result <- StoredResult, answer <- ToldResult, Caller <- Call

\* Between one purge and the next the result of a position is written at most
\* once, by whichever of the racing calls inserts first, and every value any
\* lease call is answered with is that result.
ResultsWrittenOnce == Results!Spec

\* A checkpoint call answered without an error leaves a result in its
\* position, its own or an earlier one, for later calls to be answered with.
\* The exception is a position whose row was made by a generated key: it has
\* no value, and the row wins over the result.
AcknowledgedIsStored ==
  [][\A c \in Call :
       /\ at[c] = "checkpoint_insert"
       /\ reply'[c] # None /\ reply'[c].kind = "saved"
       => LET row == checkpoints'[arg[c].position]
          IN  row # None /\ (row.value # None \/ row.idempotency_key \in drawn)
    ]_vars

-----------------------------------------------------------------------------
(* Generated keys                                                          *)

StoredKey ==
  [p \in Position |->
     IF checkpoints[p] = None THEN None ELSE checkpoints[p].idempotency_key]

ToldKey ==
  [c \in Call |->
     IF reply[c] # None /\ reply[c].kind = "key"
     THEN [position |-> reply[c].position, value |-> reply[c].idempotency_key]
     ELSE None]

Keys == INSTANCE WriteOnce
          WITH result <- StoredKey, answer <- ToldKey, Caller <- Call,
               Value <- Key

\* The key generated for a position is stored there, and every caller that
\* asks for one is told that key.
DurableKeys == Keys!Spec
=============================================================================
