-------------------------- MODULE WorkflowsProofs --------------------------
(***************************************************************************)
(* The programs of Workflows, for any set of well-formed programs, any     *)
(* number of runs and faults, and any leases and retention: the types, the *)
(* results an execute is answered with, and what is kept until when.       *)
(***************************************************************************)
EXTENDS Workflows, FiniteSetTheorems, TLAPS

StoresRecord ==
  [workflow : WorkflowRow \cup {None}, fencingToken : Nat \cup {None},
   checkpoints : [Position -> CheckpointRow \cup {None}],
   leases : [Position -> LeaseEntry \cup {None}]]

FlowPoint == {"off", "starting", "going", "completing", "recovering",
              "completed", "failed", "crashed"}
TaskPoint == {"off", "ready", "keying", "leasing", "running", "releasing",
              "saving", "checkpointing", "returned", "threw", "crashed"}

FlowRecord == [pc : FlowPoint, step : Nat, fencing_token : Nat, position : Nat]
ExecRecord == [pc : TaskPoint, expiry : Nat, retried : BOOLEAN, key : Key]

FlowRequest ==
  [rpc : {"start"}]
    \cup [rpc : {"complete"}, expire_after : Nat, fencing_token : Nat]

\* What an RPC may answer, and what the caller takes from the answer.
AnswerOK(rpc, answer) ==
  /\ answer.kind \in {"error"} \cup
       CASE rpc = "start" -> {"token"}
         [] rpc = "complete" -> {"completed"}
         [] rpc = "key" -> {"key"}
         [] rpc = "lease" -> {"value", "wait", "granted"}
         [] rpc = "checkpoint" -> {"saved"}
         [] rpc = "release" -> {"released"}
  /\ answer.kind = "token" => answer.fencing_token \in Nat
  /\ answer.kind = "key" => answer.idempotency_key \in Key

\* The RPC that a workflow function or an execute awaits where it stands.
FlowAwaits(p, rpc) ==
  \/ p = "starting" /\ rpc = "start"
  \/ p \in {"completing", "recovering"} /\ rpc = "complete"
TaskAwaits(p, rpc) ==
  \/ p = "keying" /\ rpc = "key"
  \/ p = "leasing" /\ rpc = "lease"
  \/ p = "checkpointing" /\ rpc = "checkpoint"
  \/ p = "releasing" /\ rpc = "release"

FlowCallOK(r, w) ==
  LET c == call[r][w]
      p == flow[r][w].pc
  IN  /\ c.request \in FlowRequest
      /\ p # "crashed" => FlowAwaits(p, c.request.rpc)
      /\ c.answer # None => p # "crashed" /\ AnswerOK(c.request.rpc, c.answer)

TaskCallOK(r, t) ==
  LET c == call[r][t]
      p == exec[r][t].pc
  IN  /\ c.request \in TaskRequest /\ c.request.value = t
      /\ p # "crashed" => TaskAwaits(p, c.request.rpc)
      /\ c.answer # None => p # "crashed" /\ AnswerOK(c.request.rpc, c.answer)

StateInv ==
  /\ program \in Explored /\ now \in Nat
  /\ stores \in [Flow -> StoresRecord]
  /\ flow \in [Run -> [Flow -> FlowRecord]]
  /\ exec \in [Run -> [Task -> ExecRecord]]

CallsInv ==
  /\ call = [r \in Run |-> [a \in Activity |-> call[r][a]]]
  /\ \A r \in Run, w \in Flow : call[r][w] # None => FlowCallOK(r, w)
  /\ \A r \in Run, t \in Task : call[r][t] # None => TaskCallOK(r, t)

\* A run crashes as a whole.
CrashInv ==
  \A r \in Run :
    \/ /\ \A w \in Flow : flow[r][w].pc = "crashed"
       /\ \A t \in Task : exec[r][t].pc = "crashed"
    \/ /\ \A w \in Flow : flow[r][w].pc # "crashed"
       /\ \A t \in Task : exec[r][t].pc # "crashed"

\* The tasks of earlier steps have returned and those of later ones are not
\* yet executed; the position of a runner counts the tasks that returned.
ReturnedOf(r, w) == {t \in TasksOf(w) : exec[r][t].pc = "returned"}

StepsInv ==
  \A r \in Run, w \in Flow :
    flow[r][w].pc # "crashed" =>
      /\ flow[r][w].step <= Len(program.steps[w])
      /\ flow[r][w].position = Cardinality(ReturnedOf(r, w))
      /\ \A i \in DOMAIN program.steps[w] : \A t \in program.steps[w][i] :
           /\ i < flow[r][w].step => exec[r][t].pc = "returned"
           /\ i > flow[r][w].step => exec[r][t].pc = "off"

WorkflowsInv == StateInv /\ CallsInv /\ CrashInv /\ StepsInv

\* A handler that has been left in the middle is that of a call which is still
\* to be answered.
StageOK(r, a) ==
  LET q == call[r][a].request
  IN  /\ crossed /\ Pending(r, a) /\ q \in TaskRequest
      /\ \/ stage[r][a] \in {"rowless", "granting"} /\ q.rpc = "lease"
         \/ stage[r][a] \in {"saving", "aborting"} /\ q.rpc = "checkpoint"

StageInv ==
  /\ stage = [r \in Run |-> [a \in Activity |-> stage[r][a]]]
  /\ \A r \in Run, a \in Activity : stage[r][a] # "all" => StageOK(r, a)
-----------------------------------------------------------------------------
(* What a well-formed program is like.                                     *)

LEMMA ProgramIs ==
  ASSUME program \in Explored
  PROVE  /\ "outer" \in Flow
         /\ \A t \in Task : HasInner(t) => program.inner[t] \in Flow
         /\ \A w \in Flow :
              /\ program.steps[w] \in Seq(SUBSET (Key \cap Value))
              /\ TasksOf(w) \cap Flow = {}
              /\ IsFiniteSet(TasksOf(w))
              /\ Cardinality(TasksOf(w)) <= Cardinality(Position)
         /\ \A v, w \in Flow : v # w => TasksOf(v) \cap TasksOf(w) = {}
         /\ \A w \in Flow : \A i, j \in DOMAIN program.steps[w] :
              i # j => program.steps[w][i] \cap program.steps[w][j] = {}
<1>1. WellFormed(program)
  BY ProgramAssumption
<1>2. /\ "outer" \in Flow
      /\ \A t \in Task : HasInner(t) => program.inner[t] \in Flow
  BY <1>1 DEF WellFormed, Flow, HasInner
<1>3. \A w \in Flow :
        /\ program.steps[w] \in Seq(SUBSET (Key \cap Value))
        /\ TasksOf(w) \cap Flow = {}
        /\ IsFiniteSet(TasksOf(w))
        /\ Cardinality(TasksOf(w)) <= Cardinality(Position)
  BY <1>1, Zenon DEF WellFormed, Flow, TasksOf
<1>4. \A v, w \in Flow : v # w => TasksOf(v) \cap TasksOf(w) = {}
  BY <1>1, Zenon DEF WellFormed, Flow, TasksOf
<1>5. \A w \in Flow : \A i, j \in DOMAIN program.steps[w] :
        i # j => program.steps[w][i] \cap program.steps[w][j] = {}
  BY <1>1, Zenon DEF WellFormed, Flow
<1> QED
  BY <1>2, <1>3, <1>4, <1>5, Zenon

\* A task belongs to one workflow, and to one step of it.
LEMMA TaskIs ==
  ASSUME program \in Explored, NEW t \in Task
  PROVE  /\ t \in Key /\ t \in Value /\ t \notin Flow
         /\ FlowOf(t) \in Flow /\ t \in TasksOf(FlowOf(t))
         /\ \A w \in Flow : t \in TasksOf(w) => w = FlowOf(t)
<1>1. PICK w \in Flow : t \in TasksOf(w)
  BY DEF Task
<1>2. PICK i \in DOMAIN program.steps[w] : t \in program.steps[w][i]
  BY <1>1 DEF TasksOf
<1>3. t \in Key /\ t \in Value
  <2>1. program.steps[w] \in Seq(SUBSET (Key \cap Value))
    BY ProgramIs
  <2>2. program.steps[w][i] \in SUBSET (Key \cap Value)
    BY <2>1, <1>2
  <2> QED
    BY <2>2, <1>2
<1>4. t \notin Flow
  BY <1>1, ProgramIs
<1>5. \A v \in Flow : t = v \/ t \in TasksOf(v) <=> v = w
  BY <1>1, <1>4, ProgramIs
<1>6. FlowOf(t) = w
  BY <1>5, <1>1 DEF FlowOf
<1> QED
  BY <1>1, <1>3, <1>4, <1>5, <1>6

LEMMA FlowIs ==
  ASSUME program \in Explored, NEW w \in Flow
  PROVE  FlowOf(w) = w /\ w \notin Task
<1>1. \A v \in Flow : w \notin TasksOf(v)
  BY ProgramIs
<1>2. \A v \in Flow : w = v \/ w \in TasksOf(v) <=> v = w
  BY <1>1
<1> QED
  BY <1>1, <1>2 DEF FlowOf, Task

LEMMA StepIs ==
  ASSUME program \in Explored, NEW w \in Flow, NEW i \in DOMAIN program.steps[w]
  PROVE  /\ i \in Nat \ {0} /\ i <= Len(program.steps[w])
         /\ Len(program.steps[w]) \in Nat
         /\ program.steps[w][i] \subseteq TasksOf(w)
         /\ program.steps[w][i] \subseteq Task
<1>1. program.steps[w] \in Seq(SUBSET (Key \cap Value))
  BY ProgramIs
<1> QED
  BY <1>1 DEF TasksOf, Task

\* The program stays the same, and with it what is defined from it.
LEMMA SameProgram ==
  ASSUME program' = program
  PROVE  /\ Flow' = Flow /\ Task' = Task /\ Activity' = Activity
         /\ \A w : TasksOf(w)' = TasksOf(w)
BY DEF Flow, Task, Activity, TasksOf

LEMMA StepsAre ==
  ASSUME program \in Explored, NEW w \in Flow
  PROVE  /\ Len(program.steps[w]) \in Nat
         /\ DOMAIN program.steps[w] = 1 .. Len(program.steps[w])
<1>1. program.steps[w] \in Seq(SUBSET (Key \cap Value))
  BY ProgramIs
<1> QED
  BY <1>1
-----------------------------------------------------------------------------
(* Every step keeps the invariant.                                         *)

\* An execute that has not returned asks for a position of its workflow.
LEMMA PositionThere ==
  ASSUME WorkflowsInv, NEW r \in Run, NEW t \in Task,
         exec[r][t].pc \notin {"returned", "crashed"}
  PROVE  flow[r][FlowOf(t)].position \in Position
<1> DEFINE w == FlowOf(t)
<1>1. w \in Flow /\ t \in TasksOf(w)
  BY TaskIs DEF WorkflowsInv, StateInv
<1>2. flow[r][w].pc # "crashed"
  BY <1>1 DEF WorkflowsInv, CrashInv
<1>3. flow[r][w].position = Cardinality(ReturnedOf(r, w))
  BY <1>1, <1>2 DEF WorkflowsInv, StepsInv
<1>4. IsFiniteSet(TasksOf(w)) /\ Cardinality(TasksOf(w)) <= Cardinality(Position)
  BY <1>1, ProgramIs DEF WorkflowsInv, StateInv
<1>5. /\ IsFiniteSet(TasksOf(w) \ {t})
      /\ Cardinality(TasksOf(w) \ {t}) = Cardinality(TasksOf(w)) - 1
  BY <1>1, <1>4, FS_RemoveElement
<1>6. ReturnedOf(r, w) \subseteq TasksOf(w) \ {t}
  BY DEF ReturnedOf
<1>7. /\ IsFiniteSet(ReturnedOf(r, w))
      /\ Cardinality(ReturnedOf(r, w)) <= Cardinality(TasksOf(w) \ {t})
  BY <1>5, <1>6, FS_Subset
<1>8. /\ Cardinality(ReturnedOf(r, w)) \in Nat
      /\ Cardinality(TasksOf(w)) \in Nat
      /\ Cardinality(Position) \in Nat
  BY <1>4, <1>7, FS_CardinalityType, PositionsAssumption
<1> HIDE DEF w
<1>9. flow[r][w].position \in 0 .. Cardinality(Position) - 1
  BY <1>3, <1>4, <1>5, <1>7, <1>8
<1> QED
  BY <1>9, PositionsAssumption DEF w

LEMMA TypesStart == Init => WorkflowsInv
<1> SUFFICES ASSUME Init PROVE WorkflowsInv
  OBVIOUS
<1>1. program \in Explored
  BY DEF Init
<1>2. StateInv
  <2>1. stores \in [Flow -> StoresRecord]
    BY DEF Init, NewStores, StoresRecord
  <2>2. flow \in [Run -> [Flow -> FlowRecord]]
    BY DEF Init, FlowRecord, FlowPoint
  <2>3. exec \in [Run -> [Task -> ExecRecord]]
    <3>1. \A t \in Task : t \in Key
      BY <1>1, TaskIs
    <3> QED
      BY <3>1 DEF Init, ExecRecord, TaskPoint
  <2> QED
    BY <1>1, <2>1, <2>2, <2>3 DEF StateInv, Init
<1>3. CallsInv
  BY DEF Init, CallsInv, Activity
<1>4. CrashInv
  BY DEF Init, CrashInv
<1>5. StepsInv
  <2> SUFFICES ASSUME NEW r \in Run, NEW w \in Flow
               PROVE  /\ flow[r][w].step <= Len(program.steps[w])
                      /\ flow[r][w].position = Cardinality(ReturnedOf(r, w))
                      /\ \A i \in DOMAIN program.steps[w] :
                           \A t \in program.steps[w][i] :
                             /\ ~ i < flow[r][w].step
                             /\ exec[r][t].pc = "off"
    BY DEF StepsInv
  <2>1. flow[r][w].step = 0 /\ flow[r][w].position = 0
    BY DEF Init
  <2>2. \A t \in Task : exec[r][t].pc = "off"
    BY DEF Init
  <2>3. ReturnedOf(r, w) = {}
    BY <2>2 DEF ReturnedOf, Task
  <2>4. Cardinality(ReturnedOf(r, w)) = 0
    BY <2>3, FS_EmptySet
  <2>5. Len(program.steps[w]) \in Nat
    BY <1>1, StepsAre
  <2> QED
    BY <1>1, <2>1, <2>2, <2>4, <2>5, StepIs
<1> QED
  BY <1>2, <1>3, <1>4, <1>5 DEF WorkflowsInv

\* A workflow function gets on, and makes a call or is done with one.
LEMMA FlowMoves ==
  ASSUME WorkflowsInv, NEW r \in Run, NEW w \in Flow, NEW f \in FlowRecord,
         NEW c,
         UNCHANGED <<program, stores, exec, now>>,
         flow' = [flow EXCEPT ![r][w] = f],
         call' = [call EXCEPT ![r][w] = c],
         flow[r][w].pc # "crashed", f.pc # "crashed",
         f.step = flow[r][w].step, f.position = flow[r][w].position,
         c # None => /\ c.request \in FlowRequest
                     /\ FlowAwaits(f.pc, c.request.rpc)
                     /\ c.answer = None
  PROVE  WorkflowsInv'
<1> USE DEF WorkflowsInv
<1>p. program \in Explored
  BY DEF StateInv
<1>s. Flow' = Flow /\ Task' = Task /\ Activity' = Activity
      /\ \A v : TasksOf(v)' = TasksOf(v)
  BY SameProgram
<1>f. /\ flow'[r][w] = f
      /\ \A s \in Run, v \in Flow : <<s, v>> # <<r, w>> =>
           flow'[s][v] = flow[s][v]
  BY DEF StateInv
<1>c. /\ call'[r][w] = c
      /\ \A s \in Run, a \in Activity : <<s, a>> # <<r, w>> =>
           call'[s][a] = call[s][a]
      /\ call' = [s \in Run |-> [a \in Activity |-> call'[s][a]]]
  BY DEF CallsInv, Activity
<1>1. StateInv'
  BY <1>s DEF StateInv
<1>2. CallsInv'
  <2>1. ASSUME NEW s \in Run, NEW v \in Flow, call'[s][v] # None
        PROVE  FlowCallOK(s, v)'
    <3>1. CASE s = r /\ v = w
      BY <1>f, <1>c, <2>1, <3>1 DEF FlowCallOK
    <3>2. CASE ~(s = r /\ v = w)
      <4>1. call'[s][v] = call[s][v] /\ flow'[s][v] = flow[s][v]
        BY <1>f, <1>c, <3>2 DEF Activity
      <4>2. FlowCallOK(s, v)
        BY <2>1, <4>1 DEF CallsInv
      <4> QED
        BY <4>1, <4>2 DEF FlowCallOK
    <3> QED
      BY <3>1, <3>2
  <2>2. ASSUME NEW s \in Run, NEW t \in Task, call'[s][t] # None
        PROVE  TaskCallOK(s, t)'
    <3>1. call'[s][t] = call[s][t]
      BY <1>c, <1>p, FlowIs DEF Activity
    <3>2. TaskCallOK(s, t)
      BY <2>2, <3>1 DEF CallsInv
    <3> QED
      BY <3>1, <3>2 DEF TaskCallOK
  <2> QED
    BY <1>s, <1>c, <2>1, <2>2 DEF CallsInv
<1>3. CrashInv'
  BY <1>s, <1>f DEF CrashInv
<1>4. StepsInv'
  <2>1. \A s \in Run, v \in Flow :
          /\ flow'[s][v].step = flow[s][v].step
          /\ flow'[s][v].position = flow[s][v].position
          /\ flow'[s][v].pc # "crashed" => flow[s][v].pc # "crashed"
    BY <1>f
  <2>2. \A s \in Run, v \in Flow : ReturnedOf(s, v)' = ReturnedOf(s, v)
    BY <1>s DEF ReturnedOf
  <2> QED
    BY <1>s, <2>1, <2>2 DEF StepsInv
<1> QED
  BY <1>1, <1>2, <1>3, <1>4

\* The step of the workflow a task is in that is under way.
LEMMA AtWork ==
  ASSUME WorkflowsInv, NEW r \in Run, NEW t \in Task,
         exec[r][t].pc \notin {"off", "returned", "crashed"},
         NEW w \in Flow, NEW i \in DOMAIN program.steps[w],
         t \in program.steps[w][i]
  PROVE  flow[r][w].step = i
<1>1. flow[r][w].pc # "crashed"
  BY DEF WorkflowsInv, CrashInv
<1>2. ~ i < flow[r][w].step /\ ~ i > flow[r][w].step
  BY <1>1 DEF WorkflowsInv, StepsInv
<1>3. i \in Nat /\ flow[r][w].step \in Nat
  BY StepIs DEF WorkflowsInv, StateInv, FlowRecord
<1> QED
  BY <1>2, <1>3

\* An execute gets on without returning.
LEMMA TaskMoves ==
  ASSUME WorkflowsInv, NEW r \in Run, NEW t \in Task, NEW e \in ExecRecord,
         NEW c,
         UNCHANGED <<program, stores, flow, now>>,
         exec' = [exec EXCEPT ![r][t] = e],
         call' = [call EXCEPT ![r][t] = c],
         exec[r][t].pc \notin {"off", "returned", "crashed"},
         e.pc \notin {"off", "returned", "crashed"},
         c # None => /\ c.request \in TaskRequest /\ c.request.value = t
                     /\ TaskAwaits(e.pc, c.request.rpc)
                     /\ c.answer = None
  PROVE  WorkflowsInv'
<1> USE DEF WorkflowsInv
<1>p. program \in Explored
  BY DEF StateInv
<1>s. Flow' = Flow /\ Task' = Task /\ Activity' = Activity
      /\ \A v : TasksOf(v)' = TasksOf(v)
  BY SameProgram
<1>e. /\ exec'[r][t] = e
      /\ \A s \in Run, u \in Task : <<s, u>> # <<r, t>> =>
           exec'[s][u] = exec[s][u]
  BY DEF StateInv
<1>c. /\ call'[r][t] = c
      /\ \A s \in Run, a \in Activity : <<s, a>> # <<r, t>> =>
           call'[s][a] = call[s][a]
      /\ call' = [s \in Run |-> [a \in Activity |-> call'[s][a]]]
  BY DEF CallsInv, Activity
<1>1. StateInv'
  BY <1>s DEF StateInv
<1>2. CallsInv'
  <2>1. ASSUME NEW s \in Run, NEW u \in Task, call'[s][u] # None
        PROVE  TaskCallOK(s, u)'
    <3>1. CASE s = r /\ u = t
      BY <1>e, <1>c, <2>1, <3>1 DEF TaskCallOK
    <3>2. CASE ~(s = r /\ u = t)
      <4>1. call'[s][u] = call[s][u] /\ exec'[s][u] = exec[s][u]
        BY <1>e, <1>c, <3>2 DEF Activity
      <4>2. TaskCallOK(s, u)
        BY <2>1, <4>1 DEF CallsInv
      <4> QED
        BY <4>1, <4>2 DEF TaskCallOK
    <3> QED
      BY <3>1, <3>2
  <2>2. ASSUME NEW s \in Run, NEW v \in Flow, call'[s][v] # None
        PROVE  FlowCallOK(s, v)'
    <3>1. call'[s][v] = call[s][v]
      BY <1>c, <1>p, FlowIs DEF Activity
    <3>2. FlowCallOK(s, v)
      BY <2>2, <3>1 DEF CallsInv
    <3> QED
      BY <3>1, <3>2 DEF FlowCallOK
  <2> QED
    BY <1>s, <1>c, <2>1, <2>2 DEF CallsInv
<1>3. CrashInv'
  BY <1>s, <1>e DEF CrashInv
<1>4. StepsInv'
  <2>1. \A s \in Run, u \in Task :
          exec'[s][u].pc = "returned" <=> exec[s][u].pc = "returned"
    BY <1>e
  <2>2. \A s \in Run, v \in Flow : ReturnedOf(s, v)' = ReturnedOf(s, v)
    BY <1>s, <2>1 DEF ReturnedOf, Task
  <2>3. ASSUME NEW s \in Run, NEW v \in Flow, flow[s][v].pc # "crashed",
               NEW i \in DOMAIN program.steps[v], NEW u \in program.steps[v][i]
        PROVE  /\ i < flow[s][v].step => exec'[s][u].pc = "returned"
               /\ i > flow[s][v].step => exec'[s][u].pc = "off"
    <3>1. u \in Task /\ i \in Nat
      BY <1>p, StepIs
    <3>2. CASE <<s, u>> = <<r, t>>
      <4>1. flow[s][v].step = i
        BY <3>2, AtWork
      <4> QED
        BY <3>1, <4>1
    <3>3. CASE <<s, u>> # <<r, t>>
      BY <1>e, <2>3, <3>1, <3>3 DEF StepsInv
    <3> QED
      BY <3>2, <3>3
  <2> QED
    BY <1>s, <2>2, <2>3 DEF StepsInv
<1> QED
  BY <1>1, <1>2, <1>3, <1>4

\* An execute returns.
LEMMA TaskDone ==
  ASSUME WorkflowsInv, NEW r \in Run, NEW t \in Task,
         UNCHANGED <<program, stores, now>>, Return(r, t),
         call' = [call EXCEPT ![r][t] = None],
         exec[r][t].pc \notin {"off", "returned", "crashed"}
  PROVE  WorkflowsInv'
<1> USE DEF WorkflowsInv
<1> DEFINE w == FlowOf(t)
<1>p. program \in Explored
  BY DEF StateInv
<1>w. w \in Flow /\ t \in TasksOf(w)
      /\ \A v \in Flow : t \in TasksOf(v) => v = w
  BY <1>p, TaskIs
<1>s. Flow' = Flow /\ Task' = Task /\ Activity' = Activity
      /\ \A v : TasksOf(v)' = TasksOf(v)
  BY SameProgram
<1>f. flow' = [flow EXCEPT ![r][w].position = @ + 1]
  BY DEF Return
<1> HIDE DEF w
<1>e. /\ exec' \in [Run -> [Task -> ExecRecord]]
      /\ exec'[r][t].pc = "returned"
      /\ \A s \in Run, u \in Task : <<s, u>> # <<r, t>> =>
           exec'[s][u] = exec[s][u]
  <2>1. exec[r][t] \in ExecRecord
    BY DEF StateInv
  <2>2. Returned(exec[r][t]) \in ExecRecord /\ Returned(exec[r][t]).pc = "returned"
    BY <2>1 DEF Returned, ExecRecord, TaskPoint
  <2>3. exec' = [exec EXCEPT ![r][t] = Returned(exec[r][t])]
    BY DEF Return, StateInv
  <2> QED
    BY <2>2, <2>3 DEF StateInv
<1>g. /\ flow' \in [Run -> [Flow -> FlowRecord]]
      /\ flow'[r][w].position = flow[r][w].position + 1
      /\ \A s \in Run, v \in Flow :
           /\ flow'[s][v].pc = flow[s][v].pc
           /\ flow'[s][v].step = flow[s][v].step
           /\ <<s, v>> # <<r, w>> =>
                flow'[s][v].position = flow[s][v].position
  <2>1. flow \in [Run -> [Flow -> FlowRecord]]
    BY DEF StateInv
  <2>2. flow[r][w] \in FlowRecord
    BY <2>1, <1>w
  <2> DEFINE f == [flow[r][w] EXCEPT !.position = flow[r][w].position + 1]
  <2>3. /\ f \in FlowRecord /\ f.position = flow[r][w].position + 1
        /\ f.pc = flow[r][w].pc /\ f.step = flow[r][w].step
    BY <2>2 DEF FlowRecord
  <2>4. flow' = [flow EXCEPT ![r][w] = f]
    BY <1>f, <1>w, <2>1
  <2> HIDE DEF f
  <2> QED
    BY <2>1, <2>3, <2>4, <1>w
<1>c. /\ call'[r][t] = None
      /\ \A s \in Run, a \in Activity : <<s, a>> # <<r, t>> =>
           call'[s][a] = call[s][a]
      /\ call' = [s \in Run |-> [a \in Activity |-> call'[s][a]]]
  BY DEF CallsInv, Activity
<1>1. StateInv'
  BY <1>s, <1>e, <1>g DEF StateInv
<1>2. CallsInv'
  <2>1. ASSUME NEW s \in Run, NEW u \in Task, call'[s][u] # None
        PROVE  TaskCallOK(s, u)'
    <3>1. <<s, u>> # <<r, t>>
      BY <1>c, <2>1
    <3>2. call'[s][u] = call[s][u] /\ exec'[s][u] = exec[s][u]
      BY <1>e, <1>c, <3>1 DEF Activity
    <3>3. TaskCallOK(s, u)
      BY <2>1, <3>2 DEF CallsInv
    <3> QED
      BY <3>2, <3>3 DEF TaskCallOK
  <2>2. ASSUME NEW s \in Run, NEW v \in Flow, call'[s][v] # None
        PROVE  FlowCallOK(s, v)'
    <3>1. call'[s][v] = call[s][v]
      BY <1>c, <1>p, FlowIs DEF Activity
    <3>2. FlowCallOK(s, v)
      BY <2>2, <3>1 DEF CallsInv
    <3> QED
      BY <1>g, <3>1, <3>2 DEF FlowCallOK
  <2> QED
    BY <1>s, <1>c, <2>1, <2>2 DEF CallsInv
<1>3. CrashInv'
  <2>1. \A s \in Run, u \in Task :
          exec'[s][u].pc = "crashed" <=> exec[s][u].pc = "crashed"
    BY <1>e
  <2>2. \A s \in Run, v \in Flow : flow'[s][v].pc = flow[s][v].pc
    BY <1>g
  <2> QED
    BY <1>s, <2>1, <2>2 DEF CrashInv
<1>4. StepsInv'
  <2> SUFFICES ASSUME NEW s \in Run, NEW v \in Flow, flow[s][v].pc # "crashed"
               PROVE  /\ flow[s][v].step <= Len(program.steps[v])
                      /\ flow'[s][v].position = Cardinality(ReturnedOf(s, v)')
                      /\ \A i \in DOMAIN program.steps[v] :
                           \A u \in program.steps[v][i] :
                             /\ i < flow[s][v].step => exec'[s][u].pc = "returned"
                             /\ i > flow[s][v].step => exec'[s][u].pc = "off"
    <3>1. \A s \in Run, v \in Flow : /\ flow'[s][v].pc = flow[s][v].pc
                                      /\ flow'[s][v].step = flow[s][v].step
      BY <1>g
    <3>2. Flow' = Flow /\ program' = program
      BY <1>s
    <3> QED
      BY <3>1, <3>2 DEF StepsInv
  <2>1. /\ flow[s][v].step <= Len(program.steps[v])
        /\ flow[s][v].position = Cardinality(ReturnedOf(s, v))
    BY DEF StepsInv
  <2>2. \A u \in TasksOf(v) : u \in Task
    BY DEF Task
  <2>3. CASE <<s, v>> = <<r, w>>
    <3>1. ReturnedOf(s, v)' = ReturnedOf(s, v) \cup {t}
      BY <1>s, <1>w, <1>e, <2>2, <2>3 DEF ReturnedOf
    <3>2. t \notin ReturnedOf(s, v)
      BY <2>3 DEF ReturnedOf
    <3>3. IsFiniteSet(ReturnedOf(s, v))
      <4>1. IsFiniteSet(TasksOf(v))
        BY <1>p, ProgramIs
      <4> QED
        BY <4>1, FS_Subset DEF ReturnedOf
    <3>4. Cardinality(ReturnedOf(s, v) \cup {t}) = Cardinality(ReturnedOf(s, v)) + 1
      BY <3>2, <3>3, FS_AddElement
    <3>5. flow'[s][v].position = Cardinality(ReturnedOf(s, v)')
      BY <1>g, <2>1, <2>3, <3>1, <3>4
    <3>6. ASSUME NEW i \in DOMAIN program.steps[v], NEW u \in program.steps[v][i]
          PROVE  /\ i < flow[s][v].step => exec'[s][u].pc = "returned"
                 /\ i > flow[s][v].step => exec'[s][u].pc = "off"
      <4>1. u \in Task /\ i \in Nat
        BY <1>p, StepIs
      <4>2. CASE u = t
        <5>1. flow[s][v].step = i
          BY <2>3, <4>2, AtWork
        <5> QED
          BY <4>1, <5>1
      <4>3. CASE u # t
        <5>1. exec'[s][u] = exec[s][u]
          BY <1>e, <2>3, <4>1, <4>3
        <5> QED
          BY <5>1 DEF StepsInv
      <4> QED
        BY <4>2, <4>3
    <3> QED
      BY <2>1, <3>5, <3>6
  <2>4. CASE <<s, v>> # <<r, w>>
    <3>1. \A u \in TasksOf(v) : exec'[s][u] = exec[s][u]
      BY <1>w, <1>e, <2>2, <2>4
    <3>2. ReturnedOf(s, v)' = ReturnedOf(s, v)
      BY <1>s, <3>1 DEF ReturnedOf
    <3>3. ASSUME NEW i \in DOMAIN program.steps[v], NEW u \in program.steps[v][i]
          PROVE  /\ i < flow[s][v].step => exec'[s][u].pc = "returned"
                 /\ i > flow[s][v].step => exec'[s][u].pc = "off"
      BY <1>p, <3>1, StepIs DEF StepsInv
    <3> QED
      BY <1>g, <2>1, <2>4, <3>2, <3>3
  <2> QED
    BY <2>3, <2>4
<1> QED
  BY <1>1, <1>2, <1>3, <1>4

\* The server handles a call, or forgets it, or gets on with work of its own.
LEMMA ServerMoves ==
  ASSUME WorkflowsInv, UNCHANGED <<program, flow, exec>>,
         stores' \in [Flow -> StoresRecord], now' \in Nat,
         call' = [r \in Run |-> [a \in Activity |-> call'[r][a]]],
         \A r \in Run, a \in Activity :
           \/ call'[r][a] = call[r][a]
           \/ call'[r][a] = None
           \/ /\ call[r][a] # None /\ Alive(r, a)
              /\ call'[r][a].request = call[r][a].request
              /\ AnswerOK(call[r][a].request.rpc, call'[r][a].answer)
  PROVE  WorkflowsInv'
<1> USE DEF WorkflowsInv
<1>p. program \in Explored
  BY DEF StateInv
<1>s. Flow' = Flow /\ Task' = Task /\ Activity' = Activity
      /\ \A v : TasksOf(v)' = TasksOf(v)
  BY SameProgram
<1>1. StateInv'
  BY <1>s DEF StateInv
<1>2. CallsInv'
  <2>1. ASSUME NEW r \in Run, NEW t \in Task, call'[r][t] # None
        PROVE  TaskCallOK(r, t)'
    <3>1. t \in Activity /\ t \notin Flow
      BY <1>p, TaskIs DEF Activity
    <3>2. CASE call'[r][t] = call[r][t]
      <4>1. TaskCallOK(r, t)
        BY <2>1, <3>2 DEF CallsInv
      <4> QED
        BY <3>2, <4>1 DEF TaskCallOK
    <3>3. CASE /\ call[r][t] # None /\ Alive(r, t)
               /\ call'[r][t].request = call[r][t].request
               /\ AnswerOK(call[r][t].request.rpc, call'[r][t].answer)
      <4>1. exec[r][t].pc # "crashed"
        BY <3>1, <3>3 DEF Alive
      <4>2. TaskCallOK(r, t)
        BY <3>3 DEF CallsInv
      <4> QED
        BY <3>3, <4>1, <4>2 DEF TaskCallOK
    <3> QED
      BY <2>1, <3>1, <3>2, <3>3
  <2>2. ASSUME NEW r \in Run, NEW w \in Flow, call'[r][w] # None
        PROVE  FlowCallOK(r, w)'
    <3>1. w \in Activity
      BY DEF Activity
    <3>2. CASE call'[r][w] = call[r][w]
      <4>1. FlowCallOK(r, w)
        BY <2>2, <3>2 DEF CallsInv
      <4> QED
        BY <3>2, <4>1 DEF FlowCallOK
    <3>3. CASE /\ call[r][w] # None /\ Alive(r, w)
               /\ call'[r][w].request = call[r][w].request
               /\ AnswerOK(call[r][w].request.rpc, call'[r][w].answer)
      <4>1. flow[r][w].pc # "crashed"
        BY <3>3 DEF Alive
      <4>2. FlowCallOK(r, w)
        BY <3>3 DEF CallsInv
      <4> QED
        BY <3>3, <4>1, <4>2 DEF FlowCallOK
    <3> QED
      BY <2>2, <3>1, <3>2, <3>3
  <2> QED
    BY <1>s, <2>1, <2>2 DEF CallsInv
<1>3. CrashInv'
  BY <1>s DEF CrashInv
<1>4. StepsInv'
  <2>1. \A r \in Run, v \in Flow : ReturnedOf(r, v)' = ReturnedOf(r, v)
    BY <1>s DEF ReturnedOf
  <2> QED
    BY <1>s, <2>1 DEF StepsInv
<1> QED
  BY <1>1, <1>2, <1>3, <1>4

-----------------------------------------------------------------------------
(* What an RPC does to the stores, and what it answers.                    *)

LEMMA RowsTyped ==
  /\ \A row \in WorkflowRow \cup {None} :
       /\ InsertWorkflow(row) \in WorkflowRow
       /\ \A n \in Nat : CompleteWorkflow(row, n) \in WorkflowRow \cup {None}
  /\ \A token \in Nat \cup {None} : IncrementToken(token) \in Nat
  /\ \A row \in CheckpointRow \cup {None}, k \in Key, v \in Value \cup {None} :
       InsertCheckpoint(row, k, v) \in CheckpointRow
BY NoneAssumption DEF WorkflowRow, CheckpointRow, InsertWorkflow,
   CompleteWorkflow, IncrementToken, InsertCheckpoint, Running, Completed
LEMMA StoresFields ==
  ASSUME NEW db \in StoresRecord
  PROVE  /\ db.workflow \in WorkflowRow \cup {None}
         /\ db.fencingToken \in Nat \cup {None}
         /\ db.checkpoints \in [Position -> CheckpointRow \cup {None}]
         /\ db.leases \in [Position -> LeaseEntry \cup {None}]
BY DEF StoresRecord

\* An RPC replaces one field of the stores, or two.
LEMMA FieldReplaced ==
  ASSUME NEW db \in StoresRecord
  PROVE  /\ \A row \in WorkflowRow \cup {None} :
              LET new == [db EXCEPT !.workflow = row]
              IN  /\ new \in StoresRecord /\ new.workflow = row
                  /\ new.checkpoints = db.checkpoints
         /\ \A rows \in [Position -> CheckpointRow \cup {None}] :
              LET new == [db EXCEPT !.checkpoints = rows]
              IN  /\ new \in StoresRecord /\ new.workflow = db.workflow
                  /\ new.checkpoints = rows
         /\ \A entries \in [Position -> LeaseEntry \cup {None}] :
              LET new == [db EXCEPT !.leases = entries]
              IN  /\ new \in StoresRecord /\ new.workflow = db.workflow
                  /\ new.checkpoints = db.checkpoints
         /\ \A token \in Nat \cup {None} :
              LET new == [db EXCEPT !.fencingToken = token]
              IN  /\ new \in StoresRecord /\ new.workflow = db.workflow
                  /\ new.checkpoints = db.checkpoints
BY DEF StoresRecord

LEMMA CountedIs ==
  ASSUME NEW db \in StoresRecord
  PROVE  /\ Counted(db) \in StoresRecord
         /\ Counted(db).fencingToken \in Nat
         /\ Counted(db).workflow = db.workflow
         /\ Counted(db).checkpoints = db.checkpoints
BY RowsTyped DEF Counted, StoresRecord

LEMMA FreedIs ==
  ASSUME NEW db \in StoresRecord, NEW p \in Position
  PROVE  /\ Freed(db, p) \in StoresRecord
         /\ Freed(db, p).workflow = db.workflow
         /\ Freed(db, p).checkpoints = db.checkpoints
BY DEF Freed, StoresRecord

\* The row is inserted or not.
LEMMA StartIs ==
  ASSUME NEW db \in StoresRecord, NEW o \in StartRpc(db)
  PROVE  /\ o.stores \in StoresRecord
         /\ o.reply.kind = "token" /\ o.reply.fencing_token \in Nat
         /\ o.stores.checkpoints = db.checkpoints
         /\ o.stores.workflow \in {InsertWorkflow(db.workflow), db.workflow}
<1> DEFINE c == Counted(db)
<1>1. PICK row \in {InsertWorkflow(db.workflow), db.workflow} :
        o = Outcome([c EXCEPT !.workflow = row],
                    [kind |-> "token", fencing_token |-> c.fencingToken])
  BY DEF StartRpc
<1>2. row \in WorkflowRow \cup {None}
  BY RowsTyped, StoresFields
<1>3. /\ c \in StoresRecord /\ c.fencingToken \in Nat
      /\ c.checkpoints = db.checkpoints
  BY CountedIs
<1> HIDE DEF c
<1> DEFINE new == [c EXCEPT !.workflow = row]
<1>4. /\ new \in StoresRecord /\ new.workflow = row
      /\ new.checkpoints = c.checkpoints
  BY <1>2, <1>3, FieldReplaced
<1> HIDE DEF new
<1>5. /\ o.stores = new
      /\ o.reply = [kind |-> "token", fencing_token |-> c.fencingToken]
  BY <1>1 DEF Outcome, new
<1> QED
  BY <1>1, <1>3, <1>4, <1>5

\* A value is that of the row, whose key is the request's; a lease is given
\* only where there is no row.
LEMMA GrantingIs ==
  ASSUME NEW db \in StoresRecord, NEW q \in TaskRequest, NEW n \in Nat
  PROVE  LET o == Granting(db, q, n)
         IN  /\ o.stores \in StoresRecord /\ o.reply = [kind |-> "granted"]
             /\ o.stores.checkpoints = db.checkpoints
             /\ o.stores.workflow = db.workflow
<1> DEFINE granted == [created_at |-> n, lease_timeout |-> q.lease_timeout]
           new == [db EXCEPT !.leases[q.position] = granted]
<1>1. q.position \in Position /\ granted \in LeaseEntry
  BY DEF TaskRequest, LeaseEntry
<1>2. db.leases \in [Position -> LeaseEntry \cup {None}]
  BY StoresFields
<1>3. [db.leases EXCEPT ![q.position] = granted]
        \in [Position -> LeaseEntry \cup {None}]
  BY <1>1, <1>2
<1>4. new = [db EXCEPT !.leases = [db.leases EXCEPT ![q.position] = granted]]
  BY DEF StoresRecord
<1>5. /\ new \in StoresRecord /\ new.workflow = db.workflow
      /\ new.checkpoints = db.checkpoints
  BY <1>3, <1>4, FieldReplaced
<1>6. Granting(db, q, n) = Outcome(new, [kind |-> "granted"])
  BY DEF Granting
<1> HIDE DEF new
<1> QED
  BY <1>5, <1>6 DEF Outcome

LEMMA LeaseIs ==
  ASSUME NEW db \in StoresRecord, NEW q \in TaskRequest, NEW n \in Nat,
         NEW o \in LeaseRpc(db, q, n)
  PROVE  LET row == db.checkpoints[q.position]
         IN  /\ o.stores \in StoresRecord
             /\ o.reply.kind \in {"value", "wait", "granted", "error"}
             /\ o.stores.checkpoints = db.checkpoints
             /\ o.stores.workflow = db.workflow
             /\ o.reply.kind = "value" =>
                  /\ row # None /\ row.idempotency_key = q.idempotency_key
                  /\ row.value # None /\ o.reply.value = row.value
             /\ o.reply.kind = "granted" => row = None
<1> DEFINE row == db.checkpoints[q.position]
           left == RemainingLease(db.leases[q.position], n)
<1>1. CASE /\ row # None /\ row.idempotency_key = q.idempotency_key
           /\ row.value # None
           /\ o = Outcome(db, [kind |-> "value", position |-> q.position,
                               value |-> row.value])
  BY <1>1 DEF Outcome
<1>2. CASE o = Outcome(db, [kind |-> "wait", remaining |-> left])
  BY <1>2 DEF Outcome
<1>3. CASE \E code : o = Refusal(db, code)
  BY <1>3 DEF Outcome, Refusal
<1>4. CASE row = None /\ o = Granting(db, q, n)
  <2>1. /\ o.stores \in StoresRecord /\ o.reply = [kind |-> "granted"]
        /\ o.stores.checkpoints = db.checkpoints
        /\ o.stores.workflow = db.workflow
    BY <1>4, GrantingIs
  <2> QED
    BY <1>4, <2>1
<1> QED
  BY <1>1, <1>2, <1>3, <1>4 DEF LeaseRpc

\* Without a row there is no result to answer with.
LEMMA DenialIs ==
  ASSUME NEW db \in StoresRecord, NEW q \in TaskRequest, NEW n \in Nat,
         NEW o \in LeaseRpcDenies(db, q, n)
  PROVE  o.stores = db /\ o.reply.kind \in {"wait", "error"}
<1> DEFINE rows == [db.checkpoints EXCEPT ![q.position] = None]
           new == [db EXCEPT !.checkpoints = rows]
<1>1. q.position \in Position
  BY DEF TaskRequest
<1>2. /\ rows \in [Position -> CheckpointRow \cup {None}]
      /\ rows[q.position] = None
  BY <1>1, StoresFields
<1>3. LeaseRpcWithoutRow(db, q, n) = LeaseRpc(new, q, n)
  BY DEF LeaseRpcWithoutRow, StoresRecord
<1>4. new \in StoresRecord /\ new.checkpoints = rows
  BY <1>2, FieldReplaced
<1>5. PICK p \in LeaseRpcWithoutRow(db, q, n) :
        p.reply.kind # "granted" /\ o = Outcome(db, p.reply)
  BY DEF LeaseRpcDenies
<1> HIDE DEF new, rows
<1>6. /\ p.reply.kind \in {"value", "wait", "granted", "error"}
      /\ p.reply.kind = "value" => new.checkpoints[q.position] # None
  BY <1>3, <1>4, <1>5, LeaseIs
<1>7. o.stores = db /\ o.reply = p.reply
  BY <1>5 DEF Outcome
<1> QED
  BY <1>2, <1>4, <1>5, <1>6, <1>7

\* What is saved is a row of the request's key and value, where there was none.
LEMMA SavingIs ==
  ASSUME NEW db \in StoresRecord, NEW q \in TaskRequest, NEW abort
  PROVE  LET o == Saving(db, q, abort)
         IN  /\ o.stores \in StoresRecord /\ o.stores.workflow = db.workflow
             /\ o.reply.kind = "saved"
             /\ \A p \in Position \ {q.position} :
                  o.stores.checkpoints[p] = db.checkpoints[p]
             /\ o.stores.checkpoints[q.position] =
                  InsertCheckpoint(db.checkpoints[q.position],
                                   q.idempotency_key, q.value)
<1> DEFINE row == db.checkpoints[q.position]
           new == InsertCheckpoint(row, q.idempotency_key, q.value)
           rows == [db.checkpoints EXCEPT ![q.position] = new]
           saved == [db EXCEPT !.checkpoints[q.position] =
                       InsertCheckpoint(@, q.idempotency_key, q.value)]
<1>1. /\ q.position \in Position /\ q.idempotency_key \in Key
      /\ q.value \in Value
  BY DEF TaskRequest
<1>2. row \in CheckpointRow \cup {None}
  BY <1>1, StoresFields
<1>3. new \in CheckpointRow
  BY <1>1, <1>2, RowsTyped
<1>4. rows \in [Position -> CheckpointRow \cup {None}]
  BY <1>3, StoresFields
<1>5. saved = [db EXCEPT !.checkpoints = rows]
  BY DEF StoresRecord
<1>6. Saving(db, q, abort) = Outcome(saved, [kind |-> "saved", abort |-> abort])
  BY DEF Saving
<1>7. /\ rows[q.position] = new
      /\ \A p \in Position \ {q.position} : rows[p] = db.checkpoints[p]
  BY <1>1, <1>4, StoresFields
<1> HIDE DEF saved, rows, new
<1>8. /\ saved \in StoresRecord /\ saved.workflow = db.workflow
      /\ saved.checkpoints = rows
  BY <1>4, <1>5, FieldReplaced
<1> QED
  BY <1>6, <1>7, <1>8 DEF Outcome, new

LEMMA CheckpointIs ==
  ASSUME NEW db \in StoresRecord, NEW q \in TaskRequest, NEW n \in Nat,
         NEW o \in CheckpointRpc(db, q, n)
  PROVE  /\ o.stores \in StoresRecord
         /\ o.stores.workflow = db.workflow
         /\ \/ o.reply.kind = "error" /\ o.stores.checkpoints = db.checkpoints
            \/ /\ o.reply.kind = "saved"
               /\ \A p \in Position \ {q.position} :
                    o.stores.checkpoints[p] = db.checkpoints[p]
               /\ o.stores.checkpoints[q.position] =
                    InsertCheckpoint(db.checkpoints[q.position],
                                     q.idempotency_key, q.value)
<1> DEFINE freed == Freed(db, q.position)
<1>1. q.position \in Position
  BY DEF TaskRequest
<1>2. /\ freed \in StoresRecord /\ freed.workflow = db.workflow
      /\ freed.checkpoints = db.checkpoints
  BY <1>1, FreedIs
<1> HIDE DEF freed
<1>3. CASE \E code : o = Refusal(freed, code)
  BY <1>2, <1>3 DEF Outcome, Refusal
<1>4. CASE \E abort : o = Saving(freed, q, abort)
  BY <1>2, <1>4, SavingIs
<1> QED
  BY <1>3, <1>4 DEF CheckpointRpc, freed

LEMMA ReleaseIs ==
  ASSUME NEW db \in StoresRecord, NEW q \in TaskRequest,
         NEW o \in ReleaseRpc(db, q)
  PROVE  /\ o.stores \in StoresRecord /\ o.reply.kind = "released"
         /\ o.stores.checkpoints = db.checkpoints
         /\ o.stores.workflow = db.workflow
<1>1. q.position \in Position
  BY DEF TaskRequest
<1>2. o = Outcome(Freed(db, q.position), [kind |-> "released"])
  BY DEF ReleaseRpc
<1> QED
  BY <1>1, <1>2, FreedIs DEF Outcome

\* A key that is drawn is written to a row without a value.
LEMMA KeyIs ==
  ASSUME NEW db \in StoresRecord, NEW q \in TaskRequest,
         NEW o \in KeyRpc(db, q, Uuid)
  PROVE  /\ o.stores \in StoresRecord
         /\ o.reply.kind \in {"key", "error"}
         /\ o.reply.kind = "key" => o.reply.idempotency_key \in Key
         /\ o.stores.workflow = db.workflow
         /\ \/ o.stores.checkpoints = db.checkpoints
            \/ /\ db.checkpoints[q.position] = None
               /\ \A p \in Position \ {q.position} :
                    o.stores.checkpoints[p] = db.checkpoints[p]
               /\ \E k \in Uuid :
                    o.stores.checkpoints[q.position] =
                      [idempotency_key |-> k, value |-> None]
<1> DEFINE row == db.checkpoints[q.position]
<1>1. q.position \in Position
  BY DEF TaskRequest
<1>2. row \in CheckpointRow \cup {None}
  BY <1>1, StoresFields
<1>3. CASE row # None /\ \E reply : /\ reply.kind = "key"
                                    /\ reply.idempotency_key = row.idempotency_key
                                    /\ o = Outcome(db, reply)
  BY <1>2, <1>3 DEF Outcome, CheckpointRow
<1>4. CASE \E code : o = Refusal(db, code)
  BY <1>4 DEF Outcome, Refusal
<1>5. CASE /\ row = None
           /\ \E k \in Uuid : \E reply :
                /\ reply.kind = "key" /\ reply.idempotency_key = k
                /\ o = Outcome([db EXCEPT !.checkpoints[q.position] =
                                  InsertCheckpoint(@, k, None)], reply)
  <2>0. PICK k \in Uuid :
          \E reply : /\ reply.kind = "key" /\ reply.idempotency_key = k
                     /\ o = Outcome([db EXCEPT !.checkpoints[q.position] =
                                       InsertCheckpoint(@, k, None)], reply)
    BY <1>5
  <2>1. PICK reply :
          /\ reply.kind = "key" /\ reply.idempotency_key = k
          /\ o = Outcome([db EXCEPT !.checkpoints[q.position] =
                            InsertCheckpoint(@, k, None)], reply)
    BY <2>0
  <2> DEFINE new == [idempotency_key |-> k, value |-> None]
             rows == [db.checkpoints EXCEPT ![q.position] = new]
             drawn == [db EXCEPT !.checkpoints[q.position] =
                         InsertCheckpoint(@, k, None)]
  <2>2. k \in Key /\ new \in CheckpointRow
    BY WorkflowsAssumption DEF CheckpointRow
  <2>3. InsertCheckpoint(row, k, None) = new
    BY <1>5 DEF InsertCheckpoint
  <2>4. rows \in [Position -> CheckpointRow \cup {None}]
    BY <2>2, StoresFields
  <2>5. drawn = [db EXCEPT !.checkpoints = rows]
    BY <2>3 DEF StoresRecord
  <2> HIDE DEF drawn
  <2>6. /\ drawn \in StoresRecord /\ drawn.workflow = db.workflow
        /\ drawn.checkpoints = rows
    BY <2>4, <2>5, FieldReplaced
  <2>7. o.stores = drawn /\ o.reply = reply
    BY <2>1 DEF Outcome, drawn
  <2>8. /\ rows[q.position] = new
        /\ \A p \in Position \ {q.position} : rows[p] = db.checkpoints[p]
    BY <1>1, <2>4, StoresFields
  <2> HIDE DEF rows
  <2> QED
    BY <1>5, <2>1, <2>2, <2>6, <2>7, <2>8
<1> QED
  BY <1>3, <1>4, <1>5 DEF KeyRpc

LEMMA CompleteIs ==
  ASSUME NEW db \in StoresRecord, NEW n \in Nat, NEW q \in FlowRequest,
         q.rpc = "complete", NEW o \in CompleteRpc(db, q, n)
  PROVE  /\ o.stores \in StoresRecord
         /\ o.stores.checkpoints = db.checkpoints
         /\ \/ o.reply.kind = "error" /\ o.stores.workflow = db.workflow
            \/ /\ o.reply.kind = "completed"
               /\ o.stores.workflow =
                    CompleteWorkflow(db.workflow, n + q.expire_after)
<1> DEFINE row == CompleteWorkflow(db.workflow, n + q.expire_after)
           new == [db EXCEPT !.workflow = CompleteWorkflow(@, n + q.expire_after)]
<1>1. CASE \E code : o = Refusal(db, code)
  BY <1>1 DEF Outcome, Refusal
<1>2. CASE o = Outcome(new, [kind |-> "completed"])
  <2>1. n + q.expire_after \in Nat
    BY DEF FlowRequest
  <2>2. row \in WorkflowRow \cup {None}
    BY <2>1, RowsTyped, StoresFields
  <2>3. new = [db EXCEPT !.workflow = row]
    BY DEF StoresRecord
  <2>4. /\ new \in StoresRecord /\ new.workflow = row
        /\ new.checkpoints = db.checkpoints
    BY <2>2, <2>3, FieldReplaced
  <2>5. o.stores = new /\ o.reply = [kind |-> "completed"]
    BY <1>2 DEF Outcome
  <2> HIDE DEF new
  <2> QED
    BY <2>4, <2>5
<1> QED
  BY <1>1, <1>2 DEF CompleteRpc

Request == FlowRequest \cup TaskRequest

LEMMA OutcomesAre ==
  ASSUME NEW db, NEW q \in Request, NEW n, NEW o \in Outcomes(db, q, n, Uuid)
  PROVE  \/ q \in FlowRequest /\ q.rpc = "start" /\ o \in StartRpc(db)
         \/ q \in FlowRequest /\ q.rpc = "complete" /\ o \in CompleteRpc(db, q, n)
         \/ q \in TaskRequest /\ q.rpc = "lease" /\ o \in LeaseRpc(db, q, n)
         \/ q \in TaskRequest /\ q.rpc = "checkpoint" /\ o \in CheckpointRpc(db, q, n)
         \/ q \in TaskRequest /\ q.rpc = "release" /\ o \in ReleaseRpc(db, q)
         \/ q \in TaskRequest /\ q.rpc = "key" /\ o \in KeyRpc(db, q, Uuid)
<1>1. CASE q \in FlowRequest
  <2>1. q.rpc \in {"start", "complete"}
    BY <1>1 DEF FlowRequest
  <2> QED
    BY <1>1, <2>1 DEF Outcomes
<1>2. CASE q \in TaskRequest
  <2>1. q.rpc \in {"key", "lease", "checkpoint", "release"}
    BY <1>2 DEF TaskRequest
  <2> QED
    BY <1>2, <2>1 DEF Outcomes
<1> QED
  BY <1>1, <1>2 DEF Request

\* A handler that goes on in the middle of a call answers it without a lease,
\* grants the lease, or saves the result.
Piece(db, q, n, o) ==
  \/ q.rpc = "lease" /\ o.stores = db /\ o.reply.kind \in {"wait", "error"}
  \/ q.rpc = "lease" /\ o = Granting(db, q, n)
  \/ q.rpc = "checkpoint" /\ \E abort : o = Saving(db, q, abort)

MayDo(db, q, n, o) ==
  \/ o \in Outcomes(db, q, n, Uuid)
  \/ q \in TaskRequest /\ Piece(db, q, n, o)

LEMMA PieceIs ==
  ASSUME NEW db \in StoresRecord, NEW q \in TaskRequest, NEW n \in Nat, NEW o,
         Piece(db, q, n, o)
  PROVE  /\ o.stores \in StoresRecord /\ AnswerOK(q.rpc, o.reply)
         /\ o.stores.workflow = db.workflow
         /\ o.reply.kind \in {"wait", "error", "granted", "saved"}
         /\ \/ o.reply.kind # "saved" /\ o.stores.checkpoints = db.checkpoints
            \/ /\ o.reply.kind = "saved"
               /\ \A p \in Position \ {q.position} :
                    o.stores.checkpoints[p] = db.checkpoints[p]
               /\ o.stores.checkpoints[q.position] =
                    InsertCheckpoint(db.checkpoints[q.position],
                                     q.idempotency_key, q.value)
<1>1. CASE q.rpc = "lease" /\ o.stores = db /\ o.reply.kind \in {"wait", "error"}
  BY <1>1 DEF AnswerOK
<1>2. CASE q.rpc = "lease" /\ o = Granting(db, q, n)
  <2>1. /\ o.stores \in StoresRecord /\ o.reply = [kind |-> "granted"]
        /\ o.stores.workflow = db.workflow
        /\ o.stores.checkpoints = db.checkpoints
    BY <1>2, GrantingIs
  <2> QED
    BY <1>2, <2>1 DEF AnswerOK
<1>3. ASSUME q.rpc = "checkpoint", NEW abort, o = Saving(db, q, abort)
      PROVE  /\ o.stores \in StoresRecord /\ AnswerOK(q.rpc, o.reply)
             /\ o.stores.workflow = db.workflow /\ o.reply.kind = "saved"
             /\ \A p \in Position \ {q.position} :
                  o.stores.checkpoints[p] = db.checkpoints[p]
             /\ o.stores.checkpoints[q.position] =
                  InsertCheckpoint(db.checkpoints[q.position],
                                   q.idempotency_key, q.value)
  BY <1>3, SavingIs DEF AnswerOK
<1> QED
  BY <1>1, <1>2, <1>3 DEF Piece

LEMMA RpcTyped ==
  ASSUME NEW db \in StoresRecord, NEW q \in Request, NEW n \in Nat, NEW o,
         MayDo(db, q, n, o)
  PROVE  o.stores \in StoresRecord /\ AnswerOK(q.rpc, o.reply)
<1>1. CASE q.rpc = "start" /\ o \in StartRpc(db)
  BY <1>1, StartIs DEF AnswerOK
<1>2. CASE q \in FlowRequest /\ q.rpc = "complete" /\ o \in CompleteRpc(db, q, n)
  BY <1>2, CompleteIs DEF AnswerOK
<1>3. CASE q \in TaskRequest /\ q.rpc = "lease" /\ o \in LeaseRpc(db, q, n)
  <2>1. /\ o.stores \in StoresRecord
        /\ o.reply.kind \in {"value", "wait", "granted", "error"}
    BY <1>3, LeaseIs
  <2> QED
    BY <1>3, <2>1 DEF AnswerOK
<1>4. CASE q \in TaskRequest /\ q.rpc = "checkpoint" /\ o \in CheckpointRpc(db, q, n)
  <2>1. o.stores \in StoresRecord /\ o.reply.kind \in {"saved", "error"}
    BY <1>4, CheckpointIs
  <2> QED
    BY <1>4, <2>1 DEF AnswerOK
<1>5. CASE q \in TaskRequest /\ q.rpc = "release" /\ o \in ReleaseRpc(db, q)
  BY <1>5, ReleaseIs DEF AnswerOK
<1>6. CASE q \in TaskRequest /\ q.rpc = "key" /\ o \in KeyRpc(db, q, Uuid)
  BY <1>6, KeyIs DEF AnswerOK
<1>7. CASE q \in TaskRequest /\ Piece(db, q, n, o)
  BY <1>7, PieceIs
<1> QED
  BY <1>1, <1>2, <1>3, <1>4, <1>5, <1>6, <1>7, OutcomesAre DEF MayDo

\* What a handler does, wherever it has been left.
LEMMA AnyOutcomeIs ==
  ASSUME WorkflowsInv, StageInv, NEW r \in Run, NEW a \in Activity,
         FlowOf(a) \in Flow, NEW o \in AnyOutcome(r, a)
  PROVE  LET db == stores[FlowOf(a)]
             q == call[r][a].request
         IN  /\ MayDo(db, q, now, o)
             /\ ~crossed => o \in Outcomes(db, q, now, Uuid)
<1> DEFINE db == stores[FlowOf(a)]
           q == call[r][a].request
<1>1. db \in StoresRecord /\ now \in Nat
  BY DEF WorkflowsInv, StateInv
<1>2. CASE stage[r][a] = "all"
  BY <1>2 DEF AnyOutcome, MayDo
<1>3. CASE stage[r][a] # "all"
  <2>1. /\ crossed /\ q \in TaskRequest
        /\ \/ stage[r][a] \in {"rowless", "granting"} /\ q.rpc = "lease"
           \/ stage[r][a] \in {"saving", "aborting"} /\ q.rpc = "checkpoint"
    BY <1>3 DEF StageInv, StageOK
  <2>2. CASE stage[r][a] = "rowless"
    <3>1. o \in LeaseRpcDenies(db, q, now)
      BY <2>2 DEF AnyOutcome
    <3>2. o.stores = db /\ o.reply.kind \in {"wait", "error"}
      BY <1>1, <2>1, <3>1, DenialIs
    <3> QED
      BY <2>1, <2>2, <3>2 DEF MayDo, Piece
  <2>3. CASE stage[r][a] = "granting"
    BY <2>1, <2>3 DEF AnyOutcome, MayDo, Piece
  <2>4. CASE stage[r][a] = "saving"
    BY <2>1, <2>4 DEF AnyOutcome, MayDo, Piece
  <2>5. CASE stage[r][a] = "aborting"
    BY <2>1, <2>5 DEF AnyOutcome, MayDo, Piece
  <2> QED
    BY <2>1, <2>2, <2>3, <2>4, <2>5
<1> QED
  BY <1>2, <1>3

\* A call that is awaited asks for what the server has.
LEMMA RequestIs ==
  ASSUME WorkflowsInv, NEW r \in Run, NEW a \in Activity, call[r][a] # None
  PROVE  call[r][a].request \in Request
BY DEF WorkflowsInv, CallsInv, FlowCallOK, TaskCallOK, Request, Activity

-----------------------------------------------------------------------------
(* The actions                                                             *)

LEMMA FlowBecomesIs ==
  ASSUME WorkflowsInv, NEW r \in Run, NEW w \in Flow, NEW p \in FlowPoint,
         FlowBecomes(r, w, p)
  PROVE  \E f \in FlowRecord :
           /\ flow' = [flow EXCEPT ![r][w] = f]
           /\ f.pc = p /\ f.step = flow[r][w].step
           /\ f.position = flow[r][w].position
<1> DEFINE f == [flow[r][w] EXCEPT !.pc = p]
<1>1. flow \in [Run -> [Flow -> FlowRecord]] /\ flow[r][w] \in FlowRecord
  BY DEF WorkflowsInv, StateInv
<1>2. /\ f \in FlowRecord /\ f.pc = p /\ f.step = flow[r][w].step
      /\ f.position = flow[r][w].position
  BY <1>1 DEF FlowRecord
<1>3. flow' = [flow EXCEPT ![r][w] = f]
  BY <1>1 DEF FlowBecomes
<1> HIDE DEF f
<1> QED
  BY <1>2, <1>3

LEMMA BecomesIs ==
  ASSUME WorkflowsInv, NEW r \in Run, NEW t \in Task, NEW p \in TaskPoint,
         Becomes(r, t, p)
  PROVE  \E e \in ExecRecord :
           /\ exec' = [exec EXCEPT ![r][t] = e]
           /\ e.pc = p /\ e.key = exec[r][t].key
<1> DEFINE e == [exec[r][t] EXCEPT !.pc = p]
<1>1. exec \in [Run -> [Task -> ExecRecord]] /\ exec[r][t] \in ExecRecord
  BY DEF WorkflowsInv, StateInv
<1>2. e \in ExecRecord /\ e.pc = p /\ e.key = exec[r][t].key
  BY <1>1 DEF ExecRecord
<1>3. exec' = [exec EXCEPT ![r][t] = e]
  BY <1>1 DEF Becomes
<1> HIDE DEF e
<1> QED
  BY <1>2, <1>3

LEMMA FlowCalls ==
  ASSUME WorkflowsInv, NEW r \in Run, NEW w \in Flow, NEW p \in FlowPoint,
         UNCHANGED <<program, stores, exec, now>>,
         FlowBecomes(r, w, p), NEW q \in FlowRequest, Send(r, w, q),
         FlowAwaits(p, q.rpc), p # "crashed", flow[r][w].pc # "crashed"
  PROVE  WorkflowsInv'
<1> DEFINE c == [request |-> q, answer |-> None]
<1>1. call' = [call EXCEPT ![r][w] = c]
  BY DEF Send
<1>2. PICK f \in FlowRecord : /\ flow' = [flow EXCEPT ![r][w] = f]
                              /\ f.pc = p /\ f.step = flow[r][w].step
                              /\ f.position = flow[r][w].position
  BY FlowBecomesIs
<1>3. c.request = q /\ c.answer = None
  OBVIOUS
<1> HIDE DEF c
<1> QED
  BY <1>1, <1>2, <1>3, FlowMoves

LEMMA FlowReceives ==
  ASSUME WorkflowsInv, NEW r \in Run, NEW w \in Flow, NEW p \in FlowPoint,
         UNCHANGED <<program, stores, exec, now>>,
         FlowBecomes(r, w, p), Received(r, w),
         p # "crashed", flow[r][w].pc # "crashed"
  PROVE  WorkflowsInv'
<1>1. PICK f \in FlowRecord : /\ flow' = [flow EXCEPT ![r][w] = f]
                              /\ f.pc = p /\ f.step = flow[r][w].step
                              /\ f.position = flow[r][w].position
  BY FlowBecomesIs
<1>2. call' = [call EXCEPT ![r][w] = None]
  BY DEF Received
<1> QED
  BY <1>1, <1>2, FlowMoves

\* Whoever awaits no RPC has none outstanding.
LEMMA NothingAwaited ==
  ASSUME WorkflowsInv, NEW r \in Run
  PROVE  /\ \A w \in Flow : flow[r][w].pc = "going" =>
              /\ call[r][w] = None
              /\ call = [call EXCEPT ![r][w] = None]
         /\ \A t \in Task : exec[r][t].pc \in {"ready", "running", "saving"} =>
              /\ call[r][t] = None
              /\ call = [call EXCEPT ![r][t] = None]
<1>1. ASSUME NEW w \in Flow, flow[r][w].pc = "going"
      PROVE  call[r][w] = None
  BY <1>1 DEF WorkflowsInv, CallsInv, FlowCallOK, FlowAwaits
<1>2. ASSUME NEW t \in Task, exec[r][t].pc \in {"ready", "running", "saving"}
      PROVE  call[r][t] = None
  BY <1>2 DEF WorkflowsInv, CallsInv, TaskCallOK, TaskAwaits
<1>3. ASSUME NEW a \in Activity, call[r][a] = None
      PROVE  call = [call EXCEPT ![r][a] = None]
  BY <1>3 DEF WorkflowsInv, CallsInv
<1> QED
  BY <1>1, <1>2, <1>3 DEF Activity

LEMMA TaskCallIs ==
  ASSUME WorkflowsInv, NEW r \in Run, NEW t \in Task,
         NEW rpc \in {"key", "lease", "checkpoint", "release"},
         exec[r][t].pc \notin {"returned", "crashed"}
  PROVE  TaskCall(r, t, rpc) \in TaskRequest /\ TaskCall(r, t, rpc).value = t
         /\ TaskCall(r, t, rpc).rpc = rpc
<1>1. t \in Value /\ FlowOf(t) \in Flow
  BY TaskIs DEF WorkflowsInv, StateInv
<1>2. flow[r][FlowOf(t)] \in FlowRecord /\ exec[r][t] \in ExecRecord
  BY <1>1 DEF WorkflowsInv, StateInv
<1>3. flow[r][FlowOf(t)].position \in Position
  BY PositionThere
<1>4. Leases(program, t) \in Nat
  BY WorkflowsAssumption DEF Leases
<1> QED
  BY <1>1, <1>2, <1>3, <1>4
     DEF TaskCall, RunnerOf, TaskRequest, FlowRecord, ExecRecord

LEMMA TaskCalls ==
  ASSUME WorkflowsInv, NEW r \in Run, NEW t \in Task,
         NEW rpc \in {"key", "lease", "checkpoint", "release"},
         NEW p \in TaskPoint \ {"off", "returned", "crashed"},
         Calls(r, t, p, rpc), TaskAwaits(p, rpc),
         exec[r][t].pc \notin {"off", "returned", "crashed"}
  PROVE  WorkflowsInv'
<1> DEFINE c == [request |-> TaskCall(r, t, rpc), answer |-> None]
<1>1. call' = [call EXCEPT ![r][t] = c]
  BY DEF Calls, Send
<1>2. PICK e \in ExecRecord : exec' = [exec EXCEPT ![r][t] = e] /\ e.pc = p
  BY BecomesIs DEF Calls
<1>3. c.request = TaskCall(r, t, rpc) /\ c.answer = None
  OBVIOUS
<1>4. UNCHANGED <<program, stores, flow, now>>
  BY DEF Calls, ServerUnchanged
<1> HIDE DEF c
<1>5. /\ c.request \in TaskRequest /\ c.request.value = t
      /\ TaskAwaits(e.pc, c.request.rpc) /\ c.answer = None
  BY <1>2, <1>3, TaskCallIs
<1> QED
  BY <1>1, <1>2, <1>4, <1>5, TaskMoves

LEMMA TaskReceives ==
  ASSUME WorkflowsInv, NEW r \in Run, NEW t \in Task, NEW e \in ExecRecord,
         UNCHANGED <<program, stores, flow, now>>,
         exec' = [exec EXCEPT ![r][t] = e],
         Received(r, t) \/ (call[r][t] = None /\ UNCHANGED call),
         exec[r][t].pc \notin {"off", "returned", "crashed"},
         e.pc \notin {"off", "returned", "crashed"}
  PROVE  WorkflowsInv'
<1>1. call' = [call EXCEPT ![r][t] = None]
  BY DEF Received, WorkflowsInv, CallsInv, Activity
<1> QED
  BY <1>1, TaskMoves

LEMMA OpenFlowKeeps ==
  ASSUME WorkflowsInv, NEW r \in Run, NEW w \in Flow, OpenFlow(r, w)
  PROVE  WorkflowsInv'
<1> DEFINE q == [rpc |-> "start"]
<1>1. q \in FlowRequest /\ FlowAwaits("starting", q.rpc)
  BY DEF FlowRequest, FlowAwaits
<1>2. Send(r, w, q) /\ FlowBecomes(r, w, "starting")
  BY DEF OpenFlow
<1>3. flow[r][w].pc = "off" /\ UNCHANGED <<program, stores, exec, now>>
  BY DEF OpenFlow, ServerUnchanged
<1> HIDE DEF q
<1> QED
  BY <1>1, <1>2, <1>3, FlowCalls DEF FlowPoint

LEMMA FlowStartedKeeps ==
  ASSUME WorkflowsInv, NEW r \in Run, NEW w \in Flow, FlowStarted(r, w)
  PROVE  WorkflowsInv'
<1>1. /\ flow[r][w].pc = "starting" /\ call[r][w] # None
      /\ call[r][w].answer # None /\ Received(r, w)
      /\ UNCHANGED <<program, stores, exec, now>>
  BY DEF FlowStarted, Answered, ServerUnchanged
<1>2. flow \in [Run -> [Flow -> FlowRecord]] /\ flow[r][w] \in FlowRecord
  BY DEF WorkflowsInv, StateInv
<1>3. CASE Answer(r, w).kind = "error"
  <2>1. FlowBecomes(r, w, "failed")
    BY <1>2, <1>3 DEF FlowStarted, FlowBecomes
  <2> QED
    BY <1>1, <2>1, FlowReceives DEF FlowPoint
<1>4. CASE Answer(r, w).kind # "error"
  <2>1. FlowCallOK(r, w)
    BY <1>1 DEF WorkflowsInv, CallsInv
  <2>2. call[r][w].request.rpc = "start"
    BY <1>1, <2>1 DEF FlowCallOK, FlowAwaits
  <2>3. AnswerOK("start", Answer(r, w))
    BY <1>1, <2>1, <2>2 DEF FlowCallOK, Answer
  <2>4. Answer(r, w).fencing_token \in Nat
    BY <1>4, <2>3 DEF AnswerOK
  <2> DEFINE f == Going(flow[r][w], Answer(r, w).fencing_token)
  <2>5. /\ f \in FlowRecord /\ f.pc = "going" /\ f.step = flow[r][w].step
        /\ f.position = flow[r][w].position
    BY <1>2, <2>4 DEF Going, FlowRecord, FlowPoint
  <2>6. flow' = [flow EXCEPT ![r][w] = f]
    BY <1>2, <1>4 DEF FlowStarted
  <2>7. call' = [call EXCEPT ![r][w] = None]
    BY <1>1 DEF Received
  <2> HIDE DEF f
  <2> QED
    BY <1>1, <2>5, <2>6, <2>7, FlowMoves
<1> QED
  BY <1>3, <1>4

LEMMA CallCompleteKeeps ==
  ASSUME WorkflowsInv, NEW r \in Run, NEW w \in Flow,
         NEW p \in {"completing", "recovering"}, CallComplete(r, w, p),
         UNCHANGED <<program, stores, exec, now>>, flow[r][w].pc # "crashed"
  PROVE  WorkflowsInv'
<1> DEFINE q == [rpc |-> "complete", expire_after |-> Retention,
                 fencing_token |-> flow[r][w].fencing_token]
<1>1. q \in FlowRequest /\ q.rpc = "complete"
  BY WorkflowsAssumption DEF FlowRequest, WorkflowsInv, StateInv, FlowRecord
<1>2. Send(r, w, q) /\ FlowBecomes(r, w, p)
  BY DEF CallComplete
<1> HIDE DEF q
<1>3. FlowAwaits(p, q.rpc) /\ p \in FlowPoint /\ p # "crashed"
  BY <1>1 DEF FlowAwaits, FlowPoint
<1> QED
  BY <1>1, <1>2, <1>3, FlowCalls

LEMMA FlowEndsKeeps ==
  ASSUME WorkflowsInv, NEW r \in Run, NEW w \in Flow,
         FlowEnds(r, w) \/ FlowCompleted(r, w)
  PROVE  WorkflowsInv'
<1>1. /\ UNCHANGED <<program, stores, exec, now>>
      /\ flow[r][w].pc \in {"going", "completing", "recovering"}
  BY DEF FlowEnds, FlowCompleted, ServerUnchanged
<1>2. \/ \E p \in {"completing", "recovering"} : CallComplete(r, w, p)
      \/ \E p \in {"completed", "failed"} : FlowBecomes(r, w, p) /\ Received(r, w)
      \/ /\ \E p \in {"completed", "failed"} : FlowBecomes(r, w, p)
         /\ flow[r][w].pc = "going" /\ UNCHANGED call
  BY DEF FlowEnds, FlowCompleted
<1>3. CASE \E p \in {"completing", "recovering"} : CallComplete(r, w, p)
  BY <1>1, <1>3, CallCompleteKeeps
<1>4. ASSUME NEW p \in {"completed", "failed"}, FlowBecomes(r, w, p),
             \/ Received(r, w)
             \/ flow[r][w].pc = "going" /\ UNCHANGED call
      PROVE  WorkflowsInv'
  <2>1. Received(r, w)
    BY <1>4, NothingAwaited DEF Received
  <2> QED
    BY <1>1, <1>4, <2>1, FlowReceives DEF FlowPoint
<1> QED
  BY <1>2, <1>3, <1>4

LEMMA NextStepKeeps ==
  ASSUME WorkflowsInv, NEW r \in Run, NEW w \in Flow, NextStep(r, w)
  PROVE  WorkflowsInv'
<1> USE DEF WorkflowsInv
<1> DEFINE i == flow[r][w].step + 1
           tasks == program.steps[w][i]
<1>1. /\ program \in Explored
      /\ flow \in [Run -> [Flow -> FlowRecord]] /\ flow[r][w] \in FlowRecord
      /\ exec \in [Run -> [Task -> ExecRecord]]
  BY DEF StateInv
<1>2. /\ i \in DOMAIN program.steps[w] /\ i \in Nat /\ i - 1 = flow[r][w].step
      /\ flow[r][w].step \in Nat
  BY <1>1, StepsAre DEF NextStep, FlowRecord
<1>3. tasks \subseteq TasksOf(w) /\ tasks \subseteq Task
  BY <1>1, <1>2, StepIs
<1>4. /\ UNCHANGED <<program, stores, call, now>> /\ flow[r][w].pc = "going"
      /\ StepDone(r, w) /\ Enter(r, w, i)
  BY DEF NextStep, ServerUnchanged
<1>5. \A t \in tasks : exec[r][t].pc = "off"
  BY <1>2, <1>4 DEF StepsInv
<1> HIDE DEF i, tasks
<1>6. /\ flow' \in [Run -> [Flow -> FlowRecord]]
      /\ flow'[r][w].step = i
      /\ \A s \in Run, v \in Flow :
           /\ flow'[s][v].pc = flow[s][v].pc
           /\ flow'[s][v].position = flow[s][v].position
           /\ <<s, v>> # <<r, w>> => flow'[s][v].step = flow[s][v].step
  <2> DEFINE f == [flow[r][w] EXCEPT !.step = i]
  <2>1. /\ f \in FlowRecord /\ f.step = i /\ f.pc = flow[r][w].pc
        /\ f.position = flow[r][w].position
    BY <1>1, <1>2 DEF FlowRecord
  <2>2. flow' = [flow EXCEPT ![r][w] = f]
    BY <1>1, <1>4 DEF Enter
  <2> HIDE DEF f
  <2> QED
    BY <1>1, <2>1, <2>2
<1>7. /\ exec' \in [Run -> [Task -> ExecRecord]]
      /\ \A t \in tasks : exec'[r][t].pc = "ready"
      /\ \A s \in Run, t \in Task :
           ~(s = r /\ t \in tasks) => exec'[s][t] = exec[s][t]
  <2> DEFINE x == [t \in Task |-> IF t \in tasks
                                  THEN [exec[r][t] EXCEPT !.pc = "ready"]
                                  ELSE exec[r][t]]
  <2>1. \A e \in ExecRecord : /\ [e EXCEPT !.pc = "ready"] \in ExecRecord
                              /\ [e EXCEPT !.pc = "ready"].pc = "ready"
    BY DEF ExecRecord, TaskPoint
  <2>2. /\ x \in [Task -> ExecRecord]
        /\ \A t \in Task : t \in tasks => x[t].pc = "ready"
        /\ \A t \in Task : t \notin tasks => x[t] = exec[r][t]
    <3>1. \A t \in Task : exec[r][t] \in ExecRecord
      BY <1>1
    <3>2. \A t \in Task :
            /\ [exec[r][t] EXCEPT !.pc = "ready"] \in ExecRecord
            /\ [exec[r][t] EXCEPT !.pc = "ready"].pc = "ready"
      BY <2>1, <3>1
    <3> QED
      BY <3>1, <3>2
  <2>3. exec' = [exec EXCEPT ![r] = x]
    BY <1>1, <1>4 DEF Enter, tasks
  <2> HIDE DEF x
  <2> QED
    BY <1>1, <1>3, <2>2, <2>3
<1>s. Flow' = Flow /\ Task' = Task /\ Activity' = Activity
      /\ \A v : TasksOf(v)' = TasksOf(v)
  BY <1>4, SameProgram
<1>8. StateInv'
  BY <1>4, <1>s, <1>6, <1>7 DEF StateInv
<1>9. CallsInv'
  <2>1. ASSUME NEW s \in Run, NEW t \in Task, call[s][t] # None
        PROVE  TaskCallOK(s, t)'
    <3>1. TaskCallOK(s, t)
      BY <2>1 DEF CallsInv
    <3>2. exec[s][t].pc # "off"
      BY <3>1 DEF TaskCallOK, TaskAwaits
    <3>3. exec'[s][t] = exec[s][t]
      BY <1>5, <1>7, <3>2
    <3> QED
      BY <1>4, <3>1, <3>3 DEF TaskCallOK
  <2>2. ASSUME NEW s \in Run, NEW v \in Flow, call[s][v] # None
        PROVE  FlowCallOK(s, v)'
    <3>1. FlowCallOK(s, v)
      BY <2>2 DEF CallsInv
    <3>2. call'[s][v] = call[s][v] /\ flow'[s][v].pc = flow[s][v].pc
      BY <1>4, <1>6
    <3> QED
      BY <3>1, <3>2 DEF FlowCallOK
  <2> QED
    BY <1>4, <1>s, <2>1, <2>2 DEF CallsInv
<1>10. CrashInv'
  <2>1. \A s \in Run, t \in Task :
          exec'[s][t].pc = "crashed" <=> exec[s][t].pc = "crashed"
    BY <1>5, <1>7
  <2>2. \A s \in Run, v \in Flow : flow'[s][v].pc = flow[s][v].pc
    BY <1>6
  <2> QED
    BY <1>s, <2>1, <2>2 DEF CrashInv
<1>11. StepsInv'
  <2> SUFFICES ASSUME NEW s \in Run, NEW v \in Flow, flow[s][v].pc # "crashed"
               PROVE  /\ flow'[s][v].step <= Len(program.steps[v])
                      /\ flow[s][v].position = Cardinality(ReturnedOf(s, v)')
                      /\ \A j \in DOMAIN program.steps[v] :
                           \A t \in program.steps[v][j] :
                             /\ j < flow'[s][v].step => exec'[s][t].pc = "returned"
                             /\ j > flow'[s][v].step => exec'[s][t].pc = "off"
    BY <1>4, <1>s, <1>6 DEF StepsInv
  <2>1. /\ flow[s][v].step <= Len(program.steps[v])
        /\ flow[s][v].position = Cardinality(ReturnedOf(s, v))
        /\ \A j \in DOMAIN program.steps[v] : \A t \in program.steps[v][j] :
             /\ j < flow[s][v].step => exec[s][t].pc = "returned"
             /\ j > flow[s][v].step => exec[s][t].pc = "off"
    BY DEF StepsInv
  <2>2. ReturnedOf(s, v)' = ReturnedOf(s, v)
    <3>1. \A t \in TasksOf(v) : t \in Task
      BY DEF Task
    <3>2. \A t \in Task : exec'[s][t].pc = "returned" <=> exec[s][t].pc = "returned"
      BY <1>5, <1>7
    <3> QED
      BY <1>s, <3>1, <3>2 DEF ReturnedOf
  <2>3. \A j \in DOMAIN program.steps[v] :
          /\ j \in Nat /\ program.steps[v][j] \subseteq Task
          /\ program.steps[v][j] \subseteq TasksOf(v)
    BY <1>1, StepIs
  <2>4. CASE <<s, v>> = <<r, w>>
    <3>1. flow'[s][v].step <= Len(program.steps[v])
      BY <1>1, <1>2, <1>6, <2>4, StepsAre
    <3>2. ASSUME NEW j \in DOMAIN program.steps[v], NEW t \in program.steps[v][j]
          PROVE  /\ j < i => exec'[s][t].pc = "returned"
                 /\ j > i => exec'[s][t].pc = "off"
      <4>1. j # i => t \notin tasks
        BY <1>1, <1>2, <2>4, ProgramIs DEF tasks
      <4>2. j # i => exec'[s][t] = exec[s][t]
        BY <1>7, <2>3, <4>1
      <4>3. j = i - 1 => exec[s][t].pc = "returned"
        <5>1. SUFFICES ASSUME j = i - 1 PROVE exec[s][t].pc = "returned"
          OBVIOUS
        <5>2. flow[r][w].step = j /\ j # 0
          BY <1>1, <1>2, <2>4, <5>1, StepIs
        <5>3. Current(r, w) = program.steps[w][j]
          BY <5>2 DEF Current
        <5> QED
          BY <1>4, <2>4, <5>3 DEF StepDone
      <4> QED
        BY <1>2, <2>1, <2>3, <2>4, <4>2, <4>3
    <3> QED
      BY <1>6, <2>1, <2>2, <2>4, <3>1, <3>2
  <2>5. CASE <<s, v>> # <<r, w>>
    <3>1. \A t \in TasksOf(v) : t \in Task /\ ~(s = r /\ t \in tasks)
      BY <1>1, <1>3, <2>5, ProgramIs DEF Task
    <3>2. \A t \in TasksOf(v) : exec'[s][t] = exec[s][t]
      BY <1>7, <3>1
    <3> QED
      BY <1>6, <2>1, <2>2, <2>3, <2>5, <3>2
  <2> QED
    BY <2>4, <2>5
<1> QED
  BY <1>8, <1>9, <1>10, <1>11

\* The answer an execute finds is one of the RPC that it awaits.
LEMMA AnswerIs ==
  ASSUME WorkflowsInv, NEW r \in Run, NEW t \in Task, Answered(r, t)
  PROVE  /\ AnswerOK(call[r][t].request.rpc, Answer(r, t))
         /\ TaskAwaits(exec[r][t].pc, call[r][t].request.rpc)
BY DEF WorkflowsInv, CallsInv, TaskCallOK, Answered, Answer

LEMMA ThrowKeeps ==
  ASSUME WorkflowsInv, NEW r \in Run, NEW t \in Task,
         Throw(r, t), Received(r, t), UNCHANGED <<program, stores, now>>,
         exec[r][t].pc \notin {"off", "returned", "crashed"}
  PROVE  WorkflowsInv'
<1>1. PICK e \in ExecRecord : exec' = [exec EXCEPT ![r][t] = e] /\ e.pc = "threw"
  BY BecomesIs DEF Throw, TaskPoint
<1> QED
  BY <1>1, TaskReceives DEF Throw

LEMMA BecomesKeeps ==
  ASSUME WorkflowsInv, NEW r \in Run, NEW t \in Task,
         NEW p \in TaskPoint \ {"off", "returned", "crashed"}, Becomes(r, t, p),
         Received(r, t) \/ (call[r][t] = None /\ UNCHANGED call),
         UNCHANGED <<program, stores, flow, now>>,
         exec[r][t].pc \notin {"off", "returned", "crashed"}
  PROVE  WorkflowsInv'
<1>1. PICK e \in ExecRecord : exec' = [exec EXCEPT ![r][t] = e] /\ e.pc = p
  BY BecomesIs
<1> QED
  BY <1>1, TaskReceives

LEMMA KeyAnsweredKeeps ==
  ASSUME WorkflowsInv, NEW r \in Run, NEW t \in Task, KeyAnswered(r, t)
  PROVE  WorkflowsInv'
<1>1. /\ exec[r][t].pc = "keying" /\ Answered(r, t) /\ Received(r, t)
      /\ UNCHANGED <<program, stores, flow, now>>
  BY DEF KeyAnswered, ServerUnchanged
<1>2. exec \in [Run -> [Task -> ExecRecord]] /\ exec[r][t] \in ExecRecord
  BY DEF WorkflowsInv, StateInv
<1>3. CASE Answer(r, t).kind = "error"
  <2>1. Becomes(r, t, "threw")
    BY <1>3 DEF KeyAnswered, Becomes
  <2> QED
    BY <1>1, <2>1, BecomesKeeps DEF TaskPoint
<1>4. CASE Answer(r, t).kind # "error"
  <2>1. call[r][t].request.rpc = "key"
    BY <1>1, AnswerIs DEF TaskAwaits
  <2>2. Answer(r, t).idempotency_key \in Key
    BY <1>1, <1>4, <2>1, AnswerIs DEF AnswerOK
  <2> DEFINE e == Keyed(exec[r][t], Answer(r, t).idempotency_key)
  <2>3. e \in ExecRecord /\ e.pc = "ready"
    BY <1>2, <2>2 DEF Keyed, ExecRecord, TaskPoint
  <2>4. exec' = [exec EXCEPT ![r][t] = e]
    BY <1>2, <1>4 DEF KeyAnswered
  <2> HIDE DEF e
  <2> QED
    BY <1>1, <2>3, <2>4, TaskReceives
<1> QED
  BY <1>3, <1>4

LEMMA LeaseAnsweredKeeps ==
  ASSUME WorkflowsInv, NEW r \in Run, NEW t \in Task, LeaseAnswered(r, t)
  PROVE  WorkflowsInv'
<1>1. /\ exec[r][t].pc = "leasing" /\ Received(r, t)
      /\ UNCHANGED <<program, stores, now>>
  BY DEF LeaseAnswered, ServerUnchanged
<1>2. exec \in [Run -> [Task -> ExecRecord]] /\ exec[r][t] \in ExecRecord
  BY DEF WorkflowsInv, StateInv
<1>3. CASE Return(r, t)
  BY <1>1, <1>3, TaskDone DEF Received
<1>4. CASE Becomes(r, t, "ready") /\ UNCHANGED flow
  BY <1>1, <1>4, BecomesKeeps DEF TaskPoint
<1>5. CASE /\ exec' = [exec EXCEPT ![r][t] = Leased(@, now + Leases(program, t))]
           /\ UNCHANGED flow
  <2> DEFINE e == Leased(exec[r][t], now + Leases(program, t))
  <2>1. now + Leases(program, t) \in Nat
    BY WorkflowsAssumption DEF Leases, WorkflowsInv, StateInv
  <2>2. e \in ExecRecord /\ e.pc = "running"
    BY <1>2, <2>1 DEF Leased, ExecRecord, TaskPoint
  <2>3. exec' = [exec EXCEPT ![r][t] = e]
    BY <1>2, <1>5
  <2> HIDE DEF e
  <2> QED
    BY <1>1, <1>5, <2>2, <2>3, TaskReceives
<1>6. CASE /\ exec' = [exec EXCEPT ![r][t] = Retried(@)]
           /\ UNCHANGED flow
  <2> DEFINE e == Retried(exec[r][t])
  <2>1. e \in ExecRecord /\ e.pc = "ready"
    BY <1>2 DEF Retried, ExecRecord, TaskPoint
  <2>2. exec' = [exec EXCEPT ![r][t] = e]
    BY <1>2, <1>6
  <2> HIDE DEF e
  <2> QED
    BY <1>1, <1>6, <2>1, <2>2, TaskReceives
<1>7. CASE Throw(r, t)
  BY <1>1, <1>7, ThrowKeeps
<1> QED
  BY <1>3, <1>4, <1>5, <1>6, <1>7, Zenon DEF LeaseAnswered

LEMMA SavedKeeps ==
  ASSUME WorkflowsInv, NEW r \in Run, NEW t \in Task,
         SaveAnswered(r, t) \/ SaveExpires(r, t)
  PROVE  WorkflowsInv'
<1>1. /\ exec[r][t].pc \in {"checkpointing", "saving"}
      /\ UNCHANGED <<program, stores, now>>
  BY DEF SaveAnswered, SaveExpires, ServerUnchanged
<1>2. Received(r, t)
  <2>1. CASE SaveAnswered(r, t)
    BY <2>1 DEF SaveAnswered
  <2>2. CASE SaveExpires(r, t)
    BY <2>2, NothingAwaited DEF SaveExpires, Received
  <2> QED
    BY <2>1, <2>2
<1>3. CASE Return(r, t)
  BY <1>1, <1>2, <1>3, TaskDone DEF Received
<1>4. CASE Throw(r, t)
  BY <1>1, <1>2, <1>4, ThrowKeeps
<1>5. CASE Becomes(r, t, "saving") /\ UNCHANGED flow
  BY <1>1, <1>2, <1>5, BecomesKeeps DEF TaskPoint
<1> QED
  BY <1>3, <1>4, <1>5, Zenon DEF SaveAnswered, SaveExpires

LEMMA TaskStepKeeps ==
  ASSUME WorkflowsInv, NEW r \in Run, NEW t \in Task, TaskStep(r, t)
  PROVE  WorkflowsInv'
<1>1. CASE BeginInner(r, t)
  <2>1. program.inner[t] \in Flow
    BY <1>1, ProgramIs DEF BeginInner, WorkflowsInv, StateInv
  <2> QED
    BY <1>1, <2>1, OpenFlowKeeps DEF BeginInner
<1>2. CASE GenerateKey(r, t)
  BY <1>2, TaskCalls DEF GenerateKey, TaskPoint, TaskAwaits
<1>3. CASE KeyAnswered(r, t)
  BY <1>3, KeyAnsweredKeeps
<1>4. CASE LeaseCall(r, t)
  BY <1>4, TaskCalls DEF LeaseCall, TaskPoint, TaskAwaits
<1>5. CASE LeaseAnswered(r, t)
  BY <1>5, LeaseAnsweredKeeps
<1>6. CASE TaskReturns(r, t)
  BY <1>6, NothingAwaited, BecomesKeeps
     DEF TaskReturns, ServerUnchanged, TaskPoint
<1>11. CASE DeserializeThrows(r, t)
  BY <1>11, ThrowKeeps DEF DeserializeThrows, ServerUnchanged
<1>12. CASE TaskThrowsUncaught(r, t)
  BY <1>12, NothingAwaited, ThrowKeeps
     DEF TaskThrowsUncaught, ServerUnchanged, Received
<1>7. CASE TaskThrows(r, t)
  BY <1>7, TaskCalls DEF TaskThrows, TaskPoint, TaskAwaits
<1>8. CASE Released(r, t)
  BY <1>8, ThrowKeeps DEF Released, ServerUnchanged
<1>9. CASE SaveCall(r, t)
  BY <1>9, TaskCalls DEF SaveCall, TaskPoint, TaskAwaits
<1>10. CASE SaveAnswered(r, t) \/ SaveExpires(r, t)
  BY <1>10, SavedKeeps
<1> QED
  BY <1>1, <1>2, <1>3, <1>4, <1>5, <1>6, <1>7, <1>8, <1>9, <1>10, <1>11, <1>12
     DEF TaskStep

LEMMA ActivityIs ==
  ASSUME program \in Explored, NEW a \in Activity
  PROVE  FlowOf(a) \in Flow
BY FlowIs, TaskIs DEF Activity

LEMMA EffectIs ==
  ASSUME WorkflowsInv, StageInv, NEW r \in Run, NEW a \in Activity, NEW o,
         Pending(r, a), Effect(r, a, o)
  PROVE  /\ stores' \in [Flow -> StoresRecord]
         /\ AnswerOK(call[r][a].request.rpc, o.reply)
         /\ UNCHANGED <<program, flow, exec, now>>
<1> DEFINE q == call[r][a].request
           db == stores[FlowOf(a)]
<1>1. FlowOf(a) \in Flow
  BY ActivityIs DEF WorkflowsInv, StateInv
<1>2. db \in StoresRecord /\ now \in Nat /\ stores \in [Flow -> StoresRecord]
  BY <1>1 DEF WorkflowsInv, StateInv
<1>3. q \in Request
  BY RequestIs DEF Pending
<1>4. /\ o \in AnyOutcome(r, a)
      /\ stores' = [stores EXCEPT ![FlowOf(a)] = o.stores]
      /\ UNCHANGED <<program, flow, exec, now>>
  BY DEF Effect
<1>5. MayDo(db, q, now, o)
  BY <1>1, <1>4, AnyOutcomeIs
<1>6. o.stores \in StoresRecord /\ AnswerOK(q.rpc, o.reply)
  BY <1>2, <1>3, <1>5, RpcTyped
<1> QED
  BY <1>2, <1>4, <1>6

\* Only the call that is answered changes.
LEMMA TellIs ==
  ASSUME WorkflowsInv, NEW r \in Run, NEW a \in Activity, NEW reply,
         Tell(r, a, reply)
  PROVE  /\ call' = [s \in Run |-> [b \in Activity |-> call'[s][b]]]
         /\ \A s \in Run, b \in Activity :
              <<s, b>> # <<r, a>> => call'[s][b] = call[s][b]
         /\ ~Alive(r, a) => call'[r][a] = None
         /\ Alive(r, a) => call'[r][a] = [request |-> call[r][a].request,
                                          answer |-> reply]
<1> DEFINE c == IF Alive(r, a)
                THEN [request |-> call[r][a].request, answer |-> reply]
                ELSE None
<1>1. call = [s \in Run |-> [b \in Activity |-> call[s][b]]]
  BY DEF WorkflowsInv, CallsInv
<1>2. call' = [call EXCEPT ![r][a] = c]
  BY <1>1 DEF Tell
<1>3. /\ ~Alive(r, a) => c = None
      /\ Alive(r, a) => c = [request |-> call[r][a].request, answer |-> reply]
  OBVIOUS
<1> HIDE DEF c
<1> QED
  BY <1>1, <1>2, <1>3

LEMMA TellKeeps ==
  ASSUME WorkflowsInv, NEW r \in Run, NEW a \in Activity, NEW reply,
         Pending(r, a), Tell(r, a, reply),
         UNCHANGED <<program, flow, exec, now>>,
         stores' \in [Flow -> StoresRecord],
         AnswerOK(call[r][a].request.rpc, reply)
  PROVE  WorkflowsInv'
<1>1. now' \in Nat /\ call[r][a] # None
  BY DEF WorkflowsInv, StateInv, Pending
<1>2. ASSUME NEW s \in Run, NEW b \in Activity
      PROVE  \/ call'[s][b] = call[s][b]
             \/ call'[s][b] = None
             \/ /\ call[s][b] # None /\ Alive(s, b)
                /\ call'[s][b].request = call[s][b].request
                /\ AnswerOK(call[s][b].request.rpc, call'[s][b].answer)
  <2>0. /\ \A x \in Run, y \in Activity :
             <<x, y>> # <<r, a>> => call'[x][y] = call[x][y]
        /\ ~Alive(r, a) => call'[r][a] = None
    BY TellIs
  <2>1. CASE <<s, b>> # <<r, a>>
    BY <2>0, <2>1
  <2>2. CASE <<s, b>> = <<r, a>> /\ ~Alive(r, a)
    BY <2>0, <2>2
  <2>3. CASE <<s, b>> = <<r, a>> /\ Alive(r, a)
    <3>1. call'[r][a] = [request |-> call[r][a].request, answer |-> reply]
      BY <2>3, TellIs
    <3> QED
      BY <1>1, <2>3, <3>1
  <2> QED
    BY <2>1, <2>2, <2>3
<1>3. call' = [s \in Run |-> [b \in Activity |-> call'[s][b]]]
  BY TellIs
<1> QED
  BY <1>1, <1>2, <1>3, ServerMoves

LEMMA UnavailableIs == \A rpc : AnswerOK(rpc, Unavailable)
BY DEF AnswerOK, Unavailable

LEMMA HandleKeeps ==
  ASSUME WorkflowsInv, StageInv, NEW r \in Run, NEW a \in Activity,
         Handle(r, a) \/ Break(r, a)
  PROVE  WorkflowsInv'
<1>1. CASE Handle(r, a)
  <2>1. Pending(r, a) /\ \E o \in AnyOutcome(r, a) :
                            Effect(r, a, o) /\ Tell(r, a, o.reply)
    BY <1>1 DEF Handle
  <2> QED
    BY <2>1, EffectIs, TellKeeps
<1>2. CASE Break(r, a)
  <2>1. Pending(r, a) /\ Tell(r, a, Unavailable)
    BY <1>2 DEF Break
  <2>2. \/ \E o : Effect(r, a, o)
        \/ UNCHANGED <<program, stores, flow, exec, now>>
    BY <1>2 DEF Break
  <2>3. /\ stores' \in [Flow -> StoresRecord]
        /\ UNCHANGED <<program, flow, exec, now>>
    BY <2>1, <2>2, EffectIs DEF WorkflowsInv, StateInv
  <2> QED
    BY <2>1, <2>3, TellKeeps, UnavailableIs
<1> QED
  BY <1>1, <1>2

\* The server works for itself.
LEMMA StoresKeep ==
  ASSUME WorkflowsInv, UNCHANGED <<program, flow, exec, call>>,
         stores' \in [Flow -> StoresRecord], now' \in Nat
  PROVE  WorkflowsInv'
<1>1. call' = [r \in Run |-> [a \in Activity |-> call'[r][a]]]
  BY DEF WorkflowsInv, CallsInv
<1> QED
  BY <1>1, ServerMoves

LEMMA EmptyStores ==
  /\ NewStores.checkpoints \in [Position -> CheckpointRow \cup {None}]
  /\ NewStores.leases \in [Position -> LeaseEntry \cup {None}]
  /\ \A p \in Position : NewStores.checkpoints[p] = None
BY DEF NewStores

LEMMA RestartKeeps ==
  ASSUME WorkflowsInv, Restart
  PROVE  WorkflowsInv'
<1>1. stores' \in [Flow -> StoresRecord]
  <2>1. stores \in [Flow -> StoresRecord]
    BY DEF WorkflowsInv, StateInv
  <2>2. \A w \in Flow :
          [stores[w] EXCEPT !.leases = NewStores.leases] \in StoresRecord
    BY <2>1, EmptyStores, FieldReplaced
  <2> QED
    BY <2>2 DEF Restart
<1>2. UNCHANGED <<program, flow, exec, now>> /\ now' \in Nat
  BY DEF Restart, WorkflowsInv, StateInv
<1>3. ASSUME NEW r \in Run, NEW a \in Activity
      PROVE  \/ call'[r][a] = call[r][a]
             \/ call'[r][a] = None
             \/ /\ call[r][a] # None /\ Alive(r, a)
                /\ call'[r][a].request = call[r][a].request
                /\ AnswerOK(call[r][a].request.rpc, call'[r][a].answer)
  <2>1. call'[r][a] = IF ~Pending(r, a) THEN call[r][a]
                      ELSE IF ~Alive(r, a) THEN None
                      ELSE [request |-> call[r][a].request,
                            answer |-> Unavailable]
    BY DEF Restart
  <2>2. CASE Pending(r, a) /\ Alive(r, a)
    <3>1. call'[r][a] = [request |-> call[r][a].request, answer |-> Unavailable]
      BY <2>1, <2>2
    <3> QED
      BY <2>2, <3>1, UnavailableIs DEF Pending
  <2> QED
    BY <2>1, <2>2
<1>4. call' = [r \in Run |-> [a \in Activity |-> call'[r][a]]]
  BY DEF Restart
<1> QED
  BY <1>1, <1>2, <1>3, <1>4, ServerMoves

LEMMA CrashKeeps ==
  ASSUME WorkflowsInv, NEW r \in Run, Crash(r)
  PROVE  WorkflowsInv'
<1> USE DEF WorkflowsInv
<1>1. /\ flow \in [Run -> [Flow -> FlowRecord]]
      /\ exec \in [Run -> [Task -> ExecRecord]]
      /\ UNCHANGED <<program, stores, now>>
  BY DEF StateInv, Crash, ServerUnchanged
<1>s. Flow' = Flow /\ Task' = Task /\ Activity' = Activity
      /\ \A v : TasksOf(v)' = TasksOf(v)
  BY <1>1, SameProgram
<1>2. /\ flow' \in [Run -> [Flow -> FlowRecord]]
      /\ \A w \in Flow : flow'[r][w].pc = "crashed"
      /\ \A s \in Run \ {r} : flow'[s] = flow[s]
  <2> DEFINE x == [w \in Flow |-> [flow[r][w] EXCEPT !.pc = "crashed"]]
  <2>1. \A f \in FlowRecord : /\ [f EXCEPT !.pc = "crashed"] \in FlowRecord
                              /\ [f EXCEPT !.pc = "crashed"].pc = "crashed"
    BY DEF FlowRecord, FlowPoint
  <2>2. x \in [Flow -> FlowRecord] /\ \A w \in Flow : x[w].pc = "crashed"
    <3>1. \A w \in Flow :
            /\ [flow[r][w] EXCEPT !.pc = "crashed"] \in FlowRecord
            /\ [flow[r][w] EXCEPT !.pc = "crashed"].pc = "crashed"
      <4>1. \A w \in Flow : flow[r][w] \in FlowRecord
        BY <1>1
      <4> QED
        BY <2>1, <4>1
    <3> QED
      BY <3>1
  <2>3. flow' = [flow EXCEPT ![r] = x]
    BY <1>1 DEF Crash
  <2> HIDE DEF x
  <2> QED
    BY <1>1, <2>2, <2>3
<1>3. /\ exec' \in [Run -> [Task -> ExecRecord]]
      /\ \A t \in Task : exec'[r][t].pc = "crashed"
      /\ \A s \in Run \ {r} : exec'[s] = exec[s]
  <2> DEFINE x == [t \in Task |-> [exec[r][t] EXCEPT !.pc = "crashed"]]
  <2>1. \A e \in ExecRecord : /\ [e EXCEPT !.pc = "crashed"] \in ExecRecord
                              /\ [e EXCEPT !.pc = "crashed"].pc = "crashed"
    BY DEF ExecRecord, TaskPoint
  <2>2. x \in [Task -> ExecRecord] /\ \A t \in Task : x[t].pc = "crashed"
    BY <1>1, <2>1
  <2>3. exec' = [exec EXCEPT ![r] = x]
    BY <1>1 DEF Crash
  <2> HIDE DEF x
  <2> QED
    BY <1>1, <2>2, <2>3
<1>4. /\ call' = [s \in Run |-> [a \in Activity |-> call'[s][a]]]
      /\ \A s \in Run \ {r}, a \in Activity : call'[s][a] = call[s][a]
      /\ \A a \in Activity :
           call'[r][a] = IF Pending(r, a) THEN call[r][a] ELSE None
  <2> DEFINE x == [a \in Activity |-> IF Pending(r, a) THEN call[r][a] ELSE None]
  <2>1. call = [s \in Run |-> [a \in Activity |-> call[s][a]]]
    BY DEF CallsInv
  <2>2. call' = [call EXCEPT ![r] = x]
    BY <2>1 DEF Crash
  <2>3. /\ x = [a \in Activity |-> x[a]]
        /\ \A a \in Activity :
             x[a] = IF Pending(r, a) THEN call[r][a] ELSE None
    OBVIOUS
  <2> HIDE DEF x
  <2> QED
    BY <2>1, <2>2, <2>3
<1>5. StateInv'
  BY <1>1, <1>s, <1>2, <1>3 DEF StateInv
<1>6. CallsInv'
  <2>1. ASSUME NEW s \in Run, NEW t \in Task, call'[s][t] # None
        PROVE  TaskCallOK(s, t)'
    <3>1. call'[s][t] = call[s][t] /\ (s = r => call[s][t].answer = None)
      BY <1>4, <2>1 DEF Pending, Activity
    <3>2. TaskCallOK(s, t)
      BY <2>1, <3>1 DEF CallsInv
    <3>3. s # r => exec'[s][t] = exec[s][t]
      BY <1>3
    <3> QED
      BY <1>3, <3>1, <3>2, <3>3 DEF TaskCallOK
  <2>2. ASSUME NEW s \in Run, NEW w \in Flow, call'[s][w] # None
        PROVE  FlowCallOK(s, w)'
    <3>1. call'[s][w] = call[s][w] /\ (s = r => call[s][w].answer = None)
      BY <1>4, <2>2 DEF Pending, Activity
    <3>2. FlowCallOK(s, w)
      BY <2>2, <3>1 DEF CallsInv
    <3>3. s # r => flow'[s][w] = flow[s][w]
      BY <1>2
    <3> QED
      BY <1>2, <3>1, <3>2, <3>3 DEF FlowCallOK
  <2> QED
    BY <1>s, <1>4, <2>1, <2>2 DEF CallsInv
<1>7. CrashInv'
  BY <1>s, <1>2, <1>3 DEF CrashInv
<1>8. StepsInv'
  <2> SUFFICES ASSUME NEW s \in Run, NEW w \in Flow, flow'[s][w].pc # "crashed"
               PROVE  /\ flow'[s][w].step <= Len(program.steps[w])
                      /\ flow'[s][w].position = Cardinality(ReturnedOf(s, w)')
                      /\ \A i \in DOMAIN program.steps[w] :
                           \A t \in program.steps[w][i] :
                             /\ i < flow'[s][w].step => exec'[s][t].pc = "returned"
                             /\ i > flow'[s][w].step => exec'[s][t].pc = "off"
    BY <1>1, <1>s DEF StepsInv
  <2>1. s # r
    BY <1>2
  <2>2. flow'[s] = flow[s] /\ exec'[s] = exec[s]
    BY <1>2, <1>3, <2>1
  <2>3. ReturnedOf(s, w)' = ReturnedOf(s, w)
    BY <1>s, <2>2 DEF ReturnedOf
  <2> QED
    BY <2>2, <2>3 DEF StepsInv
<1> QED
  BY <1>5, <1>6, <1>7, <1>8

LEMMA EvictKeeps ==
  ASSUME WorkflowsInv, NEW w \in Flow, NEW p \in Position, Evict(w, p)
  PROVE  WorkflowsInv'
<1>1. stores \in [Flow -> StoresRecord] /\ stores[w] \in StoresRecord
  BY DEF WorkflowsInv, StateInv
<1> DEFINE new == [stores[w] EXCEPT !.leases = [stores[w].leases EXCEPT ![p] = None]]
<1>2. new \in StoresRecord
  <2>1. [stores[w].leases EXCEPT ![p] = None] \in [Position -> LeaseEntry \cup {None}]
    BY <1>1, StoresFields
  <2> QED
    BY <1>1, <2>1, FieldReplaced
<1>3. stores' = [stores EXCEPT ![w] = new]
  BY <1>1 DEF Evict, StoresRecord
<1> HIDE DEF new
<1>4. stores' \in [Flow -> StoresRecord]
  BY <1>1, <1>2, <1>3
<1> QED
  BY <1>4, StoresKeep DEF Evict, WorkflowsInv, StateInv

\* The job empties fields of the stores, or does nothing to them.
LEMMA WithoutIs ==
  ASSUME NEW db \in StoresRecord, NEW table \in {"tokens", "checkpoints"}
  PROVE  /\ Without(db, table) \in StoresRecord
         /\ Without(db, table).workflow = db.workflow
         /\ Without(db, table).checkpoints \in
              {db.checkpoints, NewStores.checkpoints}
         /\ table = "tokens" => Without(db, table).checkpoints = db.checkpoints
<1>1. CASE table = "tokens"
  <2> DEFINE new == [db EXCEPT !.fencingToken = None]
  <2>1. /\ new \in StoresRecord /\ new.workflow = db.workflow
        /\ new.checkpoints = db.checkpoints
    BY FieldReplaced
  <2>2. Without(db, table) = new
    BY <1>1 DEF Without
  <2> HIDE DEF new
  <2> QED
    BY <2>1, <2>2
<1>2. CASE table = "checkpoints"
  <2> DEFINE new == [db EXCEPT !.checkpoints = NewStores.checkpoints]
  <2>1. /\ new \in StoresRecord /\ new.workflow = db.workflow
        /\ new.checkpoints = NewStores.checkpoints
    BY FieldReplaced, EmptyStores
  <2>2. Without(db, table) = new
    BY <1>2 DEF Without
  <2> HIDE DEF new
  <2> QED
    BY <1>2, <2>1, <2>2
<1> QED
  BY <1>1, <1>2

LEMMA CleanupKeeps ==
  ASSUME WorkflowsInv,
         \/ CleanupStart \/ CleanupWorkflows \/ CleanupFails
         \/ \E table \in {"tokens", "checkpoints"} : CleanupRows(table)
  PROVE  WorkflowsInv'
<1>1. UNCHANGED <<program, flow, exec, call, now>>
  BY DEF CleanupStart, CleanupWorkflows, CleanupFails, CleanupRows
<1>2. stores \in [Flow -> StoresRecord] /\ now \in Nat
  BY DEF WorkflowsInv, StateInv
<1>3. CASE CleanupStart \/ CleanupFails
  BY <1>1, <1>2, <1>3, StoresKeep DEF CleanupStart, CleanupFails
<1>4. CASE CleanupWorkflows
  <2>1. \A w \in Flow : [stores[w] EXCEPT !.workflow = None] \in StoresRecord
    BY <1>2, FieldReplaced
  <2>2. stores' \in [Flow -> StoresRecord]
    BY <1>2, <1>4, <2>1 DEF CleanupWorkflows
  <2> QED
    BY <1>1, <1>2, <2>2, StoresKeep
<1>5. ASSUME NEW table \in {"tokens", "checkpoints"}, CleanupRows(table)
      PROVE  WorkflowsInv'
  <2>1. \A w \in Flow : Without(stores[w], table) \in StoresRecord
    BY <1>2, WithoutIs
  <2>2. stores' \in [Flow -> StoresRecord]
    BY <1>2, <1>5, <2>1 DEF CleanupRows, Delete
  <2> QED
    BY <1>1, <1>2, <2>2, StoresKeep
<1> QED
  BY <1>3, <1>4, <1>5

LEMMA StutterKeeps ==
  ASSUME WorkflowsInv, UNCHANGED vars
  PROVE  WorkflowsInv'
<1>1. stores' \in [Flow -> StoresRecord] /\ now' \in Nat
  BY DEF vars, WorkflowsInv, StateInv
<1> QED
  BY <1>1, StoresKeep DEF vars

LEMMA TickKeeps ==
  ASSUME WorkflowsInv, Tick
  PROVE  WorkflowsInv'
<1>1. stores' \in [Flow -> StoresRecord] /\ now' \in Nat
  BY DEF Tick, WorkflowsInv, StateInv
<1> QED
  BY <1>1, StoresKeep DEF Tick

LEMMA HaltsKeep ==
  ASSUME WorkflowsInv, NEW r \in Run, NEW t \in Task, HandlerHalts(r, t)
  PROVE  /\ WorkflowsInv' /\ UNCHANGED <<program, job, flow, exec, call, now>>
         /\ UNCHANGED history
         /\ \A w \in Flow : /\ stores'[w].workflow = stores[w].workflow
                            /\ stores'[w].checkpoints = stores[w].checkpoints
<1> DEFINE w == FlowOf(t)
           q == call[r][t].request
<1>1. /\ w \in Flow /\ stores \in [Flow -> StoresRecord] /\ now \in Nat
      /\ stores[w] \in StoresRecord
  BY TaskIs DEF WorkflowsInv, StateInv
<1>2. /\ UNCHANGED <<program, job, flow, exec, call, now, faults, history>>
      /\ Pending(r, t)
  BY DEF HandlerHalts, LeaseFindsNoRow, LeaseMayBePut, SaveFreesLease, Halts
<1>3. q.position \in Position
  BY <1>2 DEF WorkflowsInv, CallsInv, TaskCallOK, TaskRequest, Pending
<1>4. /\ Freed(stores[w], q.position) \in StoresRecord
      /\ Freed(stores[w], q.position).workflow = stores[w].workflow
      /\ Freed(stores[w], q.position).checkpoints = stores[w].checkpoints
  BY <1>1, <1>3, FreedIs
<1>5. \/ UNCHANGED stores
      \/ stores' = [stores EXCEPT ![w] = Freed(stores[w], q.position)]
  BY <1>1 DEF HandlerHalts, LeaseFindsNoRow, LeaseMayBePut, SaveFreesLease
<1> HIDE DEF w, q
<1>6. stores' \in [Flow -> StoresRecord]
  BY <1>1, <1>4, <1>5
<1>7. WorkflowsInv'
  BY <1>1, <1>2, <1>6, StoresKeep
<1> QED
  BY <1>1, <1>2, <1>4, <1>5, <1>7

LEMMA TypesKept == WorkflowsInv /\ StageInv /\ [Next]_vars => WorkflowsInv'
<1> SUFFICES ASSUME WorkflowsInv, StageInv, [Next]_vars PROVE WorkflowsInv'
  OBVIOUS
<1>1. CASE \E r \in Run : Begin(r) \/ Crash(r)
  <2>1. "outer" \in Flow
    BY ProgramIs DEF WorkflowsInv, StateInv
  <2> QED
    BY <1>1, <2>1, OpenFlowKeeps, CrashKeeps DEF Begin
<1>2. CASE \E r \in Run, w \in Flow : FlowStep(r, w)
  BY <1>2, FlowStartedKeeps, NextStepKeeps, FlowEndsKeeps DEF FlowStep
<1>3. CASE \E r \in Run, t \in Task : TaskStep(r, t)
  BY <1>3, TaskStepKeeps
<1>4. CASE \E r \in Run, a \in Activity : Handle(r, a) \/ Break(r, a)
  BY <1>4, HandleKeeps
<1>5. CASE \E w \in Flow, p \in Position : Evict(w, p)
  BY <1>5, EvictKeeps
<1>6. CASE Restart \/ Tick \/ UNCHANGED vars
  BY <1>6, RestartKeeps, TickKeeps, StutterKeeps
<1>7. CASE \/ CleanupStart \/ CleanupWorkflows \/ CleanupFails
           \/ \E table \in {"tokens", "checkpoints"} : CleanupRows(table)
  BY <1>7, CleanupKeeps
<1>8. CASE \E r \in Run, t \in Task : HandlerHalts(r, t)
  BY <1>8, HaltsKeep
<1> QED
  BY <1>1, <1>2, <1>3, <1>4, <1>5, <1>6, <1>7, <1>8 DEF Next

\* What else happens leaves the calls alone that are still to be answered.
LEMMA StageStays ==
  ASSUME WorkflowsInv, StageInv, program' = program, UNCHANGED pieces,
         \A r \in Run, a \in Activity :
           Pending(r, a) => call'[r][a] = call[r][a]
  PROVE  StageInv'
<1>1. Activity' = Activity
  BY SameProgram
<1>2. /\ UNCHANGED <<stage, crossed>>
      /\ stage = [r \in Run |-> [a \in Activity |-> stage[r][a]]]
  BY DEF pieces, StageInv
<1>3. ASSUME NEW r \in Run, NEW a \in Activity, stage[r][a] # "all"
      PROVE  StageOK(r, a)'
  <2>1. StageOK(r, a)
    BY <1>3 DEF StageInv
  <2>2. call'[r][a] = call[r][a]
    BY <2>1 DEF StageOK
  <2> QED
    BY <1>2, <2>1, <2>2 DEF StageOK, Pending
<1> QED
  BY <1>1, <1>2, <1>3 DEF StageInv

LEMMA OtherCalls ==
  ASSUME WorkflowsInv, NEW r \in Run, NEW a \in Activity, ~Pending(r, a),
         UNCHANGED call \/ \E c : call' = [call EXCEPT ![r][a] = c]
  PROVE  \A s \in Run, b \in Activity :
           Pending(s, b) => call'[s][b] = call[s][b]
<1>1. call = [s \in Run |-> [b \in Activity |-> call[s][b]]]
  BY DEF WorkflowsInv, CallsInv
<1>2. ASSUME NEW s \in Run, NEW b \in Activity, Pending(s, b)
      PROVE  call'[s][b] = call[s][b]
  <2>1. <<s, b>> # <<r, a>>
    BY <1>2
  <2>2. ASSUME NEW c, call' = [call EXCEPT ![r][a] = c]
        PROVE  call'[s][b] = call[s][b]
    BY <1>1, <2>1, <2>2
  <2> QED
    BY <2>2
<1> QED
  BY <1>2

LEMMA FlowStage ==
  ASSUME WorkflowsInv, StageInv, NEW r \in Run, NEW w \in Flow,
         OpenFlow(r, w) \/ FlowStep(r, w)
  PROVE  StageInv'
<1>1. program' = program /\ UNCHANGED pieces
  BY DEF OpenFlow, FlowStep, FlowStarted, NextStep, FlowEnds, FlowCompleted,
         ServerUnchanged
<1>2. ~Pending(r, w)
  <2>1. CASE flow[r][w].pc \in {"off", "going"}
    BY <2>1 DEF WorkflowsInv, CallsInv, FlowCallOK, FlowAwaits, Pending
  <2>2. CASE flow[r][w].pc \notin {"off", "going"}
    <3>1. Answered(r, w)
      BY <2>2 DEF OpenFlow, FlowStep, FlowStarted, NextStep, FlowEnds,
                  FlowCompleted
    <3> QED
      BY <3>1 DEF Answered, Pending
  <2> QED
    BY <2>1, <2>2
<1>3. UNCHANGED call \/ \E c : call' = [call EXCEPT ![r][w] = c]
  BY DEF OpenFlow, FlowStep, FlowStarted, NextStep, FlowEnds, FlowCompleted,
         CallComplete, Send, Received
<1>4. w \in Activity
  BY DEF Activity
<1> QED
  BY <1>1, <1>2, <1>3, <1>4, OtherCalls, StageStays

LEMMA TaskStage ==
  ASSUME WorkflowsInv, StageInv, NEW r \in Run, NEW t \in Task, TaskStep(r, t)
  PROVE  StageInv'
<1>1. CASE BeginInner(r, t)
  <2>1. program.inner[t] \in Flow
    BY <1>1, ProgramIs DEF BeginInner, WorkflowsInv, StateInv
  <2> QED
    BY <1>1, <2>1, FlowStage DEF BeginInner
<1>2. CASE ~BeginInner(r, t)
  <2> DEFINE idle == exec[r][t].pc \in {"ready", "running", "saving"}
  <2>1. /\ program' = program /\ UNCHANGED pieces
        /\ idle \/ Answered(r, t)
        /\ UNCHANGED call \/ \E c : call' = [call EXCEPT ![r][t] = c]
    <3>1. CASE GenerateKey(r, t) \/ LeaseCall(r, t) \/ TaskThrows(r, t)
               \/ SaveCall(r, t)
      BY <3>1 DEF GenerateKey, LeaseCall, TaskThrows, SaveCall, Calls, Send,
                  ServerUnchanged
    <3>2. CASE KeyAnswered(r, t) \/ LeaseAnswered(r, t)
               \/ DeserializeThrows(r, t) \/ Released(r, t) \/ SaveAnswered(r, t)
      BY <3>2 DEF KeyAnswered, LeaseAnswered, DeserializeThrows, Released,
                  SaveAnswered, Received, ServerUnchanged
    <3>3. CASE TaskReturns(r, t) \/ TaskThrowsUncaught(r, t) \/ SaveExpires(r, t)
      BY <3>3 DEF TaskReturns, TaskThrowsUncaught, SaveExpires, ServerUnchanged
    <3> QED
      BY <1>2, <3>1, <3>2, <3>3 DEF TaskStep
  <2>2. ~Pending(r, t)
    BY <2>1, NothingAwaited DEF Answered, Pending
  <2>3. t \in Activity
    BY DEF Activity
  <2> QED
    BY <2>1, <2>2, <2>3, OtherCalls, StageStays
<1> QED
  BY <1>1, <1>2

LEMMA TellStage ==
  ASSUME WorkflowsInv, StageInv, NEW r \in Run, NEW a \in Activity, NEW reply,
         Tell(r, a, reply), UNCHANGED <<program, crossed>>
  PROVE  StageInv'
<1>1. Activity' = Activity
  BY SameProgram
<1>2. \A s \in Run, b \in Activity :
        <<s, b>> # <<r, a>> => call'[s][b] = call[s][b]
  BY TellIs
<1>3. stage = [s \in Run |-> [b \in Activity |-> stage[s][b]]]
  BY DEF StageInv
<1>4. /\ stage' = [s \in Run |-> [b \in Activity |-> stage'[s][b]]]
      /\ stage'[r][a] = "all"
      /\ \A s \in Run, b \in Activity :
           <<s, b>> # <<r, a>> => stage'[s][b] = stage[s][b]
  BY <1>3 DEF Tell
<1>5. ASSUME NEW s \in Run, NEW b \in Activity, stage'[s][b] # "all"
      PROVE  StageOK(s, b)'
  <2>1. /\ stage'[s][b] = stage[s][b] /\ call'[s][b] = call[s][b]
        /\ StageOK(s, b)
    BY <1>2, <1>4, <1>5 DEF StageInv
  <2> QED
    BY <2>1 DEF StageOK, Pending
<1> QED
  BY <1>1, <1>4, <1>5 DEF StageInv

LEMMA HaltsStage ==
  ASSUME WorkflowsInv, StageInv, NEW r \in Run, NEW t \in Task,
         HandlerHalts(r, t)
  PROVE  StageInv'
<1>1. UNCHANGED <<program, call>> /\ crossed' = TRUE /\ Pending(r, t)
  BY DEF HandlerHalts, LeaseFindsNoRow, LeaseMayBePut, SaveFreesLease, Halts
<1>2. Activity' = Activity /\ t \in Activity
  BY <1>1, SameProgram DEF Activity
<1>3. call[r][t].request \in TaskRequest
  BY <1>1 DEF Pending, WorkflowsInv, CallsInv, TaskCallOK
<1>4. PICK to : /\ stage' = [stage EXCEPT ![r][t] = to]
                /\ \/ /\ to \in {"rowless", "granting"}
                      /\ call[r][t].request.rpc = "lease"
                   \/ /\ to \in {"saving", "aborting"}
                      /\ call[r][t].request.rpc = "checkpoint"
  <2>1. CASE LeaseFindsNoRow(r, t)
    BY <2>1 DEF LeaseFindsNoRow, Halts
  <2>2. CASE LeaseMayBePut(r, t)
    <3>1. stage[r][t] = "rowless"
      BY <2>2 DEF LeaseMayBePut, Halts
    <3>2. call[r][t].request.rpc = "lease"
      BY <1>2, <3>1 DEF StageInv, StageOK
    <3> QED
      BY <2>2, <3>2 DEF LeaseMayBePut, Halts
  <2>3. CASE SaveFreesLease(r, t)
    <3>1. call[r][t].request.rpc = "checkpoint"
      BY <2>3 DEF SaveFreesLease
    <3>2. \E to \in {"saving", "aborting"} : Halts(r, t, "all", to)
      BY <2>3 DEF SaveFreesLease
    <3> QED
      BY <3>1, <3>2 DEF Halts
  <2> QED
    BY <2>1, <2>2, <2>3 DEF HandlerHalts
<1>5. stage = [s \in Run |-> [b \in Activity |-> stage[s][b]]]
  BY DEF StageInv
<1>6. /\ stage' = [s \in Run |-> [b \in Activity |-> stage'[s][b]]]
      /\ stage'[r][t] = to
      /\ \A s \in Run, b \in Activity :
           <<s, b>> # <<r, t>> => stage'[s][b] = stage[s][b]
  BY <1>2, <1>4, <1>5
<1>7. ASSUME NEW s \in Run, NEW b \in Activity, stage'[s][b] # "all"
      PROVE  StageOK(s, b)'
  <2>1. CASE s = r /\ b = t
    BY <1>1, <1>3, <1>4, <1>6, <2>1 DEF StageOK, Pending
  <2>2. CASE ~(s = r /\ b = t)
    <3>1. stage'[s][b] = stage[s][b] /\ StageOK(s, b)
      BY <1>6, <1>7, <2>2 DEF StageInv
    <3> QED
      BY <1>1, <3>1 DEF StageOK, Pending
  <2> QED
    BY <2>1, <2>2
<1> QED
  BY <1>2, <1>6, <1>7 DEF StageInv

LEMMA StageStart == Init => StageInv
BY DEF Init, StageInv

LEMMA StageKept == WorkflowsInv /\ StageInv /\ [Next]_vars => StageInv'
<1> SUFFICES ASSUME WorkflowsInv, StageInv, [Next]_vars PROVE StageInv'
  OBVIOUS
<1>1. ASSUME NEW r \in Run, Begin(r)
      PROVE  StageInv'
  <2>1. "outer" \in Flow
    BY ProgramIs DEF WorkflowsInv, StateInv
  <2> QED
    BY <1>1, <2>1, FlowStage DEF Begin
<1>2. ASSUME NEW r \in Run, Crash(r)
      PROVE  StageInv'
  <2>1. program' = program /\ UNCHANGED pieces
    BY <1>2 DEF Crash, ServerUnchanged
  <2>2. call = [s \in Run |-> [b \in Activity |-> call[s][b]]]
    BY DEF WorkflowsInv, CallsInv
  <2>3. \A s \in Run, b \in Activity :
          Pending(s, b) => call'[s][b] = call[s][b]
    BY <1>2, <2>2 DEF Crash
  <2> QED
    BY <2>1, <2>3, StageStays
<1>3. CASE \E r \in Run, w \in Flow : FlowStep(r, w)
  BY <1>3, FlowStage
<1>4. CASE \E r \in Run, t \in Task : TaskStep(r, t)
  BY <1>4, TaskStage
<1>5. ASSUME NEW r \in Run, NEW a \in Activity, Handle(r, a) \/ Break(r, a)
      PROVE  StageInv'
  <2>1. UNCHANGED <<program, crossed>> /\ \E reply : Tell(r, a, reply)
    BY <1>5 DEF Handle, Break, Effect
  <2> QED
    BY <2>1, TellStage
<1>6. CASE \E r \in Run, t \in Task : HandlerHalts(r, t)
  BY <1>6, HaltsStage
<1>7. CASE Restart
  <2>1. Activity' = Activity
    BY <1>7, SameProgram DEF Restart
  <2> QED
    BY <1>7, <2>1 DEF Restart, StageInv
<1>8. CASE \/ CleanupStart \/ CleanupWorkflows \/ CleanupFails \/ Tick
           \/ \E w \in Flow, p \in Position : Evict(w, p)
           \/ \E table \in {"tokens", "checkpoints"} : CleanupRows(table)
           \/ UNCHANGED vars
  <2>1. UNCHANGED <<program, call, pieces>>
    BY <1>8 DEF CleanupStart, CleanupWorkflows, CleanupFails, Tick, Evict,
                CleanupRows, vars
  <2> QED
    BY <2>1, StageStays
<1> QED
  BY <1>1, <1>2, <1>3, <1>4, <1>5, <1>6, <1>7, <1>8 DEF Next

LEMMA TypesHold == Spec => [](WorkflowsInv /\ StageInv)
<1> QED
  BY TypesStart, StageStart, TypesKept, StageKept, PTL DEF Spec

LEMMA TypesImplied == WorkflowsInv => TypeOK
<1> SUFFICES ASSUME WorkflowsInv PROVE TypeOK
  OBVIOUS
<1>1. ASSUME NEW w \in Flow
      PROVE  /\ stores[w].workflow \in WorkflowRow \cup {None}
             /\ stores[w].checkpoints \in [Position -> CheckpointRow \cup {None}]
             /\ stores[w].leases \in [Position -> LeaseEntry \cup {None}]
             /\ stores[w].fencingToken \in Nat \cup {None}
             /\ \A r \in Run : flow[r][w].fencing_token \in Nat
  BY StoresFields DEF WorkflowsInv, StateInv, FlowRecord
<1>2. ASSUME NEW r \in Run, NEW t \in Task, call[r][t] # None
      PROVE  call[r][t].request.position \in Position
  BY <1>2 DEF WorkflowsInv, CallsInv, TaskCallOK, TaskRequest
<1> DEFINE Kinds(p) ==
      {"error"} \cup CASE p = "starting" -> {"token"}
                       [] p \in {"completing", "recovering"} -> {"completed"}
                       [] p = "keying" -> {"key"}
                       [] p = "leasing" -> {"value", "wait", "granted"}
                       [] p = "checkpointing" -> {"saved"}
                       [] p = "releasing" -> {"released"}
<1>3. ASSUME NEW r \in Run, NEW a \in Activity, Answered(r, a)
      PROVE  Answer(r, a).kind \in
               Kinds(IF a \in Flow THEN flow[r][a].pc ELSE exec[r][a].pc)
  <2> DEFINE rpc == call[r][a].request.rpc
             kind == Answer(r, a).kind
  <2>1. call[r][a] # None /\ call[r][a].answer # None
    BY <1>3 DEF Answered
  <2>2. CASE a \in Flow
    <3> DEFINE p == flow[r][a].pc
    <3>1. FlowAwaits(p, rpc) /\ AnswerOK(rpc, Answer(r, a))
      BY <2>1, <2>2 DEF WorkflowsInv, CallsInv, FlowCallOK, Answer
    <3>2. CASE p = "starting" /\ rpc = "start"
      BY <3>1, <3>2, <2>2 DEF AnswerOK
    <3>3. CASE p \in {"completing", "recovering"} /\ rpc = "complete"
      BY <3>1, <3>3, <2>2 DEF AnswerOK
    <3> QED
      BY <3>1, <3>2, <3>3 DEF FlowAwaits
  <2>3. CASE a \notin Flow
    <3> DEFINE p == exec[r][a].pc
    <3>1. TaskAwaits(p, rpc) /\ AnswerOK(rpc, Answer(r, a))
      BY <2>1, <2>3 DEF WorkflowsInv, CallsInv, TaskCallOK, Answer, Activity
    <3>2. CASE p = "keying" /\ rpc = "key"
      BY <3>1, <3>2, <2>3 DEF AnswerOK
    <3>3. CASE p = "leasing" /\ rpc = "lease"
      BY <3>1, <3>3, <2>3 DEF AnswerOK
    <3>4. CASE p = "checkpointing" /\ rpc = "checkpoint"
      BY <3>1, <3>4, <2>3 DEF AnswerOK
    <3>5. CASE p = "releasing" /\ rpc = "release"
      BY <3>1, <3>5, <2>3 DEF AnswerOK
    <3> QED
      BY <3>1, <3>2, <3>3, <3>4, <3>5 DEF TaskAwaits
  <2> QED
    BY <2>2, <2>3
<1> QED
  BY <1>1, <1>2, <1>3 DEF TypeOK

\* Stores, runners, requests and answers have their types: whoever awaits an
\* RPC finds an answer which that RPC gives, and an execute never asks for a
\* position that its workflow does not have.
THEOREM WorkflowsTypeCorrect == Spec => []TypeOK
<1> QED
  BY TypesHold, TypesImplied, PTL
-----------------------------------------------------------------------------
(* What a caller of getWorkflowStatus can rely on                          *)

\* The row of a completed workflow tells when its retention is over, and the
\* job works with a time that has been.
DueInv ==
  /\ due \in [Flow -> Nat \cup {None}]
  /\ job # None => job.timestamp \in Nat /\ job.timestamp <= now
  /\ \A w \in Flow :
       LET row == stores[w].workflow
       IN  row # None /\ row.status = Completed =>
             due[w] # None /\ row.expire_at = due[w]

LEMMA RpcRow ==
  ASSUME NEW db \in StoresRecord, NEW q \in Request, NEW n \in Nat,
         NEW o,
         MayDo(db, q, n, o)
  PROVE  \/ /\ o.reply.kind # "completed"
            /\ o.stores.workflow \in {InsertWorkflow(db.workflow), db.workflow}
         \/ /\ o.reply.kind = "completed" /\ n + q.expire_after \in Nat
            /\ o.stores.workflow =
                 CompleteWorkflow(db.workflow, n + q.expire_after)
<1>1. CASE q.rpc = "start" /\ o \in StartRpc(db)
  BY <1>1, StartIs
<1>2. CASE q \in FlowRequest /\ q.rpc = "complete" /\ o \in CompleteRpc(db, q, n)
  <2>1. n + q.expire_after \in Nat
    BY <1>2 DEF FlowRequest
  <2> QED
    BY <1>2, <2>1, CompleteIs
<1>3. CASE q \in TaskRequest /\ q.rpc = "lease" /\ o \in LeaseRpc(db, q, n)
  <2>1. /\ o.stores.workflow = db.workflow
        /\ o.reply.kind \in {"value", "wait", "granted", "error"}
    BY <1>3, LeaseIs
  <2> QED
    BY <2>1
<1>4. CASE q \in TaskRequest /\ q.rpc = "checkpoint" /\ o \in CheckpointRpc(db, q, n)
  <2>1. o.stores.workflow = db.workflow /\ o.reply.kind \in {"saved", "error"}
    BY <1>4, CheckpointIs
  <2> QED
    BY <2>1
<1>5. CASE q \in TaskRequest /\ q.rpc = "release" /\ o \in ReleaseRpc(db, q)
  BY <1>5, ReleaseIs
<1>6. CASE q \in TaskRequest /\ q.rpc = "key" /\ o \in KeyRpc(db, q, Uuid)
  BY <1>6, KeyIs
<1>7. CASE q \in TaskRequest /\ Piece(db, q, n, o)
  BY <1>7, PieceIs
<1> QED
  BY <1>1, <1>2, <1>3, <1>4, <1>5, <1>6, <1>7, OutcomesAre DEF MayDo

\* What becomes of the row of a workflow and of its retention.
RowKept(w) == stores'[w].workflow = stores[w].workflow /\ due'[w] = due[w]
RowInserted(w) ==
  stores'[w].workflow = InsertWorkflow(stores[w].workflow) /\ due'[w] = due[w]
RowCompleted(w) ==
  \E n \in Nat : /\ stores'[w].workflow = CompleteWorkflow(stores[w].workflow, n)
                 /\ due'[w] = n
RowDeleted(w) ==
  /\ job # None /\ Due(w, job.timestamp)
  /\ stores'[w].workflow = None /\ due'[w] = None

LEMMA EffectRows ==
  ASSUME WorkflowsInv, StageInv, DueInv, NEW r \in Run, NEW a \in Activity, NEW o,
         Pending(r, a), Effect(r, a, o)
  PROVE  /\ due' \in [Flow -> Nat \cup {None}]
         /\ \A w \in Flow : RowKept(w) \/ RowInserted(w) \/ RowCompleted(w)
<1> DEFINE v == FlowOf(a)
           q == call[r][a].request
           db == stores[v]
<1>1. v \in Flow
  BY ActivityIs DEF WorkflowsInv, StateInv
<1>2. /\ db \in StoresRecord /\ now \in Nat /\ stores \in [Flow -> StoresRecord]
      /\ due \in [Flow -> Nat \cup {None}]
  BY <1>1 DEF WorkflowsInv, StateInv, DueInv
<1>3. q \in Request
  BY RequestIs DEF Pending
<1>4. /\ o \in AnyOutcome(r, a)
      /\ stores' = [stores EXCEPT ![v] = o.stores]
      /\ due' = IF o.reply.kind = "completed"
                THEN [due EXCEPT ![v] = now + q.expire_after] ELSE due
  BY DEF Effect
<1>5. \/ /\ o.reply.kind # "completed"
         /\ o.stores.workflow \in {InsertWorkflow(db.workflow), db.workflow}
      \/ /\ o.reply.kind = "completed" /\ now + q.expire_after \in Nat
         /\ o.stores.workflow =
              CompleteWorkflow(db.workflow, now + q.expire_after)
  <2>1. MayDo(db, q, now, o)
    BY <1>1, <1>4, AnyOutcomeIs
  <2> HIDE DEF db, q
  <2> QED
    BY <1>2, <1>3, <2>1, RpcRow
<1>6. due' \in [Flow -> Nat \cup {None}]
  BY <1>2, <1>4, <1>5
<1>7. ASSUME NEW w \in Flow, w # v
      PROVE  RowKept(w)
  BY <1>2, <1>4, <1>7 DEF RowKept
<1>8. stores'[v] = o.stores
  BY <1>1, <1>2, <1>4
<1>9. CASE o.reply.kind # "completed"
  BY <1>4, <1>5, <1>6, <1>7, <1>8, <1>9 DEF RowKept, RowInserted
<1>10. CASE o.reply.kind = "completed"
  <2>1. due'[v] = now + q.expire_after
    BY <1>1, <1>2, <1>4, <1>10
  <2> QED
    BY <1>5, <1>6, <1>7, <1>8, <1>10, <2>1 DEF RowCompleted
<1> QED
  BY <1>9, <1>10

LEMMA RowsMove ==
  ASSUME WorkflowsInv, StageInv, DueInv, [Next]_vars
  PROVE  /\ program' = program
         /\ due' \in [Flow -> Nat \cup {None}]
         /\ \A w \in Flow :
              \/ RowKept(w) \/ RowInserted(w) \/ RowCompleted(w)
              \/ RowDeleted(w)
<1>1. stores \in [Flow -> StoresRecord] /\ due \in [Flow -> Nat \cup {None}]
  BY DEF WorkflowsInv, StateInv, DueInv
<1>2. CASE UNCHANGED <<program, stores, due>>
  BY <1>1, <1>2 DEF RowKept
<1>3. ASSUME NEW r \in Run, NEW a \in Activity, Handle(r, a) \/ Break(r, a),
             ~ UNCHANGED <<program, stores, due>>
      PROVE  /\ program' = program
             /\ due' \in [Flow -> Nat \cup {None}]
             /\ \A w \in Flow : RowKept(w) \/ RowInserted(w) \/ RowCompleted(w)
  <2>1. Pending(r, a) /\ \E o : Effect(r, a, o)
    BY <1>3 DEF Handle, Break
  <2>2. program' = program
    BY <2>1 DEF Effect
  <2> QED
    BY <2>1, <2>2, EffectRows
<1>4. CASE Restart
  <2>1. UNCHANGED <<program, due>>
    BY <1>4 DEF Restart
  <2>2. ASSUME NEW w \in Flow
        PROVE  stores'[w].workflow = stores[w].workflow
    <3> DEFINE new == [stores[w] EXCEPT !.leases = NewStores.leases]
    <3>1. new.workflow = stores[w].workflow
      BY <1>1, EmptyStores, FieldReplaced
    <3>2. stores'[w] = new
      BY <1>4 DEF Restart
    <3> HIDE DEF new
    <3> QED
      BY <3>1, <3>2
  <2> QED
    BY <1>1, <2>1, <2>2 DEF RowKept
<1>5. ASSUME NEW v \in Flow, NEW p \in Position, Evict(v, p)
      PROVE  UNCHANGED <<program, due>> /\ \A w \in Flow : RowKept(w)
  <2>1. UNCHANGED <<program, due>>
    BY <1>5 DEF Evict, history
  <2>2. ASSUME NEW w \in Flow
        PROVE  stores'[w].workflow = stores[w].workflow
    BY <1>1, <1>5 DEF Evict, StoresRecord
  <2> QED
    BY <2>1, <2>2 DEF RowKept
<1>6. ASSUME NEW table \in {"tokens", "checkpoints"}, CleanupRows(table)
      PROVE  UNCHANGED <<program, due>> /\ \A w \in Flow : RowKept(w)
  <2>1. UNCHANGED <<program, due>>
    BY <1>6 DEF CleanupRows
  <2>2. ASSUME NEW w \in Flow
        PROVE  stores'[w].workflow = stores[w].workflow
    <3>1. stores'[w] \in {Without(stores[w], table), stores[w]}
      BY <1>6 DEF CleanupRows, Delete
    <3> QED
      BY <1>1, <3>1, WithoutIs
  <2> QED
    BY <2>1, <2>2 DEF RowKept
<1>7. CASE CleanupWorkflows
  <2>1. program' = program /\ job # None
    BY <1>7 DEF CleanupWorkflows
  <2>2. due' \in [Flow -> Nat \cup {None}]
    BY <1>1, <1>7 DEF CleanupWorkflows
  <2>3. ASSUME NEW w \in Flow
        PROVE  RowKept(w) \/ RowDeleted(w)
    <3>1. CASE Due(w, job.timestamp)
      <4> DEFINE new == [stores[w] EXCEPT !.workflow = None]
      <4>1. new.workflow = None
        BY <1>1, FieldReplaced
      <4>2. stores'[w] = new /\ due'[w] = None
        BY <1>7, <3>1 DEF CleanupWorkflows
      <4> HIDE DEF new
      <4> QED
        BY <2>1, <3>1, <4>1, <4>2 DEF RowDeleted
    <3>2. CASE ~Due(w, job.timestamp)
      BY <1>7, <3>2 DEF CleanupWorkflows, RowKept
    <3> QED
      BY <3>1, <3>2
  <2> QED
    BY <2>1, <2>2, <2>3
<1>8. ASSUME NEW r \in Run, NEW t \in Task, HandlerHalts(r, t)
      PROVE  UNCHANGED <<program, due>> /\ \A w \in Flow : RowKept(w)
  BY <1>8, HaltsKeep DEF RowKept, history
<1>9. \/ UNCHANGED <<program, stores, due>>
      \/ \E r \in Run, t \in Task : HandlerHalts(r, t)
      \/ \E r \in Run, a \in Activity : Handle(r, a) \/ Break(r, a)
      \/ Restart \/ CleanupWorkflows
      \/ \E w \in Flow, p \in Position : Evict(w, p)
      \/ \E table \in {"tokens", "checkpoints"} : CleanupRows(table)
  <2>1. ASSUME NEW r \in Run, NEW w \in Flow, FlowStep(r, w)
        PROVE  UNCHANGED <<program, stores, due>>
    BY <2>1 DEF FlowStep, FlowStarted, NextStep, FlowEnds, FlowCompleted,
                ServerUnchanged, history
  <2>2. ASSUME NEW r \in Run, NEW t \in Task, TaskStep(r, t)
        PROVE  UNCHANGED <<program, stores, due>>
    <3>1. CASE BeginInner(r, t) \/ GenerateKey(r, t) \/ KeyAnswered(r, t)
               \/ LeaseCall(r, t) \/ LeaseAnswered(r, t)
               \/ DeserializeThrows(r, t) \/ TaskThrowsUncaught(r, t)
      BY <3>1 DEF BeginInner, OpenFlow, GenerateKey, KeyAnswered, LeaseCall,
                  LeaseAnswered, DeserializeThrows, TaskThrowsUncaught, Calls,
                  ServerUnchanged, history
    <3>2. CASE TaskReturns(r, t) \/ TaskThrows(r, t) \/ Released(r, t)
               \/ SaveCall(r, t) \/ SaveAnswered(r, t) \/ SaveExpires(r, t)
      BY <3>2 DEF TaskReturns, TaskThrows, Released, SaveCall, SaveAnswered,
                  SaveExpires, Calls, ServerUnchanged
    <3> QED
      BY <2>2, <3>1, <3>2 DEF TaskStep
  <2>3. ASSUME NEW r \in Run, Begin(r) \/ Crash(r)
        PROVE  UNCHANGED <<program, stores, due>>
    BY <2>3 DEF Begin, OpenFlow, Crash, ServerUnchanged
  <2>4. CASE CleanupStart \/ CleanupFails \/ Tick \/ UNCHANGED vars
    BY <2>4 DEF CleanupStart, CleanupFails, Tick, vars, history
  <2> QED
    BY <2>1, <2>2, <2>3, <2>4 DEF Next
<1> QED
  BY <1>1, <1>2, <1>3, <1>4, <1>5, <1>6, <1>7, <1>8, <1>9

\* Only Tick moves the clock, and only the job's own actions its time.
LEMMA WhoMovesTime ==
  ASSUME [Next]_vars
  PROVE  /\ UNCHANGED now \/ Tick
         /\ \/ job' \in {job, None} \/ CleanupStart
            \/ \E table \in {"tokens", "checkpoints"} : CleanupRows(table)
<1>1. ASSUME NEW r \in Run, NEW w \in Flow, FlowStep(r, w)
      PROVE  UNCHANGED <<now, job>>
  BY <1>1 DEF FlowStep, FlowStarted, NextStep, FlowEnds, FlowCompleted,
              ServerUnchanged
<1>2. ASSUME NEW r \in Run, NEW t \in Task, TaskStep(r, t)
      PROVE  UNCHANGED <<now, job>>
  BY <1>2
     DEF TaskStep, BeginInner, OpenFlow, GenerateKey, KeyAnswered, LeaseCall,
         LeaseAnswered, DeserializeThrows, TaskReturns, TaskThrows,
         TaskThrowsUncaught, Released, SaveCall, SaveAnswered, SaveExpires,
         Calls, ServerUnchanged
<1>3. ASSUME NEW r \in Run, NEW a \in Activity, Handle(r, a) \/ Break(r, a)
      PROVE  UNCHANGED <<now, job>>
  BY <1>3 DEF Handle, Break, Effect
<1>4. ASSUME NEW r \in Run, Begin(r) \/ Crash(r)
      PROVE  UNCHANGED <<now, job>>
  BY <1>4 DEF Begin, OpenFlow, Crash, ServerUnchanged
<1>5. CASE \/ Restart \/ CleanupStart \/ CleanupWorkflows \/ CleanupFails
           \/ \E w \in Flow, p \in Position : Evict(w, p)
           \/ \E table \in {"tokens", "checkpoints"} : CleanupRows(table)
           \/ Tick \/ UNCHANGED vars
  BY <1>5 DEF Restart, CleanupStart, CleanupWorkflows, CleanupFails, Evict,
              CleanupRows, Tick, vars
<1>6. ASSUME NEW r \in Run, NEW t \in Task, HandlerHalts(r, t)
      PROVE  UNCHANGED <<now, job>>
  BY <1>6 DEF HandlerHalts, LeaseFindsNoRow, LeaseMayBePut, SaveFreesLease,
              Halts
<1> QED
  BY <1>1, <1>2, <1>3, <1>4, <1>5, <1>6 DEF Next

LEMMA DueStart == Init => DueInv
BY DEF Init, DueInv, NewStores

LEMMA DueKept ==
  ASSUME WorkflowsInv, StageInv, DueInv, [Next]_vars
  PROVE  DueInv'
<1>1. /\ Flow' = Flow /\ due' \in [Flow -> Nat \cup {None}]
      /\ \A w \in Flow : RowKept(w) \/ RowInserted(w) \/ RowCompleted(w)
                         \/ RowDeleted(w)
  BY RowsMove, SameProgram
<1>2. now \in Nat /\ stores \in [Flow -> StoresRecord]
  BY DEF WorkflowsInv, StateInv
<1>3. job' # None => job'.timestamp \in Nat /\ job'.timestamp <= now'
  <2>1. now' \in Nat /\ now <= now'
    <3>1. CASE Tick
      BY <1>2, <3>1 DEF Tick
    <3>2. CASE UNCHANGED now
      BY <1>2, <3>2
    <3> QED
      BY <3>1, <3>2, WhoMovesTime
  <2>2. CASE job' \in {job, None}
    BY <1>2, <2>1, <2>2 DEF DueInv
  <2>3. CASE CleanupStart
    BY <1>2, <2>3 DEF CleanupStart
  <2>4. CASE \E table \in {"tokens", "checkpoints"} : CleanupRows(table)
    <3>1. job # None /\ \E x : job' = [job EXCEPT !.todo = x]
      BY <2>4 DEF CleanupRows
    <3>2. job'.timestamp = job.timestamp
      BY <3>1
    <3> QED
      BY <1>2, <2>1, <3>1, <3>2 DEF DueInv
  <2> QED
    BY <2>2, <2>3, <2>4, WhoMovesTime
<1>4. ASSUME NEW w \in Flow, stores'[w].workflow # None,
             stores'[w].workflow.status = Completed
      PROVE  due'[w] # None /\ stores'[w].workflow.expire_at = due'[w]
  <2> DEFINE row == stores[w].workflow
  <2>1. row \in WorkflowRow \cup {None}
    BY <1>2, StoresFields
  <2>2. row # None /\ row.status = Completed =>
          due[w] # None /\ row.expire_at = due[w]
    BY DEF DueInv
  <2>3. CASE RowKept(w)
    BY <1>4, <2>2, <2>3 DEF RowKept
  <2>4. CASE RowInserted(w)
    <3>1. row # None
      BY <1>4, <2>4 DEF RowInserted, InsertWorkflow, Running, Completed
    <3> QED
      BY <1>4, <2>2, <2>4, <3>1 DEF RowInserted, InsertWorkflow
  <2>5. CASE RowCompleted(w)
    BY <1>4, <2>5, NoneAssumption DEF RowCompleted, CompleteWorkflow
  <2>6. CASE RowDeleted(w)
    BY <1>4, <2>6 DEF RowDeleted
  <2> QED
    BY <1>1, <2>3, <2>4, <2>5, <2>6
<1> QED
  BY <1>1, <1>3, <1>4 DEF DueInv

LEMMA DueHolds == Spec => []DueInv
<1> QED
  BY TypesHold, DueStart, DueKept, PTL DEF Spec

LEMMA StatusStep ==
  ASSUME WorkflowsInv, StageInv, DueInv, [Next]_vars, NEW w \in Flow
  PROVE  LET told == StatusRpc(stores[w])
             tells == StatusRpc(stores'[w])
         IN  /\ told = Running => tells \in {Running, Completed}
             /\ told = Completed /\ tells # told =>
                  /\ tells = "workflow_not_found"
                  /\ due[w] # None /\ due[w] < now
<1> DEFINE row == stores[w].workflow
<1>1. row \in WorkflowRow \cup {None} /\ now \in Nat
  BY StoresFields DEF WorkflowsInv, StateInv
<1>2. row # None /\ row.status = Completed =>
        due[w] # None /\ row.expire_at = due[w]
  BY DEF DueInv
<1>3. due[w] \in Nat \cup {None}
  BY DEF DueInv
<1>4. CASE RowKept(w)
  BY <1>1, <1>4
     DEF RowKept, StatusRpc, Running, Completed, WorkflowRow
<1>5. CASE RowInserted(w)
  BY <1>1, <1>5
     DEF RowInserted, InsertWorkflow, StatusRpc, Running, Completed, WorkflowRow
<1>6. CASE RowCompleted(w)
  <2>1. PICK n \in Nat : stores'[w].workflow = CompleteWorkflow(row, n)
    BY <1>6 DEF RowCompleted
  <2>2. CASE row = None
    BY <2>1, <2>2 DEF CompleteWorkflow, StatusRpc, Running, Completed
  <2>3. CASE row # None
    <3>1. stores'[w].workflow = [status |-> Completed, expire_at |-> n]
      BY <2>1, <2>3 DEF CompleteWorkflow
    <3>2. stores'[w].workflow # None
      BY <3>1, WorkflowsAssumption DEF WorkflowRow
    <3>3. StatusRpc(stores'[w]) = Completed
      BY <3>1, <3>2 DEF StatusRpc
    <3> QED
      BY <3>3 DEF Running, Completed
  <2> QED
    BY <2>2, <2>3
<1>7. CASE RowDeleted(w)
  <2>1. /\ row # None /\ row.status = Completed /\ row.expire_at # None
        /\ row.expire_at < job.timestamp /\ stores'[w].workflow = None
    BY <1>7 DEF RowDeleted, Due, Expired
  <2>2. due[w] # None /\ due[w] < job.timestamp
    BY <1>2, <2>1
  <2>3. job.timestamp \in Nat /\ job.timestamp <= now
    BY <1>7 DEF RowDeleted, DueInv
  <2>4. due[w] < now
    BY <1>1, <1>3, <2>2, <2>3
  <2> QED
    BY <2>1, <2>2, <2>4 DEF StatusRpc, Running, Completed
<1> QED
  BY <1>4, <1>5, <1>6, <1>7, RowsMove

\* A workflow that was found is found until its retention after the last
\* complete is over, whatever is started, completed, lost or cleaned up
\* meanwhile, and a completed one stays completed.
THEOREM StatusIsKept == Spec => StatusKept
<1>1. WorkflowsInv /\ StageInv /\ DueInv /\ [Next]_vars =>
        [\A w \in Flow :
           LET told == StatusRpc(stores[w])
               tells == StatusRpc(stores'[w])
           IN  /\ told = Running => tells \in {Running, Completed}
               /\ told = Completed /\ tells # told =>
                    /\ tells = "workflow_not_found"
                    /\ due[w] # None /\ due[w] < now]_vars
  BY StatusStep
<1> QED
  BY <1>1, TypesHold, DueHolds, PTL DEF Spec, StatusKept
-----------------------------------------------------------------------------
(* Whose result an execute is answered with, and what is kept              *)

\* A runner whose executes are called in turn is at the position of the step
\* that it is in, or past it when that is done.
PlaceInv ==
  InTurn => \A r \in Run, w \in Flow :
    flow[r][w].pc # "crashed" =>
      flow[r][w].position = IF StepDone(r, w) THEN flow[r][w].step
                            ELSE flow[r][w].step - 1

\* So the request of a task is for the position of its step; and if no key is
\* generated, it is under the task's own.
RequestInv ==
  /\ \A r \in Run, w \in Flow : \A i \in DOMAIN program.steps[w] :
       \A t \in program.steps[w][i] :
         call[r][t] # None =>
           /\ InTurn => call[r][t].request.position = i - 1
           /\ program.generated = {} =>
                call[r][t].request.idempotency_key = t
  /\ program.generated = {} =>
       \A r \in Run, t \in Task :
         exec[r][t].key = t /\ exec[r][t].pc # "keying"

\* A result is stored under its own key, or at its own position.
RowsInv ==
  \A w \in Flow, p \in Position :
    LET row == stores[w].checkpoints[p]
    IN  row # None /\ row.value # None =>
          /\ program.generated = {} => row.value = row.idempotency_key
          /\ InTurn => \A i \in DOMAIN program.steps[w] :
                         p = i - 1 => row.value \in program.steps[w][i]

AnswersInv == program.generated = {} \/ InTurn => ResultOfOwnTask

\* What is kept is stored.
KeptInv ==
  InTurn =>
    \A w \in Flow : \A i \in DOMAIN program.steps[w] :
      \A t \in program.steps[w][i] \cap kept :
        i - 1 \in Position /\ stores[w].checkpoints[i - 1] # None

OwnInv == PlaceInv /\ RequestInv /\ RowsInv /\ AnswersInv /\ KeptInv

LEMMA OwnStart == Init => OwnInv
<1> SUFFICES ASSUME Init PROVE OwnInv
  OBVIOUS
<1>1. program \in Explored
  BY DEF Init
<1>2. PlaceInv
  BY DEF Init, PlaceInv, StepDone, Current
<1>3. RequestInv
  BY <1>1, StepIs DEF Init, RequestInv, Activity
<1>4. RowsInv
  BY EmptyStores DEF Init, RowsInv
<1>5. AnswersInv
  BY DEF Init, AnswersInv, ResultOfOwnTask, Answered, Activity
<1>6. KeptInv
  BY DEF Init, KeptInv
<1> QED
  BY <1>2, <1>3, <1>4, <1>5, <1>6 DEF OwnInv

\* The step in which an execute is at work has no other task.
LEMMA AloneInStep ==
  ASSUME program \in Explored, InTurn, NEW w \in Flow,
         NEW i \in DOMAIN program.steps[w]
  PROVE  \E t : program.steps[w][i] = {t}
<1>1. Cardinality(program.steps[w][i]) = 1
  BY DEF InTurn, OneByOne, Flow
<1>2. IsFiniteSet(program.steps[w][i])
  <2>1. IsFiniteSet(TasksOf(w)) /\ program.steps[w][i] \subseteq TasksOf(w)
    BY ProgramIs, StepIs
  <2> QED
    BY <2>1, FS_Subset
<1> QED
  BY <1>1, <1>2, FS_Singleton

\* An execute at work asks for the position of its step.
LEMMA PositionIs ==
  ASSUME WorkflowsInv, PlaceInv, InTurn, NEW r \in Run, NEW w \in Flow,
         NEW i \in DOMAIN program.steps[w], NEW t \in program.steps[w][i],
         exec[r][t].pc \notin {"off", "returned", "crashed"}
  PROVE  /\ FlowOf(t) = w /\ flow[r][w].position = i - 1
         /\ flow[r][w].step = i /\ ~StepDone(r, w) /\ Current(r, w) = {t}
<1>1. program \in Explored
  BY DEF WorkflowsInv, StateInv
<1>2. t \in Task /\ t \in TasksOf(w) /\ i \in Nat \ {0}
  BY <1>1, StepIs
<1>3. FlowOf(t) = w
  BY <1>1, <1>2, TaskIs
<1>4. flow[r][w].step = i
  BY <1>2, AtWork
<1>5. flow[r][w].pc # "crashed"
  BY <1>2 DEF WorkflowsInv, CrashInv
<1>6. Current(r, w) = program.steps[w][i]
  BY <1>2, <1>4 DEF Current
<1>7. ~StepDone(r, w)
  BY <1>6 DEF StepDone
<1>8. flow[r][w].position = i - 1
  BY <1>4, <1>5, <1>7 DEF PlaceInv
<1>9. Current(r, w) = {t}
  BY <1>1, <1>6, AloneInStep
<1> QED
  BY <1>3, <1>4, <1>7, <1>8, <1>9

\* An execute calls for what its runner and its key say at that time.
Asks(r, t) ==
  /\ exec[r][t].pc \notin {"off", "returned", "crashed"}
  /\ \E rpc : call'[r][t] = [request |-> TaskCall(r, t, rpc), answer |-> None]

KeysStay ==
  program.generated = {} =>
    \A r \in Run, t \in Task :
      /\ exec'[r][t].key = exec[r][t].key
      /\ exec'[r][t].pc = "keying" => exec[r][t].pc = "keying"

LEMMA ClientKeeps ==
  ASSUME WorkflowsInv, OwnInv, UNCHANGED <<program, stores, kept>>, PlaceInv',
         \A r \in Run, t \in Task :
           \/ call'[r][t] = call[r][t] \/ call'[r][t] = None \/ Asks(r, t),
         KeysStay
  PROVE  OwnInv'
<1>p. program \in Explored
  BY DEF WorkflowsInv, StateInv
<1>s. Flow' = Flow /\ Task' = Task /\ InTurn' = InTurn
  BY SameProgram DEF InTurn
<1>1. RequestInv'
  <2>1. ASSUME NEW r \in Run, NEW w \in Flow, NEW i \in DOMAIN program.steps[w],
               NEW t \in program.steps[w][i], call'[r][t] # None
        PROVE  /\ InTurn => call'[r][t].request.position = i - 1
               /\ program.generated = {} =>
                    call'[r][t].request.idempotency_key = t
    <3>1. t \in Task
      BY <1>p, StepIs
    <3>2. CASE call'[r][t] = call[r][t]
      BY <2>1, <3>2 DEF OwnInv, RequestInv
    <3>3. CASE Asks(r, t)
      <4>1. PICK rpc : call'[r][t] = [request |-> TaskCall(r, t, rpc),
                                      answer |-> None]
        BY <3>3 DEF Asks
      <4>2. call'[r][t].request = TaskCall(r, t, rpc)
        BY <4>1
      <4>3. /\ TaskCall(r, t, rpc).position = flow[r][FlowOf(t)].position
            /\ TaskCall(r, t, rpc).idempotency_key = exec[r][t].key
        BY DEF TaskCall, RunnerOf
      <4>4. InTurn => flow[r][FlowOf(t)].position = i - 1
        BY <3>3, PositionIs DEF Asks, OwnInv
      <4>5. program.generated = {} => exec[r][t].key = t
        BY <3>1 DEF OwnInv, RequestInv
      <4> QED
        BY <4>2, <4>3, <4>4, <4>5
    <3> QED
      BY <2>1, <3>1, <3>2, <3>3
  <2>2. program.generated = {} =>
          \A r \in Run, t \in Task :
            exec'[r][t].key = t /\ exec'[r][t].pc # "keying"
    BY DEF OwnInv, RequestInv, KeysStay
  <2> QED
    BY <1>s, <2>1, <2>2 DEF RequestInv
<1>2. RowsInv'
  BY <1>s DEF OwnInv, RowsInv
<1>3. AnswersInv'
  <2> SUFFICES ASSUME program.generated = {} \/ InTurn
               PROVE  ResultOfOwnTask'
    BY <1>s DEF AnswersInv
  <2>1. ASSUME NEW r \in Run, NEW t \in Task, Answered(r, t)',
               Answer(r, t)'.kind = "value"
        PROVE  Answer(r, t)'.value = t
    <3>1. call'[r][t] = call[r][t]
      <4>1. call'[r][t] # None /\ call'[r][t].answer # None
        BY <2>1 DEF Answered
      <4>2. ASSUME NEW q, call'[r][t] = [request |-> q, answer |-> None]
            PROVE  FALSE
        BY <4>1, <4>2
      <4>3. ~Asks(r, t)
        BY <4>2 DEF Asks
      <4> QED
        BY <4>1, <4>3
    <3>2. Answered(r, t) /\ Answer(r, t).kind = "value"
      BY <2>1, <3>1 DEF Answered, Answer
    <3>3. Answer(r, t).value = t
      BY <3>2 DEF OwnInv, AnswersInv, ResultOfOwnTask
    <3> QED
      BY <3>1, <3>3 DEF Answer
  <2> QED
    BY <1>s, <2>1 DEF ResultOfOwnTask
<1>4. KeptInv'
  BY <1>s DEF OwnInv, KeptInv
<1> QED
  BY <1>1, <1>2, <1>3, <1>4 DEF OwnInv

LEMMA PlaceStays ==
  ASSUME WorkflowsInv, PlaceInv, program' = program,
         \A r \in Run, w \in Flow : flow'[r][w].pc # "crashed" =>
           /\ flow[r][w].pc # "crashed"
           /\ flow'[r][w].step = flow[r][w].step
           /\ flow'[r][w].position = flow[r][w].position
           /\ \A t \in Task :
                exec'[r][t].pc = "returned" <=> exec[r][t].pc = "returned"
  PROVE  PlaceInv'
<1>p. program \in Explored
  BY DEF WorkflowsInv, StateInv
<1>s. Flow' = Flow /\ InTurn' = InTurn
  BY SameProgram DEF InTurn
<1> SUFFICES ASSUME InTurn, NEW r \in Run, NEW w \in Flow,
                    flow'[r][w].pc # "crashed"
             PROVE  flow'[r][w].position = IF StepDone(r, w)' THEN flow'[r][w].step
                                           ELSE flow'[r][w].step - 1
  BY <1>s DEF PlaceInv
<1>1. Current(r, w)' = Current(r, w)
  BY DEF Current
<1>2. Current(r, w) \subseteq Task
  <2>1. CASE flow[r][w].step = 0
    BY <2>1 DEF Current
  <2>2. CASE flow[r][w].step # 0
    <3>1. flow[r][w].step \in DOMAIN program.steps[w]
      <4>1. flow[r][w].step \in Nat
        BY DEF WorkflowsInv, StateInv, FlowRecord
      <4>2. flow[r][w].step <= Len(program.steps[w])
        BY DEF WorkflowsInv, StepsInv
      <4> QED
        BY <1>p, <2>2, <4>1, <4>2, StepsAre
    <3> QED
      BY <1>p, <2>2, <3>1, StepIs DEF Current
  <2> QED
    BY <2>1, <2>2
<1>3. StepDone(r, w)' <=> StepDone(r, w)
  BY <1>1, <1>2 DEF StepDone
<1> QED
  BY <1>3 DEF PlaceInv

\* What a workflow function does to the state that these invariants are about.
LEMMA FlowActs ==
  ASSUME WorkflowsInv, NEW r \in Run, NEW w \in Flow,
         \/ OpenFlow(r, w) \/ FlowStarted(r, w) \/ FlowEnds(r, w)
         \/ FlowCompleted(r, w)
  PROVE  /\ UNCHANGED <<program, stores, exec, kept>>
         /\ \A s \in Run, v \in Flow :
              /\ flow'[s][v].step = flow[s][v].step
              /\ flow'[s][v].position = flow[s][v].position
              /\ flow'[s][v].pc = "crashed" <=> flow[s][v].pc = "crashed"
         /\ \A s \in Run, t \in Task : call'[s][t] = call[s][t]
<1>p. program \in Explored
  BY DEF WorkflowsInv, StateInv
<1>1. UNCHANGED <<program, stores, exec, kept>>
  BY DEF OpenFlow, FlowStarted, FlowEnds, FlowCompleted, ServerUnchanged, history
<1>2. flow \in [Run -> [Flow -> FlowRecord]] /\ flow[r][w] \in FlowRecord
  BY DEF WorkflowsInv, StateInv
<1>3. flow[r][w].pc \in {"off", "starting", "going", "completing", "recovering"}
  BY DEF OpenFlow, FlowStarted, FlowEnds, FlowCompleted
<1>4. \E f : /\ flow' = [flow EXCEPT ![r][w] = f]
             /\ f.step = flow[r][w].step /\ f.position = flow[r][w].position
             /\ f.pc # "crashed"
  <2>1. ASSUME NEW p \in {"starting", "completing", "recovering", "completed",
                          "failed"}, FlowBecomes(r, w, p)
        PROVE  \E f : /\ flow' = [flow EXCEPT ![r][w] = f]
                      /\ f.step = flow[r][w].step
                      /\ f.position = flow[r][w].position
                      /\ f.pc # "crashed"
    BY <2>1, FlowBecomesIs DEF FlowPoint
  <2>2. ASSUME NEW k, flow' = [flow EXCEPT ![r][w] = Going(@, k)]
        PROVE  \E f : /\ flow' = [flow EXCEPT ![r][w] = f]
                      /\ f.step = flow[r][w].step
                      /\ f.position = flow[r][w].position
                      /\ f.pc # "crashed"
    <3> DEFINE f == Going(flow[r][w], k)
    <3>1. flow' = [flow EXCEPT ![r][w] = f]
      BY <1>2, <2>2
    <3>2. /\ f.step = flow[r][w].step /\ f.position = flow[r][w].position
          /\ f.pc # "crashed"
      BY <1>2 DEF Going, FlowRecord
    <3> HIDE DEF f
    <3> QED
      BY <3>1, <3>2
  <2>3. \/ \E p \in {"starting", "completing", "recovering", "completed",
                     "failed"} : FlowBecomes(r, w, p)
        \/ \E k : flow' = [flow EXCEPT ![r][w] = Going(@, k)]
    <3>1. CASE FlowStarted(r, w)
      <4>1. CASE Answer(r, w).kind = "error"
        BY <1>2, <3>1, <4>1 DEF FlowStarted, FlowBecomes
      <4>2. CASE Answer(r, w).kind # "error"
        BY <1>2, <3>1, <4>2 DEF FlowStarted
      <4> QED
        BY <4>1, <4>2
    <3>2. CASE OpenFlow(r, w) \/ FlowEnds(r, w) \/ FlowCompleted(r, w)
      BY <3>2 DEF OpenFlow, FlowEnds, FlowCompleted, CallComplete
    <3> QED
      BY <3>1, <3>2
  <2> QED
    BY <2>1, <2>2, <2>3
<1>5. \/ UNCHANGED call
      \/ \E c : call' = [call EXCEPT ![r][w] = c]
  BY DEF OpenFlow, FlowStarted, FlowEnds, FlowCompleted, CallComplete, Send,
         Received
<1>6. \A s \in Run, t \in Task : call'[s][t] = call[s][t]
  <2>1. call = [s \in Run |-> [a \in Activity |-> call[s][a]]]
    BY DEF WorkflowsInv, CallsInv
  <2>2. w \notin Task
    BY <1>p, FlowIs
  <2>3. ASSUME NEW c, call' = [call EXCEPT ![r][w] = c],
               NEW s \in Run, NEW t \in Task
        PROVE  call'[s][t] = call[s][t]
    <3>1. t \in Activity /\ w \in Activity /\ t # w
      BY <2>2 DEF Activity
    <3> QED
      BY <2>1, <2>3, <3>1
  <2> QED
    BY <1>5, <2>3
<1>7. ASSUME NEW s \in Run, NEW v \in Flow
      PROVE  /\ flow'[s][v].step = flow[s][v].step
             /\ flow'[s][v].position = flow[s][v].position
             /\ flow'[s][v].pc = "crashed" <=> flow[s][v].pc = "crashed"
  BY <1>2, <1>3, <1>4
<1> QED
  BY <1>1, <1>6, <1>7

LEMMA FlowOwn ==
  ASSUME WorkflowsInv, OwnInv, NEW r \in Run, NEW w \in Flow,
         \/ OpenFlow(r, w) \/ FlowStarted(r, w) \/ FlowEnds(r, w)
         \/ FlowCompleted(r, w)
  PROVE  OwnInv'
<1>1. /\ UNCHANGED <<program, stores, exec, kept>>
      /\ \A s \in Run, v \in Flow :
           /\ flow'[s][v].step = flow[s][v].step
           /\ flow'[s][v].position = flow[s][v].position
           /\ flow'[s][v].pc = "crashed" <=> flow[s][v].pc = "crashed"
      /\ \A s \in Run, t \in Task : call'[s][t] = call[s][t]
  BY FlowActs
<1>2. PlaceInv'
  BY <1>1, PlaceStays DEF OwnInv
<1>3. KeysStay
  BY <1>1 DEF KeysStay
<1> QED
  BY <1>1, <1>2, <1>3, ClientKeeps

LEMMA NextStepOwn ==
  ASSUME WorkflowsInv, OwnInv, NEW r \in Run, NEW w \in Flow, NextStep(r, w)
  PROVE  OwnInv'
<1> DEFINE i == flow[r][w].step + 1
           tasks == program.steps[w][i]
<1>1. /\ program \in Explored
      /\ flow \in [Run -> [Flow -> FlowRecord]] /\ flow[r][w] \in FlowRecord
      /\ exec \in [Run -> [Task -> ExecRecord]]
  BY DEF WorkflowsInv, StateInv
<1>2. /\ i \in DOMAIN program.steps[w] /\ i \in Nat \ {0}
      /\ i - 1 = flow[r][w].step
  BY <1>1, StepsAre DEF NextStep, FlowRecord
<1>3. tasks \subseteq TasksOf(w) /\ tasks \subseteq Task
  BY <1>1, <1>2, StepIs
<1>4. /\ UNCHANGED <<program, stores, call, kept>> /\ flow[r][w].pc = "going"
      /\ StepDone(r, w) /\ Enter(r, w, i)
  BY DEF NextStep, ServerUnchanged, history
<1>s. Flow' = Flow /\ InTurn' = InTurn
  BY <1>4, SameProgram DEF InTurn
<1>5. \A t \in tasks : exec[r][t].pc = "off"
  BY <1>2, <1>4 DEF WorkflowsInv, StepsInv
<1> HIDE DEF i, tasks
<1>6. /\ flow'[r][w].step = i
      /\ \A s \in Run, v \in Flow :
           /\ flow'[s][v].pc = flow[s][v].pc
           /\ flow'[s][v].position = flow[s][v].position
           /\ <<s, v>> # <<r, w>> => flow'[s][v].step = flow[s][v].step
  <2> DEFINE f == [flow[r][w] EXCEPT !.step = i]
  <2>1. /\ f.step = i /\ f.pc = flow[r][w].pc
        /\ f.position = flow[r][w].position
    BY <1>1, <1>2 DEF FlowRecord
  <2>2. flow' = [flow EXCEPT ![r][w] = f]
    BY <1>1, <1>4 DEF Enter
  <2> HIDE DEF f
  <2> QED
    BY <1>1, <2>1, <2>2
<1>7. /\ \A t \in tasks : exec'[r][t].pc = "ready"
      /\ \A s \in Run, t \in Task :
           /\ exec'[s][t].key = exec[s][t].key
           /\ ~(s = r /\ t \in tasks) => exec'[s][t] = exec[s][t]
  <2> DEFINE x == [t \in Task |-> IF t \in tasks
                                  THEN [exec[r][t] EXCEPT !.pc = "ready"]
                                  ELSE exec[r][t]]
  <2>1. \A e \in ExecRecord : /\ [e EXCEPT !.pc = "ready"].key = e.key
                              /\ [e EXCEPT !.pc = "ready"].pc = "ready"
    BY DEF ExecRecord
  <2>2. /\ \A t \in Task : x[t].key = exec[r][t].key
        /\ \A t \in Task : t \in tasks => x[t].pc = "ready"
        /\ \A t \in Task : t \notin tasks => x[t] = exec[r][t]
    <3>1. \A t \in Task : exec[r][t] \in ExecRecord
      BY <1>1
    <3>2. \A t \in Task :
            /\ [exec[r][t] EXCEPT !.pc = "ready"].key = exec[r][t].key
            /\ [exec[r][t] EXCEPT !.pc = "ready"].pc = "ready"
      BY <2>1, <3>1
    <3> QED
      BY <3>2
  <2>3. exec' = [exec EXCEPT ![r] = x]
    BY <1>1, <1>4 DEF Enter, tasks
  <2> HIDE DEF x
  <2> QED
    BY <1>1, <1>3, <2>2, <2>3
<1>8. PlaceInv'
  <2> SUFFICES ASSUME InTurn, NEW s \in Run, NEW v \in Flow,
                      flow'[s][v].pc # "crashed"
               PROVE  flow'[s][v].position =
                        IF StepDone(s, v)' THEN flow'[s][v].step
                        ELSE flow'[s][v].step - 1
    BY <1>s DEF PlaceInv
  <2>1. flow[s][v].position = IF StepDone(s, v) THEN flow[s][v].step
                              ELSE flow[s][v].step - 1
    BY <1>6 DEF OwnInv, PlaceInv
  <2>2. CASE <<s, v>> = <<r, w>>
    <3>1. Current(r, w)' = tasks
      BY <1>2, <1>4, <1>6 DEF Current, tasks
    <3>2. \E t : tasks = {t}
      BY <1>1, <1>2, AloneInStep DEF tasks
    <3>3. ~StepDone(r, w)'
      BY <1>7, <3>1, <3>2 DEF StepDone
    <3> QED
      BY <1>2, <1>4, <1>6, <2>1, <2>2, <3>3
  <2>3. CASE <<s, v>> # <<r, w>>
    <3>1. Current(s, v)' = Current(s, v)
      BY <1>4, <1>6, <2>3 DEF Current
    <3>2. \A t \in Current(s, v) : t \in TasksOf(v) /\ t \in Task
      <4>1. flow[s][v].step \in Nat /\ flow[s][v].step <= Len(program.steps[v])
        <5>1. flow[s][v].step \in Nat
          BY <1>1 DEF FlowRecord
        <5>2. flow[s][v].pc # "crashed"
          BY <1>6
        <5>3. flow[s][v].step <= Len(program.steps[v])
          BY <5>2 DEF WorkflowsInv, StepsInv
        <5> QED
          BY <5>1, <5>3
      <4>2. CASE flow[s][v].step # 0
        <5>1. flow[s][v].step \in DOMAIN program.steps[v]
          BY <1>1, <4>1, <4>2, StepsAre
        <5> QED
          BY <1>1, <4>2, <5>1, StepIs DEF Current
      <4>3. CASE flow[s][v].step = 0
        BY <4>3 DEF Current
      <4> QED
        BY <4>2, <4>3
    <3>3. \A t \in Current(s, v) : exec'[s][t] = exec[s][t]
      BY <1>1, <1>3, <1>7, <2>3, <3>2, ProgramIs
    <3>4. StepDone(s, v)' <=> StepDone(s, v)
      BY <3>1, <3>3 DEF StepDone
    <3> QED
      BY <1>6, <2>1, <2>3, <3>4
  <2> QED
    BY <2>2, <2>3
<1>9. KeysStay
  BY <1>7 DEF KeysStay
<1> QED
  BY <1>4, <1>8, <1>9, ClientKeeps

LEMMA CrashOwn ==
  ASSUME WorkflowsInv, OwnInv, NEW r \in Run, Crash(r)
  PROVE  OwnInv'
<1>1. /\ flow \in [Run -> [Flow -> FlowRecord]]
      /\ exec \in [Run -> [Task -> ExecRecord]]
      /\ call = [s \in Run |-> [a \in Activity |-> call[s][a]]]
  BY DEF WorkflowsInv, StateInv, CallsInv
<1>2. UNCHANGED <<program, stores, kept>>
  BY DEF Crash, ServerUnchanged
<1>3. /\ \A w \in Flow : flow'[r][w].pc = "crashed"
      /\ \A s \in Run \ {r} : flow'[s] = flow[s]
  <2>1. \A f \in FlowRecord : [f EXCEPT !.pc = "crashed"].pc = "crashed"
    BY DEF FlowRecord
  <2> DEFINE x == [w \in Flow |-> [flow[r][w] EXCEPT !.pc = "crashed"]]
  <2>2. \A w \in Flow : x[w].pc = "crashed"
    <3>1. \A w \in Flow : [flow[r][w] EXCEPT !.pc = "crashed"].pc = "crashed"
      <4>1. \A w \in Flow : flow[r][w] \in FlowRecord
        BY <1>1
      <4> QED
        BY <2>1, <4>1
    <3> QED
      BY <3>1
  <2>3. flow' = [flow EXCEPT ![r] = x]
    BY <1>1 DEF Crash
  <2> HIDE DEF x
  <2> QED
    BY <1>1, <2>2, <2>3
<1>4. /\ \A t \in Task : /\ exec'[r][t].key = exec[r][t].key
                          /\ exec'[r][t].pc = "crashed"
      /\ \A s \in Run \ {r} : exec'[s] = exec[s]
  <2>1. \A e \in ExecRecord : /\ [e EXCEPT !.pc = "crashed"].key = e.key
                              /\ [e EXCEPT !.pc = "crashed"].pc = "crashed"
    BY DEF ExecRecord
  <2> DEFINE x == [t \in Task |-> [exec[r][t] EXCEPT !.pc = "crashed"]]
  <2>2. \A t \in Task : x[t].key = exec[r][t].key /\ x[t].pc = "crashed"
    <3>1. \A t \in Task :
            /\ [exec[r][t] EXCEPT !.pc = "crashed"].key = exec[r][t].key
            /\ [exec[r][t] EXCEPT !.pc = "crashed"].pc = "crashed"
      <4>1. \A t \in Task : exec[r][t] \in ExecRecord
        BY <1>1
      <4> QED
        BY <2>1, <4>1
    <3> QED
      BY <3>1
  <2>3. exec' = [exec EXCEPT ![r] = x]
    BY <1>1 DEF Crash
  <2> HIDE DEF x
  <2> QED
    BY <1>1, <2>2, <2>3
<1>5. \A s \in Run, t \in Task : call'[s][t] \in {call[s][t], None}
  <2> DEFINE x == [a \in Activity |-> IF Pending(r, a) THEN call[r][a] ELSE None]
  <2>1. call' = [call EXCEPT ![r] = x]
    BY <1>1 DEF Crash
  <2>2. \A t \in Task : x[t] \in {call[r][t], None}
    BY DEF Activity
  <2> HIDE DEF x
  <2> QED
    BY <1>1, <2>1, <2>2
<1>6. PlaceInv'
  BY <1>2, <1>3, <1>4, PlaceStays DEF OwnInv
<1>7. KeysStay
  BY <1>4 DEF KeysStay
<1> QED
  BY <1>2, <1>5, <1>6, <1>7, ClientKeeps

\* What an execute does to the state that these invariants are about.
ExecActs(r, t) ==
  /\ exec[r][t].pc \notin {"off", "returned", "crashed"}
  /\ \E e : /\ exec' = [exec EXCEPT ![r][t] = e]
            /\ program.generated = {} =>
                 e.key = exec[r][t].key /\ e.pc # "keying"
            /\ \/ e.pc = "returned" /\ Return(r, t)
               \/ e.pc \notin {"off", "returned", "crashed"} /\ UNCHANGED flow
CallActs(r, t) ==
  \E c : /\ call' = [call EXCEPT ![r][t] = c]
         /\ \/ c \in {call[r][t], None}
            \/ \E rpc : c = [request |-> TaskCall(r, t, rpc), answer |-> None]

LEMMA BecomesActs ==
  ASSUME WorkflowsInv, NEW r \in Run, NEW t \in Task,
         NEW p \in TaskPoint \ {"off", "returned", "crashed"},
         Becomes(r, t, p), UNCHANGED flow,
         p = "keying" => program.generated # {},
         exec[r][t].pc \notin {"off", "returned", "crashed"}
  PROVE  ExecActs(r, t)
<1>1. PICK e \in ExecRecord : /\ exec' = [exec EXCEPT ![r][t] = e]
                              /\ e.pc = p /\ e.key = exec[r][t].key
  BY BecomesIs
<1> QED
  BY <1>1 DEF ExecActs

LEMMA ReturnActs ==
  ASSUME WorkflowsInv, NEW r \in Run, NEW t \in Task, Return(r, t),
         exec[r][t].pc \notin {"off", "returned", "crashed"}
  PROVE  ExecActs(r, t)
<1> DEFINE e == Returned(exec[r][t])
<1>1. exec \in [Run -> [Task -> ExecRecord]] /\ exec[r][t] \in ExecRecord
  BY DEF WorkflowsInv, StateInv
<1>2. e.pc = "returned" /\ e.key = exec[r][t].key
  BY <1>1 DEF Returned, ExecRecord
<1>3. exec' = [exec EXCEPT ![r][t] = e]
  BY <1>1 DEF Return
<1> HIDE DEF e
<1> QED
  BY <1>2, <1>3 DEF ExecActs

LEMMA ThrowActs ==
  ASSUME WorkflowsInv, NEW r \in Run, NEW t \in Task, Throw(r, t),
         exec[r][t].pc \notin {"off", "returned", "crashed"}
  PROVE  ExecActs(r, t)
BY BecomesActs DEF Throw, TaskPoint

LEMMA CallsAct ==
  ASSUME NEW r \in Run, NEW t \in Task, NEW rpc,
         Send(r, t, TaskCall(r, t, rpc))
  PROVE  CallActs(r, t)
<1> DEFINE c == [request |-> TaskCall(r, t, rpc), answer |-> None]
<1>1. call' = [call EXCEPT ![r][t] = c]
  BY DEF Send
<1> QED
  BY <1>1 DEF CallActs

LEMMA NoCallActs ==
  ASSUME WorkflowsInv, NEW r \in Run, NEW t \in Task,
         Received(r, t) \/ UNCHANGED call
  PROVE  CallActs(r, t)
<1>1. CASE Received(r, t)
  BY <1>1 DEF Received, CallActs
<1>2. CASE UNCHANGED call
  <2>1. call = [s \in Run |-> [a \in Activity |-> call[s][a]]]
    BY DEF WorkflowsInv, CallsInv
  <2>2. call' = [call EXCEPT ![r][t] = call[r][t]]
    BY <1>2, <2>1 DEF Activity
  <2> QED
    BY <2>2 DEF CallActs
<1> QED
  BY <1>1, <1>2

LEMMA KeyAnsweredActs ==
  ASSUME WorkflowsInv, RequestInv, NEW r \in Run, NEW t \in Task,
         KeyAnswered(r, t)
  PROVE  ExecActs(r, t)
<1>1. exec[r][t].pc = "keying" /\ UNCHANGED flow
  BY DEF KeyAnswered
<1>2. exec \in [Run -> [Task -> ExecRecord]] /\ exec[r][t] \in ExecRecord
  BY DEF WorkflowsInv, StateInv
<1>3. program.generated # {}
  BY <1>1 DEF RequestInv
<1>4. CASE Answer(r, t).kind = "error"
  <2>1. Becomes(r, t, "threw")
    BY <1>4 DEF KeyAnswered, Becomes
  <2> QED
    BY <1>1, <2>1, BecomesActs DEF TaskPoint
<1>5. CASE Answer(r, t).kind # "error"
  <2> DEFINE e == Keyed(exec[r][t], Answer(r, t).idempotency_key)
  <2>1. e.pc = "ready"
    BY <1>2 DEF Keyed, ExecRecord
  <2>2. exec' = [exec EXCEPT ![r][t] = e]
    BY <1>2, <1>5 DEF KeyAnswered
  <2> HIDE DEF e
  <2> QED
    BY <1>1, <1>3, <2>1, <2>2 DEF ExecActs
<1> QED
  BY <1>4, <1>5

LEMMA LeaseAnsweredActs ==
  ASSUME WorkflowsInv, NEW r \in Run, NEW t \in Task, LeaseAnswered(r, t)
  PROVE  ExecActs(r, t)
<1>1. exec[r][t].pc = "leasing"
  BY DEF LeaseAnswered
<1>2. exec \in [Run -> [Task -> ExecRecord]] /\ exec[r][t] \in ExecRecord
  BY DEF WorkflowsInv, StateInv
<1>3. CASE Return(r, t)
  BY <1>1, <1>3, ReturnActs
<1>4. CASE Becomes(r, t, "ready") /\ UNCHANGED flow
  BY <1>1, <1>4, BecomesActs DEF TaskPoint
<1>5. CASE /\ exec' = [exec EXCEPT ![r][t] = Leased(@, now + Leases(program, t))]
           /\ UNCHANGED flow
  <2> DEFINE e == Leased(exec[r][t], now + Leases(program, t))
  <2>1. e.pc = "running" /\ e.key = exec[r][t].key
    BY <1>2 DEF Leased, ExecRecord
  <2>2. exec' = [exec EXCEPT ![r][t] = e]
    BY <1>2, <1>5
  <2> HIDE DEF e
  <2> QED
    BY <1>1, <1>5, <2>1, <2>2 DEF ExecActs
<1>6. CASE exec' = [exec EXCEPT ![r][t] = Retried(@)] /\ UNCHANGED flow
  <2> DEFINE e == Retried(exec[r][t])
  <2>1. e.pc = "ready" /\ e.key = exec[r][t].key
    BY <1>2 DEF Retried, ExecRecord
  <2>2. exec' = [exec EXCEPT ![r][t] = e]
    BY <1>2, <1>6
  <2> HIDE DEF e
  <2> QED
    BY <1>1, <1>6, <2>1, <2>2 DEF ExecActs
<1>7. CASE Throw(r, t)
  BY <1>1, <1>7, ThrowActs
<1> QED
  BY <1>3, <1>4, <1>5, <1>6, <1>7, Zenon DEF LeaseAnswered

LEMMA TaskActs ==
  ASSUME WorkflowsInv, RequestInv, NEW r \in Run, NEW t \in Task,
         TaskStep(r, t), ~BeginInner(r, t)
  PROVE  /\ UNCHANGED <<program, stores, kept>>
         /\ ExecActs(r, t) /\ CallActs(r, t)
<1>1. CASE GenerateKey(r, t)
  <2>1. /\ exec[r][t].pc = "ready" /\ program.generated # {}
        /\ Calls(r, t, "keying", "key")
    BY <1>1 DEF GenerateKey
  <2>2. ExecActs(r, t)
    BY <2>1, BecomesActs DEF Calls, TaskPoint
  <2> QED
    BY <2>1, <2>2, CallsAct DEF Calls, ServerUnchanged
<1>2. CASE KeyAnswered(r, t)
  BY <1>2, KeyAnsweredActs, NoCallActs
     DEF KeyAnswered, ServerUnchanged, history
<1>3. CASE LeaseCall(r, t)
  <2>1. exec[r][t].pc = "ready" /\ Calls(r, t, "leasing", "lease")
    BY <1>3 DEF LeaseCall
  <2>2. ExecActs(r, t)
    BY <2>1, BecomesActs DEF Calls, TaskPoint
  <2> QED
    BY <2>1, <2>2, CallsAct DEF Calls, ServerUnchanged
<1>4. CASE LeaseAnswered(r, t)
  BY <1>4, LeaseAnsweredActs, NoCallActs DEF LeaseAnswered, ServerUnchanged
<1>5. CASE TaskReturns(r, t)
  <2>1. /\ exec[r][t].pc = "running" /\ Becomes(r, t, "saving")
        /\ UNCHANGED <<flow, call, program, stores, kept>>
    BY <1>5 DEF TaskReturns, ServerUnchanged
  <2>2. ExecActs(r, t)
    BY <2>1, BecomesActs DEF TaskPoint
  <2> QED
    BY <2>1, <2>2, NoCallActs
<1>6. CASE TaskThrows(r, t)
  <2>1. exec[r][t].pc = "running" /\ Calls(r, t, "releasing", "release")
    BY <1>6 DEF TaskThrows
  <2>2. ExecActs(r, t)
    BY <2>1, BecomesActs DEF Calls, TaskPoint
  <2> QED
    BY <2>1, <2>2, CallsAct DEF Calls, ServerUnchanged
<1>7. CASE Released(r, t)
  BY <1>7, ThrowActs, NoCallActs DEF Released, ServerUnchanged
<1>8. CASE SaveCall(r, t)
  <2>1. exec[r][t].pc = "saving" /\ Calls(r, t, "checkpointing", "checkpoint")
    BY <1>8 DEF SaveCall
  <2>2. ExecActs(r, t)
    BY <2>1, BecomesActs DEF Calls, TaskPoint
  <2> QED
    BY <2>1, <2>2, CallsAct DEF Calls, ServerUnchanged
<1>9. CASE SaveAnswered(r, t)
  <2>1. exec[r][t].pc = "checkpointing" /\ Received(r, t)
        /\ UNCHANGED <<program, stores, kept>>
    BY <1>9 DEF SaveAnswered, ServerUnchanged
  <2>2. \/ Return(r, t) \/ Throw(r, t)
        \/ Becomes(r, t, "saving") /\ UNCHANGED flow
    BY <1>9, Zenon DEF SaveAnswered
  <2>3. ExecActs(r, t)
    BY <2>1, <2>2, ReturnActs, ThrowActs, BecomesActs DEF TaskPoint
  <2> QED
    BY <2>1, <2>3, NoCallActs
<1>10. CASE SaveExpires(r, t)
  BY <1>10, ReturnActs, NoCallActs DEF SaveExpires, ServerUnchanged
<1>11. CASE DeserializeThrows(r, t)
  BY <1>11, ThrowActs, NoCallActs DEF DeserializeThrows, ServerUnchanged
<1>12. CASE TaskThrowsUncaught(r, t)
  BY <1>12, ThrowActs, NoCallActs DEF TaskThrowsUncaught, ServerUnchanged
<1> QED
  BY <1>1, <1>2, <1>3, <1>4, <1>5, <1>6, <1>7, <1>8, <1>9, <1>10, <1>11, <1>12
     DEF TaskStep

\* The execute that returns is the only one of its step.
LEMMA ReturnPlaces ==
  ASSUME WorkflowsInv, PlaceInv, NEW r \in Run, NEW t \in Task,
         program' = program, Return(r, t), NEW e,
         exec' = [exec EXCEPT ![r][t] = e], e.pc = "returned",
         exec[r][t].pc \notin {"off", "returned", "crashed"}
  PROVE  PlaceInv'
<1> DEFINE w == FlowOf(t)
<1>p. /\ program \in Explored
      /\ flow \in [Run -> [Flow -> FlowRecord]]
      /\ exec \in [Run -> [Task -> ExecRecord]]
  BY DEF WorkflowsInv, StateInv
<1>s. Flow' = Flow /\ InTurn' = InTurn
  BY SameProgram DEF InTurn
<1>w. /\ w \in Flow /\ t \in TasksOf(w)
      /\ \A v \in Flow : t \in TasksOf(v) => v = w
  BY <1>p, TaskIs
<1>e. /\ exec'[r][t].pc = "returned"
      /\ \A s \in Run, u \in Task : <<s, u>> # <<r, t>> =>
           exec'[s][u] = exec[s][u]
  BY <1>p
<1>f. /\ flow'[r][w].position = flow[r][w].position + 1
      /\ \A s \in Run, v \in Flow :
           /\ flow'[s][v].pc = flow[s][v].pc
           /\ flow'[s][v].step = flow[s][v].step
           /\ <<s, v>> # <<r, w>> =>
                flow'[s][v].position = flow[s][v].position
  <2>1. flow[r][w] \in FlowRecord
    BY <1>p, <1>w
  <2> DEFINE f == [flow[r][w] EXCEPT !.position = flow[r][w].position + 1]
  <2>2. /\ f.position = flow[r][w].position + 1
        /\ f.pc = flow[r][w].pc /\ f.step = flow[r][w].step
    BY <2>1 DEF FlowRecord
  <2>3. flow' = [flow EXCEPT ![r][w] = f]
    BY <1>p, <1>w DEF Return
  <2> HIDE DEF f, w
  <2> QED
    BY <1>p, <1>w, <2>2, <2>3
<1> SUFFICES ASSUME InTurn, NEW s \in Run, NEW v \in Flow,
                    flow'[s][v].pc # "crashed"
             PROVE  flow'[s][v].position = IF StepDone(s, v)' THEN flow'[s][v].step
                                           ELSE flow'[s][v].step - 1
  BY <1>s DEF PlaceInv
<1> HIDE DEF w
<1>1. Current(s, v)' = Current(s, v)
  BY <1>f DEF Current
<1>2. CASE <<s, v>> = <<r, w>>
  <2>1. PICK i \in DOMAIN program.steps[w] : t \in program.steps[w][i]
    BY <1>w DEF TasksOf
  <2>2. /\ flow[r][w].position = i - 1 /\ flow[r][w].step = i
        /\ Current(r, w) = {t}
    BY <1>w, <2>1, PositionIs
  <2>3. i \in Nat
    BY <1>p, <1>w, <2>1, StepIs
  <2>4. s = r /\ v = w
    BY <1>2
  <2>5. Current(s, v)' = {t}
    BY <1>1, <2>2, <2>4
  <2>6. StepDone(s, v)'
    BY <1>e, <2>4, <2>5 DEF StepDone
  <2>7. flow'[s][v].position = i /\ flow'[s][v].step = i
    BY <1>w, <1>f, <2>2, <2>3, <2>4
  <2> QED
    BY <2>4, <2>6, <2>7
<1>3. CASE <<s, v>> # <<r, w>>
  <2>1. Current(s, v) \subseteq TasksOf(v)
    <3>1. CASE flow[s][v].step = 0
      BY <3>1 DEF Current
    <3>2. CASE flow[s][v].step # 0
      <4>1. flow[s][v].step \in Nat
        BY <1>p DEF FlowRecord
      <4>2. flow[s][v].step <= Len(program.steps[v])
        BY <1>f DEF WorkflowsInv, StepsInv
      <4>3. flow[s][v].step \in DOMAIN program.steps[v]
        BY <1>p, <3>2, <4>1, <4>2, StepsAre
      <4> QED
        BY <1>p, <3>2, <4>3, StepIs DEF Current
    <3> QED
      BY <3>1, <3>2
  <2>2. \A u \in Current(s, v) : exec'[s][u] = exec[s][u]
    BY <1>3, <1>w, <1>e, <2>1 DEF Task
  <2>3. StepDone(s, v)' <=> StepDone(s, v)
    BY <1>1, <2>2 DEF StepDone
  <2>4. flow[s][v].position = IF StepDone(s, v) THEN flow[s][v].step
                              ELSE flow[s][v].step - 1
    BY <1>f DEF PlaceInv
  <2> QED
    BY <1>3, <1>f, <2>3, <2>4
<1> QED
  BY <1>2, <1>3

LEMMA TaskOwn ==
  ASSUME WorkflowsInv, OwnInv, NEW r \in Run, NEW t \in Task, TaskStep(r, t)
  PROVE  OwnInv'
<1>1. CASE BeginInner(r, t)
  <2>1. program.inner[t] \in Flow
    BY <1>1, ProgramIs DEF BeginInner, WorkflowsInv, StateInv
  <2> QED
    BY <1>1, <2>1, FlowOwn DEF BeginInner
<1>2. CASE ~BeginInner(r, t)
  <2>1. /\ UNCHANGED <<program, stores, kept>>
        /\ ExecActs(r, t) /\ CallActs(r, t)
    BY <1>2, TaskActs DEF OwnInv
  <2>2. PICK e : /\ exec' = [exec EXCEPT ![r][t] = e]
                 /\ program.generated = {} =>
                      e.key = exec[r][t].key /\ e.pc # "keying"
                 /\ \/ e.pc = "returned" /\ Return(r, t)
                    \/ /\ e.pc \notin {"off", "returned", "crashed"}
                       /\ UNCHANGED flow
    BY <2>1 DEF ExecActs
  <2>3. exec[r][t].pc \notin {"off", "returned", "crashed"}
    BY <2>1 DEF ExecActs
  <2>4. exec \in [Run -> [Task -> ExecRecord]]
    BY DEF WorkflowsInv, StateInv
  <2>5. /\ exec'[r][t] = e
        /\ \A s \in Run, u \in Task : <<s, u>> # <<r, t>> =>
             exec'[s][u] = exec[s][u]
    BY <2>2, <2>4
  <2>6. KeysStay
    BY <2>2, <2>5 DEF KeysStay
  <2>7. PlaceInv'
    <3>1. CASE e.pc = "returned" /\ Return(r, t)
      BY <2>1, <2>2, <2>3, <3>1, ReturnPlaces DEF OwnInv
    <3>2. CASE e.pc \notin {"off", "returned", "crashed"} /\ UNCHANGED flow
      <4>1. \A s \in Run, u \in Task :
              exec'[s][u].pc = "returned" <=> exec[s][u].pc = "returned"
        BY <2>3, <2>5, <3>2
      <4> QED
        BY <2>1, <3>2, <4>1, PlaceStays DEF OwnInv
    <3> QED
      BY <2>2, <3>1, <3>2
  <2>8. ASSUME NEW s \in Run, NEW u \in Task
        PROVE  \/ call'[s][u] = call[s][u] \/ call'[s][u] = None \/ Asks(s, u)
    <3>1. PICK c : /\ call' = [call EXCEPT ![r][t] = c]
                   /\ \/ c \in {call[r][t], None}
                      \/ \E rpc : c = [request |-> TaskCall(r, t, rpc),
                                       answer |-> None]
      BY <2>1 DEF CallActs
    <3>2. call = [x \in Run |-> [a \in Activity |-> call[x][a]]]
      BY DEF WorkflowsInv, CallsInv
    <3>3. /\ call'[r][t] = c
          /\ <<s, u>> # <<r, t>> => call'[s][u] = call[s][u]
      BY <3>1, <3>2 DEF Activity
    <3> QED
      BY <2>3, <3>1, <3>3 DEF Asks
  <2> QED
    BY <2>1, <2>6, <2>7, <2>8, ClientKeeps
<1> QED
  BY <1>1, <1>2

\* What a call does to the results stored at its position: nothing, or it
\* stores a key without a value, or the result of the caller if there is no row.
Saves(db, q, o) ==
  /\ o.reply.kind = "saved"
  /\ o.stores.checkpoints[q.position] =
       InsertCheckpoint(db.checkpoints[q.position], q.idempotency_key, q.value)
Draws(db, q, o) ==
  /\ o.reply.kind # "saved"
  /\ db.checkpoints[q.position] = None
  /\ \E k \in Uuid : o.stores.checkpoints[q.position] =
                       [idempotency_key |-> k, value |-> None]

LEMMA RpcResults ==
  ASSUME NEW db \in StoresRecord, NEW q \in Request, NEW n \in Nat,
         NEW o,
         MayDo(db, q, n, o)
  PROVE  \/ o.stores.checkpoints = db.checkpoints /\ o.reply.kind # "saved"
         \/ /\ q \in TaskRequest
            /\ Saves(db, q, o) \/ Draws(db, q, o)
            /\ \A p \in Position \ {q.position} :
                 o.stores.checkpoints[p] = db.checkpoints[p]
<1>1. CASE q.rpc = "start" /\ o \in StartRpc(db)
  BY <1>1, StartIs
<1>2. CASE q \in FlowRequest /\ q.rpc = "complete" /\ o \in CompleteRpc(db, q, n)
  BY <1>2, CompleteIs
<1>3. CASE q \in TaskRequest /\ q.rpc = "lease" /\ o \in LeaseRpc(db, q, n)
  <2>1. /\ o.stores.checkpoints = db.checkpoints
        /\ o.reply.kind \in {"value", "wait", "granted", "error"}
    BY <1>3, LeaseIs
  <2> QED
    BY <2>1
<1>4. CASE q \in TaskRequest /\ q.rpc = "checkpoint" /\ o \in CheckpointRpc(db, q, n)
  BY <1>4, CheckpointIs DEF Saves
<1>5. CASE q \in TaskRequest /\ q.rpc = "release" /\ o \in ReleaseRpc(db, q)
  BY <1>5, ReleaseIs
<1>6. CASE q \in TaskRequest /\ q.rpc = "key" /\ o \in KeyRpc(db, q, Uuid)
  <2>1. o.reply.kind \in {"key", "error"}
    BY <1>6, KeyIs
  <2> QED
    BY <1>6, <2>1, KeyIs DEF Draws
<1>7. CASE q \in TaskRequest /\ Piece(db, q, n, o)
  BY <1>7, PieceIs DEF Saves
<1> QED
  BY <1>1, <1>2, <1>3, <1>4, <1>5, <1>6, <1>7, OutcomesAre DEF MayDo

LEMMA RpcValue ==
  ASSUME NEW db \in StoresRecord, NEW q \in Request, NEW n \in Nat,
         NEW o,
         MayDo(db, q, n, o), o.reply.kind \in {"value", "granted"}
  PROVE  LET row == db.checkpoints[q.position]
         IN  /\ q \in TaskRequest
             /\ o.reply.kind = "value" =>
                  /\ row # None /\ row.idempotency_key = q.idempotency_key
                  /\ row.value # None /\ o.reply.value = row.value
             /\ o.reply.kind = "granted" /\ o \in Outcomes(db, q, n, Uuid) =>
                  row = None
<1>1. CASE q.rpc = "start" /\ o \in StartRpc(db)
  BY <1>1, StartIs
<1>2. CASE q \in FlowRequest /\ q.rpc = "complete" /\ o \in CompleteRpc(db, q, n)
  BY <1>2, CompleteIs
<1>3. CASE q \in TaskRequest /\ q.rpc = "lease" /\ o \in LeaseRpc(db, q, n)
  BY <1>3, LeaseIs
<1>4. CASE q \in TaskRequest /\ q.rpc = "checkpoint" /\ o \in CheckpointRpc(db, q, n)
  <2>1. o.reply.kind \in {"saved", "error"}
    BY <1>4, CheckpointIs
  <2> QED
    BY <2>1
<1>5. CASE q \in TaskRequest /\ q.rpc = "release" /\ o \in ReleaseRpc(db, q)
  BY <1>5, ReleaseIs
<1>6. CASE q \in TaskRequest /\ q.rpc = "key" /\ o \in KeyRpc(db, q, Uuid)
  <2>1. o.reply.kind \in {"key", "error"}
    BY <1>6, KeyIs
  <2> QED
    BY <2>1
<1>7. CASE /\ q \in TaskRequest /\ Piece(db, q, n, o)
           /\ o \notin Outcomes(db, q, n, Uuid)
  BY <1>7, PieceIs
<1> QED
  BY <1>1, <1>2, <1>3, <1>4, <1>5, <1>6, <1>7, OutcomesAre DEF MayDo

\* A caller that sends the request of an execute is the execute of a task, and
\* asks for the result of that task.
LEMMA CallerIs ==
  ASSUME WorkflowsInv, OwnInv, NEW r \in Run, NEW a \in Activity,
         call[r][a] # None, call[r][a].request \in TaskRequest
  PROVE  /\ a \in Task /\ call[r][a].request.value = a
         /\ call[r][a].request.position \in Position
         /\ program.generated = {} => call[r][a].request.idempotency_key = a
         /\ InTurn =>
              \A i \in DOMAIN program.steps[FlowOf(a)] :
                /\ a \in program.steps[FlowOf(a)][i] =>
                     call[r][a].request.position = i - 1
                /\ call[r][a].request.position = i - 1 =>
                     program.steps[FlowOf(a)][i] = {a}
<1> DEFINE w == FlowOf(a)
           q == call[r][a].request
<1>p. program \in Explored
  BY DEF WorkflowsInv, StateInv
<1>1. a \in Task
  <2>1. CASE a \in Flow
    <3>1. q \in FlowRequest
      BY <2>1 DEF WorkflowsInv, CallsInv, FlowCallOK
    <3>2. q.rpc \in {"start", "complete"}
      BY <3>1 DEF FlowRequest
    <3>3. q.rpc \in {"key", "lease", "checkpoint", "release"}
      BY DEF TaskRequest
    <3> QED
      BY <3>2, <3>3
  <2> QED
    BY <2>1 DEF Activity
<1>2. q.value = a
  BY <1>1 DEF WorkflowsInv, CallsInv, TaskCallOK
<1>3. q.position \in Position
  BY DEF TaskRequest
<1>4. w \in Flow /\ a \in TasksOf(w)
  BY <1>p, <1>1, TaskIs
<1>5. PICK i \in DOMAIN program.steps[w] : a \in program.steps[w][i]
  BY <1>4 DEF TasksOf
<1>6. program.generated = {} => q.idempotency_key = a
  BY <1>4, <1>5 DEF OwnInv, RequestInv
<1>7. ASSUME InTurn, NEW j \in DOMAIN program.steps[w]
      PROVE  /\ a \in program.steps[w][j] => q.position = j - 1
             /\ q.position = j - 1 => program.steps[w][j] = {a}
  <2>1. \A k \in DOMAIN program.steps[w] :
          a \in program.steps[w][k] => q.position = k - 1
    BY <1>4, <1>7 DEF OwnInv, RequestInv
  <2>2. i \in Nat /\ j \in Nat
    BY <1>p, <1>4, StepIs
  <2>3. \E t : program.steps[w][i] = {t}
    BY <1>p, <1>4, <1>7, AloneInStep
  <2>4. program.steps[w][i] = {a}
    BY <1>5, <2>3
  <2>5. q.position = j - 1 => j = i
    BY <1>5, <2>1, <2>2
  <2> QED
    BY <2>1, <2>4, <2>5
<1> QED
  BY <1>1, <1>2, <1>3, <1>6, <1>7

\* What the call of a caller leaves of the results, and what it is answered.
LEMMA EffectOwn ==
  ASSUME WorkflowsInv, StageInv, OwnInv, NEW r \in Run, NEW a \in Activity, NEW o,
         Pending(r, a), Effect(r, a, o)
  PROVE  /\ RowsInv' /\ KeptInv'
         /\ a \in Task /\ o.reply.kind = "value"
              /\ (program.generated = {} \/ InTurn) => o.reply.value = a
<1> DEFINE v == FlowOf(a)
           q == call[r][a].request
           db == stores[v]
<1>p. program \in Explored /\ v \in Flow
  BY ActivityIs DEF WorkflowsInv, StateInv
<1>s. Flow' = Flow /\ InTurn' = InTurn /\ program' = program
  <2>1. program' = program
    BY DEF Effect
  <2> QED
    BY <2>1, SameProgram DEF InTurn
<1>1. db \in StoresRecord /\ now \in Nat /\ stores \in [Flow -> StoresRecord]
  BY <1>p DEF WorkflowsInv, StateInv
<1>2. q \in Request /\ call[r][a] # None
  BY RequestIs DEF Pending
<1>3. /\ o \in AnyOutcome(r, a)
      /\ stores' = [stores EXCEPT ![v] = o.stores]
      /\ kept' = IF o.reply.kind = "saved" THEN kept \cup {a} ELSE kept
  BY DEF Effect
<1>0. MayDo(db, q, now, o)
  BY <1>p, <1>3, AnyOutcomeIs
<1>4. \/ o.stores.checkpoints = db.checkpoints /\ o.reply.kind # "saved"
      \/ /\ q \in TaskRequest
         /\ Saves(db, q, o) \/ Draws(db, q, o)
         /\ \A p \in Position \ {q.position} :
              o.stores.checkpoints[p] = db.checkpoints[p]
  BY <1>0, <1>1, <1>2, RpcResults
<1>5. q \in TaskRequest =>
        /\ a \in Task /\ q.value = a /\ q.position \in Position
        /\ program.generated = {} => q.idempotency_key = a
        /\ InTurn =>
             \A i \in DOMAIN program.steps[v] :
               /\ a \in program.steps[v][i] => q.position = i - 1
               /\ q.position = i - 1 => program.steps[v][i] = {a}
  BY <1>2, CallerIs
<1>6. /\ stores'[v] = o.stores
      /\ \A w \in Flow \ {v} : stores'[w] = stores[w]
  BY <1>p, <1>1, <1>3
<1>7. \A p \in Position : db.checkpoints[p] \in CheckpointRow \cup {None}
  BY <1>1, StoresFields
<1>8. \A i \in DOMAIN program.steps[v] : i \in Nat
  BY <1>p, StepIs
<1> HIDE DEF v, q, db
<1>9. RowsInv'
  <2> SUFFICES ASSUME NEW w \in Flow, NEW p \in Position,
                      stores'[w].checkpoints[p] # None,
                      stores'[w].checkpoints[p].value # None
               PROVE  LET row == stores'[w].checkpoints[p]
                      IN  /\ program.generated = {} =>
                               row.value = row.idempotency_key
                          /\ InTurn => \A i \in DOMAIN program.steps[w] :
                               p = i - 1 => row.value \in program.steps[w][i]
    BY <1>s DEF RowsInv
  <2>1. CASE stores'[w].checkpoints[p] = stores[w].checkpoints[p]
    BY <2>1 DEF OwnInv, RowsInv
  <2>2. CASE stores'[w].checkpoints[p] # stores[w].checkpoints[p]
    <3>1. w = v /\ p = q.position /\ q \in TaskRequest
      BY <1>4, <1>6, <2>2 DEF db
    <3>2. Saves(db, q, o) \/ Draws(db, q, o)
      BY <1>4, <1>6, <2>2, <3>1 DEF db
    <3>3. ~Draws(db, q, o)
      <4>1. o.stores.checkpoints[q.position].value # None
        BY <1>6, <3>1
      <4>2. ASSUME NEW k, o.stores.checkpoints[q.position] =
                            [idempotency_key |-> k, value |-> None]
            PROVE  FALSE
        BY <4>1, <4>2
      <4> QED
        BY <4>2 DEF Draws
    <3>4. stores'[w].checkpoints[p] =
            [idempotency_key |-> q.idempotency_key, value |-> q.value]
      BY <1>6, <2>2, <3>1, <3>2, <3>3 DEF Saves, InsertCheckpoint, db
    <3> QED
      BY <1>5, <3>1, <3>4
  <2> QED
    BY <2>1, <2>2
<1>10. KeptInv'
  <2> SUFFICES ASSUME InTurn, NEW w \in Flow, NEW i \in DOMAIN program.steps[w],
                      NEW t \in program.steps[w][i], t \in kept'
               PROVE  /\ i - 1 \in Position
                      /\ stores'[w].checkpoints[i - 1] # None
    BY <1>s DEF KeptInv
  <2>1. CASE t \in kept
    <3>1. i - 1 \in Position /\ stores[w].checkpoints[i - 1] # None
      BY <2>1 DEF OwnInv, KeptInv
    <3>2. CASE stores'[w].checkpoints[i - 1] = stores[w].checkpoints[i - 1]
      BY <3>1, <3>2
    <3>3. CASE stores'[w].checkpoints[i - 1] # stores[w].checkpoints[i - 1]
      <4>1. w = v /\ i - 1 = q.position /\ q \in TaskRequest
        BY <1>4, <1>6, <3>1, <3>3 DEF db
      <4>2. Saves(db, q, o) \/ Draws(db, q, o)
        BY <1>4, <1>6, <3>3, <4>1 DEF db
      <4> QED
        BY <1>6, <3>1, <3>3, <4>1, <4>2 DEF Saves, Draws, InsertCheckpoint, db
    <3> QED
      BY <3>2, <3>3
  <2>2. CASE t \notin kept
    <3>1. t = a /\ o.reply.kind = "saved"
      BY <1>3, <2>2
    <3>2. q \in TaskRequest /\ Saves(db, q, o)
      BY <1>4, <3>1 DEF Draws
    <3>3. w = v
      <4>1. t \in Task /\ t \in TasksOf(w)
        BY <1>p, StepIs
      <4> QED
        BY <1>p, <3>1, <4>1, TaskIs DEF v
    <3>4. q.position = i - 1
      BY <1>5, <3>1, <3>2, <3>3
    <3>5. stores'[w].checkpoints[i - 1] =
            InsertCheckpoint(db.checkpoints[i - 1], q.idempotency_key, q.value)
      BY <1>6, <3>2, <3>3, <3>4 DEF Saves
    <3>6. /\ q.idempotency_key \in Key /\ q.value \in Value \cup {None}
          /\ q.position \in Position
      BY <3>2 DEF TaskRequest
    <3>7. stores'[w].checkpoints[i - 1] \in CheckpointRow
      BY <1>7, <3>4, <3>5, <3>6, RowsTyped
    <3> QED
      BY <3>4, <3>6, <3>7, WorkflowsAssumption
  <2> QED
    BY <2>1, <2>2
<1>11. ASSUME a \in Task, o.reply.kind = "value",
              program.generated = {} \/ InTurn
       PROVE  o.reply.value = a
  <2>1. LET row == db.checkpoints[q.position]
        IN  /\ q \in TaskRequest
            /\ row # None /\ row.idempotency_key = q.idempotency_key
            /\ row.value # None /\ o.reply.value = row.value
    BY <1>0, <1>1, <1>2, <1>11, RpcValue
  <2>2. q.position \in Position
    BY <1>5, <2>1
  <2>3. /\ program.generated = {} =>
             o.reply.value = db.checkpoints[q.position].idempotency_key
        /\ InTurn => \A i \in DOMAIN program.steps[v] :
             q.position = i - 1 => o.reply.value \in program.steps[v][i]
    BY <1>p, <2>1, <2>2 DEF OwnInv, RowsInv, db
  <2>4. CASE program.generated = {}
    BY <1>5, <2>1, <2>3, <2>4
  <2>5. CASE InTurn
    <3>1. a \in TasksOf(v)
      BY <1>p, <1>11, TaskIs DEF v
    <3>2. PICK i \in DOMAIN program.steps[v] : a \in program.steps[v][i]
      BY <3>1 DEF TasksOf
    <3> QED
      BY <1>5, <2>1, <2>3, <2>5, <3>2
  <2> QED
    BY <1>11, <2>4, <2>5
<1> QED
  BY <1>9, <1>10, <1>11

\* The server's own steps: calls keep their requests, and an answer with a
\* result is one with the caller's.
LEMMA ServerOwn ==
  ASSUME WorkflowsInv, OwnInv, UNCHANGED <<program, flow, exec>>,
         RowsInv', KeptInv',
         \A r \in Run, t \in Task :
           \/ call'[r][t] = call[r][t] \/ call'[r][t] = None
           \/ /\ call[r][t] # None
              /\ call'[r][t].request = call[r][t].request
              /\ (program.generated = {} \/ InTurn)
                   /\ call'[r][t].answer.kind = "value"
                   => call'[r][t].answer.value = t
  PROVE  OwnInv'
<1>p. program \in Explored
  BY DEF WorkflowsInv, StateInv
<1>s. Flow' = Flow /\ Task' = Task /\ InTurn' = InTurn
  BY SameProgram DEF InTurn
<1>1. PlaceInv'
  BY PlaceStays DEF OwnInv
<1>2. RequestInv'
  <2>1. ASSUME NEW r \in Run, NEW w \in Flow, NEW i \in DOMAIN program.steps[w],
               NEW t \in program.steps[w][i], call'[r][t] # None
        PROVE  /\ InTurn => call'[r][t].request.position = i - 1
               /\ program.generated = {} =>
                    call'[r][t].request.idempotency_key = t
    <3>1. t \in Task
      BY <1>p, StepIs
    <3>2. call[r][t] # None /\ call'[r][t].request = call[r][t].request
      BY <2>1, <3>1
    <3> QED
      BY <3>2 DEF OwnInv, RequestInv
  <2>2. program.generated = {} =>
          \A r \in Run, t \in Task :
            exec'[r][t].key = t /\ exec'[r][t].pc # "keying"
    BY DEF OwnInv, RequestInv
  <2> QED
    BY <1>s, <2>1, <2>2 DEF RequestInv
<1>3. AnswersInv'
  <2> SUFFICES ASSUME program.generated = {} \/ InTurn
               PROVE  ResultOfOwnTask'
    BY <1>s DEF AnswersInv
  <2>1. ASSUME NEW r \in Run, NEW t \in Task, Answered(r, t)',
               Answer(r, t)'.kind = "value"
        PROVE  Answer(r, t)'.value = t
    <3>1. call'[r][t] # None /\ call'[r][t].answer # None
      BY <2>1 DEF Answered
    <3>2. CASE call'[r][t] = call[r][t]
      <4>1. Answered(r, t) /\ Answer(r, t).kind = "value"
        BY <2>1, <3>2 DEF Answered, Answer
      <4>2. Answer(r, t).value = t
        BY <4>1 DEF OwnInv, AnswersInv, ResultOfOwnTask
      <4> QED
        BY <3>2, <4>2 DEF Answer
    <3>3. CASE call'[r][t] # call[r][t]
      BY <2>1, <3>1, <3>3 DEF Answer
    <3> QED
      BY <3>2, <3>3
  <2> QED
    BY <1>s, <2>1 DEF ResultOfOwnTask
<1> QED
  BY <1>1, <1>2, <1>3 DEF OwnInv

\* Results that stay, and nothing more that is kept.
LEMMA ResultsStay ==
  ASSUME WorkflowsInv, OwnInv, program' = program, kept' \subseteq kept,
         \A w \in Flow : stores'[w].checkpoints = stores[w].checkpoints
  PROVE  RowsInv' /\ KeptInv'
<1>s. Flow' = Flow /\ InTurn' = InTurn
  BY SameProgram DEF InTurn
<1>1. RowsInv'
  BY <1>s DEF OwnInv, RowsInv
<1>2. KeptInv'
  <2>1. ASSUME InTurn, NEW w \in Flow, NEW i \in DOMAIN program.steps[w],
               NEW t \in program.steps[w][i] \cap kept'
        PROVE  i - 1 \in Position /\ stores'[w].checkpoints[i - 1] # None
    BY <2>1 DEF OwnInv, KeptInv
  <2> QED
    BY <1>s, <2>1 DEF KeptInv
<1> QED
  BY <1>1, <1>2

LEMMA HandleOwn ==
  ASSUME WorkflowsInv, StageInv, OwnInv, NEW r \in Run, NEW a \in Activity,
         Handle(r, a) \/ Break(r, a)
  PROVE  OwnInv'
<1>1. Pending(r, a)
  BY DEF Handle, Break
<1>2. ASSUME NEW reply, Tell(r, a, reply), NEW s \in Run, NEW t \in Task,
             a \in Task /\ reply.kind = "value"
               /\ (program.generated = {} \/ InTurn) => reply.value = a
      PROVE  \/ call'[s][t] = call[s][t] \/ call'[s][t] = None
             \/ /\ call[s][t] # None
                /\ call'[s][t].request = call[s][t].request
                /\ (program.generated = {} \/ InTurn)
                     /\ call'[s][t].answer.kind = "value"
                     => call'[s][t].answer.value = t
  <2>1. t \in Activity
    BY DEF Activity
  <2>2. CASE <<s, t>> # <<r, a>>
    <3>1. \A x \in Run, b \in Activity :
            <<x, b>> # <<r, a>> => call'[x][b] = call[x][b]
      BY <1>2, TellIs
    <3> QED
      BY <2>1, <2>2, <3>1
  <2>3. CASE s = r /\ t = a /\ ~Alive(r, a)
    BY <1>2, <2>3, TellIs
  <2>4. CASE s = r /\ t = a /\ Alive(r, a)
    <3>1. call'[r][a] = [request |-> call[r][a].request, answer |-> reply]
      BY <1>2, <2>4, TellIs
    <3>2. /\ call'[r][a].request = call[r][a].request
          /\ call'[r][a].answer = reply
      BY <3>1
    <3> QED
      BY <1>1, <1>2, <2>4, <3>2 DEF Pending
  <2> QED
    BY <2>2, <2>3, <2>4
<1>3. CASE Handle(r, a)
  <2>1. PICK o \in AnyOutcome(r, a) : Effect(r, a, o) /\ Tell(r, a, o.reply)
    BY <1>3 DEF Handle
  <2>2. /\ RowsInv' /\ KeptInv'
        /\ a \in Task /\ o.reply.kind = "value"
             /\ (program.generated = {} \/ InTurn) => o.reply.value = a
    BY <1>1, <2>1, EffectOwn
  <2>3. UNCHANGED <<program, flow, exec>>
    BY <2>1 DEF Effect
  <2> QED
    BY <1>2, <2>1, <2>2, <2>3, ServerOwn
<1>4. CASE Break(r, a)
  <2>1. Tell(r, a, Unavailable) /\ Unavailable.kind # "value"
    BY <1>4 DEF Break, Unavailable
  <2>2. \/ \E o : Effect(r, a, o)
        \/ UNCHANGED <<program, stores, flow, exec, kept>>
    BY <1>4 DEF Break
  <2>3. RowsInv' /\ KeptInv' /\ UNCHANGED <<program, flow, exec>>
    BY <1>1, <2>2, EffectOwn, ResultsStay DEF Effect
  <2> QED
    BY <1>2, <2>1, <2>3, ServerOwn
<1> QED
  BY <1>3, <1>4

LEMMA RestartOwn ==
  ASSUME WorkflowsInv, OwnInv, Restart
  PROVE  OwnInv'
<1>1. stores \in [Flow -> StoresRecord]
  BY DEF WorkflowsInv, StateInv
<1>2. UNCHANGED <<program, flow, exec, kept>>
  BY DEF Restart
<1>3. ASSUME NEW w \in Flow
      PROVE  stores'[w].checkpoints = stores[w].checkpoints
  <2> DEFINE new == [stores[w] EXCEPT !.leases = NewStores.leases]
  <2>1. new.checkpoints = stores[w].checkpoints
    BY <1>1, EmptyStores, FieldReplaced
  <2>2. stores'[w] = new
    BY DEF Restart
  <2> HIDE DEF new
  <2> QED
    BY <2>1, <2>2
<1>4. ASSUME NEW r \in Run, NEW t \in Task
      PROVE  \/ call'[r][t] = call[r][t] \/ call'[r][t] = None
             \/ /\ call[r][t] # None
                /\ call'[r][t].request = call[r][t].request
                /\ call'[r][t].answer.kind # "value"
  <2>1. call'[r][t] = IF ~Pending(r, t) THEN call[r][t]
                      ELSE IF ~Alive(r, t) THEN None
                      ELSE [request |-> call[r][t].request,
                            answer |-> Unavailable]
    BY DEF Restart, Activity
  <2>2. CASE Pending(r, t) /\ Alive(r, t)
    <3>1. call'[r][t] = [request |-> call[r][t].request, answer |-> Unavailable]
      BY <2>1, <2>2
    <3> QED
      BY <2>2, <3>1 DEF Pending, Unavailable
  <2> QED
    BY <2>1, <2>2
<1>5. RowsInv' /\ KeptInv'
  BY <1>2, <1>3, ResultsStay
<1> QED
  BY <1>2, <1>4, <1>5, ServerOwn

LEMMA EvictOwn ==
  ASSUME WorkflowsInv, OwnInv, NEW w \in Flow, NEW p \in Position, Evict(w, p)
  PROVE  OwnInv'
<1>1. stores \in [Flow -> StoresRecord]
  BY DEF WorkflowsInv, StateInv
<1>2. UNCHANGED <<program, flow, exec, call, kept>>
  BY DEF Evict, history
<1>3. \A v \in Flow : stores'[v].checkpoints = stores[v].checkpoints
  BY <1>1 DEF Evict, StoresRecord
<1>4. RowsInv' /\ KeptInv'
  BY <1>2, <1>3, ResultsStay
<1> QED
  BY <1>2, <1>4, ServerOwn

\* What the job deletes is no longer kept: the row of a completed workflow
\* tells when its retention is over.
LEMMA CleanupRowsOwn ==
  ASSUME WorkflowsInv, DueInv, OwnInv,
         NEW table \in {"tokens", "checkpoints"}, CleanupRows(table)
  PROVE  OwnInv'
<1>p. program \in Explored
  BY DEF WorkflowsInv, StateInv
<1>1. stores \in [Flow -> StoresRecord]
  BY DEF WorkflowsInv, StateInv
<1>2. UNCHANGED <<program, flow, exec, call>> /\ kept' \subseteq kept
  BY DEF CleanupRows
<1>s. Flow' = Flow /\ InTurn' = InTurn
  BY <1>2, SameProgram DEF InTurn
<1>3. \A w \in Flow : /\ Due(w, job.timestamp) =>
                           stores'[w] = Without(stores[w], table)
                      /\ ~Due(w, job.timestamp) => stores'[w] = stores[w]
  BY DEF CleanupRows, Delete
<1>4. CASE table = "tokens"
  <2>1. \A w \in Flow : stores'[w].checkpoints = stores[w].checkpoints
    BY <1>1, <1>3, <1>4, WithoutIs
  <2>2. RowsInv' /\ KeptInv'
    BY <1>2, <2>1, ResultsStay
  <2> QED
    BY <1>2, <2>2, ServerOwn
<1>5. CASE table = "checkpoints"
  <2>1. \A w \in Flow : stores'[w].checkpoints \in
                          {stores[w].checkpoints, NewStores.checkpoints}
    BY <1>1, <1>3, WithoutIs
  <2>2. RowsInv'
    <3> SUFFICES ASSUME NEW w \in Flow, NEW p \in Position,
                        stores'[w].checkpoints[p] # None,
                        stores'[w].checkpoints[p].value # None
                 PROVE  LET row == stores'[w].checkpoints[p]
                        IN  /\ program.generated = {} =>
                                 row.value = row.idempotency_key
                            /\ InTurn => \A i \in DOMAIN program.steps[w] :
                                 p = i - 1 => row.value \in program.steps[w][i]
      BY <1>2, <1>s DEF RowsInv
    <3>1. stores'[w].checkpoints[p] = stores[w].checkpoints[p]
      BY <2>1, EmptyStores
    <3> QED
      BY <3>1 DEF OwnInv, RowsInv
  <2>3. KeptInv'
    <3> SUFFICES ASSUME InTurn, NEW w \in Flow,
                        NEW i \in DOMAIN program.steps[w],
                        NEW t \in program.steps[w][i], t \in kept'
                 PROVE  /\ i - 1 \in Position
                        /\ stores'[w].checkpoints[i - 1] # None
      BY <1>2, <1>s DEF KeptInv
    <3>1. t \in kept /\ ~MayBeGone(t)
      BY <1>5 DEF CleanupRows
    <3>2. i - 1 \in Position /\ stores[w].checkpoints[i - 1] # None
      BY <3>1 DEF OwnInv, KeptInv
    <3>3. FlowOf(t) = w
      <4>1. t \in Task /\ t \in TasksOf(w)
        BY <1>p, StepIs
      <4> QED
        BY <1>p, <4>1, TaskIs
    <3>4. ~Due(w, job.timestamp)
      <4>1. ~(Due(w, job.timestamp) /\ due[w] # None /\ due[w] < job.timestamp)
        BY <3>1, <3>3 DEF MayBeGone
      <4>2. Due(w, job.timestamp) => due[w] # None /\ due[w] < job.timestamp
        BY DEF Due, Expired, DueInv
      <4> QED
        BY <4>1, <4>2
    <3> QED
      BY <1>3, <3>2, <3>4
  <2> QED
    BY <1>2, <2>2, <2>3, ServerOwn
<1> QED
  BY <1>4, <1>5

LEMMA OtherOwn ==
  ASSUME WorkflowsInv, OwnInv,
         \/ CleanupStart \/ CleanupWorkflows \/ CleanupFails \/ Tick
         \/ UNCHANGED vars
  PROVE  OwnInv'
<1>1. stores \in [Flow -> StoresRecord]
  BY DEF WorkflowsInv, StateInv
<1>2. UNCHANGED <<program, flow, exec, call, kept>>
  BY DEF CleanupStart, CleanupWorkflows, CleanupFails, Tick, vars, history
<1>3. \A w \in Flow : stores'[w].checkpoints = stores[w].checkpoints
  <2>1. CASE CleanupWorkflows
    <3>1. \A w \in Flow : [stores[w] EXCEPT !.workflow = None].checkpoints
                            = stores[w].checkpoints
      BY <1>1, FieldReplaced
    <3>2. \A w \in Flow : stores'[w] \in
            {[stores[w] EXCEPT !.workflow = None], stores[w]}
      BY <2>1 DEF CleanupWorkflows
    <3> QED
      BY <3>1, <3>2
  <2>2. CASE UNCHANGED stores
    BY <2>2
  <2> QED
    BY <2>1, <2>2 DEF CleanupStart, CleanupFails, Tick, vars, history
<1>4. RowsInv' /\ KeptInv'
  BY <1>2, <1>3, ResultsStay
<1> QED
  BY <1>2, <1>4, ServerOwn

LEMMA OwnKept ==
  ASSUME WorkflowsInv, StageInv, DueInv, OwnInv, [Next]_vars
  PROVE  OwnInv'
<1>1. CASE \E r \in Run : Begin(r) \/ Crash(r)
  <2>1. "outer" \in Flow
    BY ProgramIs DEF WorkflowsInv, StateInv
  <2> QED
    BY <1>1, <2>1, FlowOwn, CrashOwn DEF Begin
<1>2. CASE \E r \in Run, w \in Flow : FlowStep(r, w)
  BY <1>2, FlowOwn, NextStepOwn DEF FlowStep
<1>3. CASE \E r \in Run, t \in Task : TaskStep(r, t)
  BY <1>3, TaskOwn
<1>4. CASE \E r \in Run, a \in Activity : Handle(r, a) \/ Break(r, a)
  BY <1>4, HandleOwn
<1>5. CASE \E w \in Flow, p \in Position : Evict(w, p)
  BY <1>5, EvictOwn
<1>6. CASE Restart
  BY <1>6, RestartOwn
<1>7. CASE \E table \in {"tokens", "checkpoints"} : CleanupRows(table)
  BY <1>7, CleanupRowsOwn
<1>8. CASE \/ CleanupStart \/ CleanupWorkflows \/ CleanupFails \/ Tick
           \/ UNCHANGED vars
  BY <1>8, OtherOwn
<1>9. ASSUME NEW r \in Run, NEW t \in Task, HandlerHalts(r, t)
      PROVE  OwnInv'
  <2>1. /\ UNCHANGED <<program, flow, exec, call, kept>>
        /\ \A w \in Flow : stores'[w].checkpoints = stores[w].checkpoints
    BY <1>9, HaltsKeep DEF history
  <2>2. RowsInv' /\ KeptInv'
    BY <2>1, ResultsStay
  <2> QED
    BY <2>1, <2>2, ServerOwn
<1> QED
  BY <1>1, <1>2, <1>3, <1>4, <1>5, <1>6, <1>7, <1>8, <1>9 DEF Next

LEMMA OwnHolds == Spec => []OwnInv
<1> QED
  BY TypesHold, DueHolds, OwnStart, OwnKept, PTL DEF Spec

\* A lease is given by the server, when it handles the call.
LEMMA WhoGrants ==
  ASSUME WorkflowsInv, RequestInv, [Next]_vars, NEW r \in Run, NEW t \in Task,
         Grants(r, t)
  PROVE  \E o : Effect(r, t, o) /\ o.reply.kind = "granted"
<1>p. program \in Explored /\ t \in Activity
  BY DEF WorkflowsInv, StateInv, Activity
<1>1. /\ call'[r][t] # None /\ call'[r][t].answer # None
      /\ call'[r][t].answer.kind = "granted" /\ Pending(r, t)
  BY DEF Grants
<1>2. ASSUME call'[r][t] \in {call[r][t], None}
      PROVE  FALSE
  BY <1>1, <1>2 DEF Pending
<1>3. ASSUME NEW s \in Run, NEW w \in Flow,
             \/ OpenFlow(s, w) \/ FlowStarted(s, w) \/ FlowEnds(s, w)
             \/ FlowCompleted(s, w) \/ NextStep(s, w)
      PROVE  FALSE
  <2>1. call'[r][t] = call[r][t]
    BY <1>3, FlowActs DEF NextStep
  <2> QED
    BY <1>2, <2>1
<1>4. ASSUME NEW s \in Run, Crash(s)
      PROVE  FALSE
  <2>1. call' = [call EXCEPT ![s] =
                   [a \in Activity |-> IF Pending(s, a) THEN @[a] ELSE None]]
    BY <1>4 DEF Crash
  <2>2. call = [x \in Run |-> [a \in Activity |-> call[x][a]]]
    BY DEF WorkflowsInv, CallsInv
  <2>3. call'[r][t] \in {call[r][t], None}
    BY <1>p, <2>1, <2>2
  <2> QED
    BY <1>2, <2>3
<1>5. ASSUME NEW s \in Run, NEW u \in Task, TaskStep(s, u)
      PROVE  FALSE
  <2>1. CASE BeginInner(s, u)
    <3>1. program.inner[u] \in Flow
      BY <1>p, <2>1, ProgramIs DEF BeginInner
    <3> QED
      BY <1>3, <2>1, <3>1 DEF BeginInner
  <2>2. CASE ~BeginInner(s, u)
    <3>1. CallActs(s, u)
      BY <1>5, <2>2, TaskActs
    <3>2. PICK c : /\ call' = [call EXCEPT ![s][u] = c]
                   /\ \/ c \in {call[s][u], None}
                      \/ \E rpc : c = [request |-> TaskCall(s, u, rpc),
                                       answer |-> None]
      BY <3>1 DEF CallActs
    <3>3. call = [x \in Run |-> [a \in Activity |-> call[x][a]]]
      BY DEF WorkflowsInv, CallsInv
    <3>4. /\ call'[s][u] = c
          /\ <<s, u>> # <<r, t>> => call'[r][t] = call[r][t]
      BY <3>2, <3>3 DEF Activity
    <3>5. s = r /\ u = t
      BY <1>2, <3>4
    <3>6. ASSUME NEW rpc, c = [request |-> TaskCall(s, u, rpc), answer |-> None]
          PROVE  FALSE
      <4>1. c.answer = None
        BY <3>6
      <4> QED
        BY <1>1, <3>4, <3>5, <4>1
    <3> QED
      BY <1>2, <3>2, <3>4, <3>5, <3>6
  <2> QED
    BY <2>1, <2>2
<1>6. ASSUME NEW s \in Run, NEW a \in Activity, NEW reply, Tell(s, a, reply)
      PROVE  s = r /\ a = t /\ reply.kind = "granted"
  <2>1. s = r /\ a = t
    <3>1. \A x \in Run, b \in Activity :
            <<x, b>> # <<s, a>> => call'[x][b] = call[x][b]
      BY <1>6, TellIs
    <3> QED
      BY <1>p, <1>2, <3>1
  <2>2. call'[s][a] = None \/ call'[s][a] = [request |-> call[s][a].request,
                                             answer |-> reply]
    BY <1>6, TellIs
  <2>3. call'[s][a] = [request |-> call[s][a].request, answer |-> reply]
    BY <1>1, <2>1, <2>2
  <2>4. call'[s][a].answer = reply
    BY <2>3
  <2> QED
    BY <1>1, <2>1, <2>4
<1>7. ASSUME NEW s \in Run, NEW a \in Activity, Break(s, a)
      PROVE  FALSE
  <2>1. Tell(s, a, Unavailable)
    BY <1>7 DEF Break
  <2> QED
    BY <1>6, <2>1 DEF Unavailable
<1>8. ASSUME Restart
      PROVE  FALSE
  <2>1. call'[r][t] = IF ~Pending(r, t) THEN call[r][t]
                      ELSE IF ~Alive(r, t) THEN None
                      ELSE [request |-> call[r][t].request,
                            answer |-> Unavailable]
    BY <1>p, <1>8 DEF Restart
  <2>2. call'[r][t] = [request |-> call[r][t].request, answer |-> Unavailable]
    BY <1>1, <2>1
  <2>3. call'[r][t].answer = Unavailable
    BY <2>2
  <2> QED
    BY <1>1, <2>3 DEF Unavailable
<1>9. CASE \/ \E w \in Flow, p \in Position : Evict(w, p)
           \/ CleanupStart \/ CleanupWorkflows \/ CleanupFails \/ Tick
           \/ \E table \in {"tokens", "checkpoints"} : CleanupRows(table)
           \/ UNCHANGED vars
  <2>1. call' = call
    BY <1>9 DEF Evict, CleanupStart, CleanupWorkflows, CleanupFails, Tick,
                CleanupRows, vars
  <2> QED
    BY <1>2, <2>1
<1>10. ASSUME NEW s \in Run, NEW a \in Activity, Handle(s, a)
       PROVE  \E o : Effect(r, t, o) /\ o.reply.kind = "granted"
  <2>1. PICK o \in AnyOutcome(s, a) : Effect(s, a, o) /\ Tell(s, a, o.reply)
    BY <1>10 DEF Handle
  <2>2. s = r /\ a = t /\ o.reply.kind = "granted"
    BY <1>6, <2>1
  <2> QED
    BY <2>1, <2>2
<1>11. "outer" \in Flow
  BY <1>p, ProgramIs
<1>12. ASSUME NEW s \in Run, NEW u \in Task, HandlerHalts(s, u)
       PROVE  FALSE
  BY <1>2, <1>12, HaltsKeep
<1> QED
  BY <1>3, <1>4, <1>5, <1>7, <1>8, <1>9, <1>10, <1>11, <1>12
     DEF Next, Begin, FlowStep

\* Where a result is kept there is a row, and no lease is given there by a
\* handler that looks at the row and grants the lease at one go.
LEMMA GrantStep ==
  ASSUME WorkflowsInv, StageInv, OwnInv, [Next]_vars, InTurn, ~crossed,
         NEW r \in Run, NEW t \in Task, Grants(r, t)
  PROVE  t \notin kept
<1> DEFINE w == FlowOf(t)
           q == call[r][t].request
<1>p. program \in Explored
  BY DEF WorkflowsInv, StateInv
<1>1. PICK o : Effect(r, t, o) /\ o.reply.kind = "granted"
  BY WhoGrants DEF OwnInv
<1>2. w \in Flow /\ t \in TasksOf(w) /\ t \in Activity
  BY <1>p, TaskIs DEF Activity
<1>3. stores[w] \in StoresRecord /\ now \in Nat
  BY <1>2 DEF WorkflowsInv, StateInv
<1>4. call[r][t] # None /\ q \in Request
  BY <1>2, RequestIs DEF Grants, Pending
<1>5. o \in Outcomes(stores[w], q, now, Uuid)
  BY <1>1, <1>2, AnyOutcomeIs DEF Effect
<1>6. q \in TaskRequest /\ stores[w].checkpoints[q.position] = None
  BY <1>1, <1>3, <1>4, <1>5, RpcValue DEF MayDo
<1>7. PICK i \in DOMAIN program.steps[w] : t \in program.steps[w][i]
  BY <1>2 DEF TasksOf
<1>8. q.position = i - 1
  BY <1>2, <1>4, <1>6, <1>7, CallerIs
<1> QED
  BY <1>2, <1>6, <1>7, <1>8 DEF OwnInv, KeptInv

\* As long as no handler is left in the middle of a call for those of others,
\* whoever calls its executes one at a time starts no task again whose result
\* the server has accepted, until the workflow has been completed and its
\* retention is over: not after a lost answer, a crash of the worker between
\* its calls or during one, a restart of the server or an interrupted run of
\* the cleanup job.
THEOREM AcceptedResultsAreKept == Spec => KeptUntilRetention
<1>1. WorkflowsInv /\ StageInv /\ OwnInv /\ [Next]_vars =>
        [InTurn /\ ~crossed =>
           \A r \in Run, t \in Task : Grants(r, t) => t \notin kept]_vars
  BY GrantStep
<1> QED
  BY <1>1, TypesHold, OwnHolds, PTL DEF Spec, KeptUntilRetention

\* An execute is answered with no other task's result, also when the executes
\* of a step share the position of their runner, if the server draws no keys
\* for them; and if it does, when they are called one at a time.
THEOREM ResultsAreOwn ==
  ASSUME \A p \in Explored : p.generated = {} \/ OneByOne(p)
  PROVE  Spec => []ResultOfOwnTask
<1>1. WorkflowsInv /\ OwnInv => ResultOfOwnTask
  BY DEF WorkflowsInv, StateInv, OwnInv, AnswersInv, InTurn
<1> QED
  BY <1>1, TypesHold, OwnHolds, PTL
=============================================================================
