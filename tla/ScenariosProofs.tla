-------------------------- MODULE ScenariosProofs --------------------------
(***************************************************************************)
(* More of Workflows, for any set of well-formed programs whose executes   *)
(* are called one at a time, as long as no handler is left in the middle   *)
(* of a call for those of others: who holds the lease of a task, and what  *)
(* becomes of a program that nothing disturbs.                             *)
(***************************************************************************)
EXTENDS WorkflowsProofs

(* What a step does, value by value.                                       *)

\* A workflow function awaits the answer to complete, under its token.
CompleteCalled(r, w) ==
  /\ call'[r][w].answer = None /\ call'[r][w].request.rpc = "complete"
  /\ call'[r][w].request.fencing_token = flow[r][w].fencing_token

FlowOpens(r, w) ==
  /\ flow[r][w].pc = "off" /\ flow'[r][w].pc = "starting"
  /\ call'[r][w].answer = None /\ call'[r][w].request.rpc = "start"

FlowStarts(r, w) ==
  /\ flow[r][w].pc = "starting" /\ Answered(r, w) /\ call'[r][w] = None
  /\ \/ Answer(r, w).kind = "error" /\ flow'[r][w].pc = "failed"
     \/ /\ Answer(r, w).kind # "error" /\ flow'[r][w].pc = "going"
        /\ flow'[r][w].fencing_token = Answer(r, w).fencing_token

FlowStops(r, w) ==
  /\ flow[r][w].pc = "going" /\ call[r][w] = None
  /\ \/ /\ StepDone(r, w) /\ flow[r][w].step = Len(program.steps[w])
        /\ \/ flow'[r][w].pc = "completed" /\ call'[r][w] = None
           \/ flow'[r][w].pc = "completing" /\ CompleteCalled(r, w)
     \/ /\ \E t \in Current(r, w) : exec[r][t].pc = "threw"
        /\ \/ flow'[r][w].pc = "failed" /\ call'[r][w] = None
           \/ flow'[r][w].pc = "recovering" /\ CompleteCalled(r, w)

FlowCloses(r, w) ==
  /\ flow[r][w].pc \in {"completing", "recovering"} /\ Answered(r, w)
  /\ \/ /\ Answer(r, w).kind # "error"
        /\ flow'[r][w].pc = "completed" /\ call'[r][w] = None
     \/ /\ Answer(r, w).kind = "error"
        /\ \/ flow'[r][w].pc = "failed" /\ call'[r][w] = None
           \/ flow'[r][w].pc = "recovering" /\ CompleteCalled(r, w)

FlowMove(r, w) ==
  /\ UNCHANGED <<program, stores, job, exec, now, history>>
  /\ \A s \in Run, v \in Flow :
       <<s, v>> # <<r, w>> => flow'[s][v] = flow[s][v]
  /\ \A s \in Run, a \in Activity :
       <<s, a>> # <<r, w>> => call'[s][a] = call[s][a]
  /\ flow'[r][w].step = flow[r][w].step
  /\ flow'[r][w].pc # "going" =>
       flow'[r][w].fencing_token = flow[r][w].fencing_token
  /\ \/ FlowOpens(r, w) \/ FlowStarts(r, w) \/ FlowStops(r, w)
     \/ FlowCloses(r, w)

LEMMA FlowIsAt ==
  ASSUME WorkflowsInv, NEW r \in Run, NEW w \in Flow, NEW p \in FlowPoint,
         FlowBecomes(r, w, p)
  PROVE  /\ flow'[r][w].pc = p /\ flow'[r][w].step = flow[r][w].step
         /\ flow'[r][w].fencing_token = flow[r][w].fencing_token
         /\ \A s \in Run, v \in Flow :
              <<s, v>> # <<r, w>> => flow'[s][v] = flow[s][v]
<1> DEFINE f == [flow[r][w] EXCEPT !.pc = p]
<1>1. flow \in [Run -> [Flow -> FlowRecord]] /\ flow[r][w] \in FlowRecord
  BY DEF WorkflowsInv, StateInv
<1>2. /\ f.pc = p /\ f.step = flow[r][w].step
      /\ f.fencing_token = flow[r][w].fencing_token
  BY <1>1 DEF FlowRecord
<1>3. flow' = [flow EXCEPT ![r][w] = f]
  BY <1>1 DEF FlowBecomes
<1> HIDE DEF f
<1>4. /\ flow'[r][w] = f
      /\ \A s \in Run, v \in Flow :
           <<s, v>> # <<r, w>> => flow'[s][v] = flow[s][v]
  BY <1>3 DEF WorkflowsInv, StateInv
<1> QED
  BY <1>2, <1>4

LEMMA CompleteIsCalled ==
  ASSUME WorkflowsInv, NEW r \in Run, NEW w \in Flow, NEW p,
         CallComplete(r, w, p)
  PROVE  /\ CompleteCalled(r, w)
         /\ \A s \in Run, a \in Activity :
              <<s, a>> # <<r, w>> => call'[s][a] = call[s][a]
<1> DEFINE q == [rpc |-> "complete", expire_after |-> Retention,
                 fencing_token |-> flow[r][w].fencing_token]
           c == [request |-> q, answer |-> None]
<1>1. call' = [call EXCEPT ![r][w] = c]
  BY DEF CallComplete, Send
<1>2. /\ c.request.rpc = "complete" /\ c.answer = None
      /\ c.request.fencing_token = flow[r][w].fencing_token
  OBVIOUS
<1> HIDE DEF c
<1>3. /\ call'[r][w] = c
      /\ \A s \in Run, a \in Activity :
           <<s, a>> # <<r, w>> => call'[s][a] = call[s][a]
  BY <1>1 DEF WorkflowsInv, CallsInv, Activity
<1> QED
  BY <1>2, <1>3 DEF CompleteCalled

LEMMA FlowMoved ==
  ASSUME WorkflowsInv, NEW r \in Run, NEW w \in Flow,
         \/ OpenFlow(r, w) \/ FlowStarted(r, w) \/ FlowEnds(r, w)
         \/ FlowCompleted(r, w)
  PROVE  FlowMove(r, w)
<1>1. w \in Activity
  BY DEF Activity
<1>2. ASSUME Received(r, w)
      PROVE  /\ call'[r][w] = None
             /\ \A s \in Run, a \in Activity :
                  <<s, a>> # <<r, w>> => call'[s][a] = call[s][a]
  BY <1>1, <1>2 DEF Received, WorkflowsInv, CallsInv
<1>3. CASE OpenFlow(r, w)
  <2> DEFINE q == [rpc |-> "start"]
             c == [request |-> q, answer |-> None]
  <2>1. call' = [call EXCEPT ![r][w] = c]
    BY <1>3 DEF OpenFlow, Send
  <2>2. c.request.rpc = "start" /\ c.answer = None
    OBVIOUS
  <2> HIDE DEF c
  <2>3. /\ call'[r][w] = c
        /\ \A s \in Run, a \in Activity :
             <<s, a>> # <<r, w>> => call'[s][a] = call[s][a]
    BY <1>1, <2>1 DEF WorkflowsInv, CallsInv
  <2>4. /\ UNCHANGED <<program, stores, job, exec, now, history>>
        /\ flow[r][w].pc = "off" /\ FlowBecomes(r, w, "starting")
    BY <1>3 DEF OpenFlow, ServerUnchanged, NoFault, history
  <2> QED
    BY <2>2, <2>3, <2>4, FlowIsAt DEF FlowMove, FlowOpens, FlowPoint
<1>4. CASE FlowStarted(r, w)
  <2>1. /\ UNCHANGED <<program, stores, job, exec, now, history>>
        /\ flow[r][w].pc = "starting" /\ Answered(r, w) /\ Received(r, w)
    BY <1>4 DEF FlowStarted, ServerUnchanged
  <2>2. flow \in [Run -> [Flow -> FlowRecord]] /\ flow[r][w] \in FlowRecord
    BY DEF WorkflowsInv, StateInv
  <2>3. CASE Answer(r, w).kind = "error"
    <3>1. FlowBecomes(r, w, "failed")
      BY <1>4, <2>3 DEF FlowStarted, FlowBecomes
    <3> QED
      BY <1>2, <2>1, <2>3, <3>1, FlowIsAt DEF FlowMove, FlowStarts, FlowPoint
  <2>4. CASE Answer(r, w).kind # "error"
    <3> DEFINE f == Going(flow[r][w], Answer(r, w).fencing_token)
    <3>1. flow' = [flow EXCEPT ![r][w] = f]
      BY <1>4, <2>2, <2>4 DEF FlowStarted
    <3>2. /\ f.pc = "going" /\ f.step = flow[r][w].step
          /\ f.fencing_token = Answer(r, w).fencing_token
      BY <2>2 DEF Going, FlowRecord
    <3> HIDE DEF f
    <3>3. /\ flow'[r][w] = f
          /\ \A s \in Run, v \in Flow :
               <<s, v>> # <<r, w>> => flow'[s][v] = flow[s][v]
      BY <3>1 DEF WorkflowsInv, StateInv
    <3> QED
      BY <1>2, <2>1, <2>4, <3>2, <3>3 DEF FlowMove, FlowStarts
  <2> QED
    BY <2>3, <2>4
<1>5. CASE FlowEnds(r, w)
  <2>1. /\ UNCHANGED <<program, stores, job, exec, now, history>>
        /\ flow[r][w].pc = "going"
    BY <1>5 DEF FlowEnds, ServerUnchanged
  <2>2. call[r][w] = None
    BY <2>1, NothingAwaited
  <2>3. ASSUME UNCHANGED call
        PROVE  /\ call'[r][w] = None
               /\ \A s \in Run, a \in Activity :
                    <<s, a>> # <<r, w>> => call'[s][a] = call[s][a]
    BY <2>2, <2>3
  <2>4. CASE StepDone(r, w) /\ flow[r][w].step = Len(program.steps[w])
             /\ FlowBecomes(r, w, "completed") /\ UNCHANGED call
    BY <2>1, <2>2, <2>3, <2>4, FlowIsAt DEF FlowMove, FlowStops, FlowPoint
  <2>5. CASE StepDone(r, w) /\ flow[r][w].step = Len(program.steps[w])
             /\ CallComplete(r, w, "completing")
    <3>1. FlowBecomes(r, w, "completing")
      BY <2>5 DEF CallComplete
    <3> QED
      BY <2>1, <2>2, <2>5, <3>1, FlowIsAt, CompleteIsCalled
         DEF FlowMove, FlowStops, FlowPoint
  <2>6. CASE /\ \E t \in Current(r, w) : exec[r][t].pc = "threw"
             /\ FlowBecomes(r, w, "failed") /\ UNCHANGED call
    BY <2>1, <2>2, <2>3, <2>6, FlowIsAt DEF FlowMove, FlowStops, FlowPoint
  <2>7. CASE /\ \E t \in Current(r, w) : exec[r][t].pc = "threw"
             /\ CallComplete(r, w, "recovering")
    <3>1. FlowBecomes(r, w, "recovering")
      BY <2>7 DEF CallComplete
    <3> QED
      BY <2>1, <2>2, <2>7, <3>1, FlowIsAt, CompleteIsCalled
         DEF FlowMove, FlowStops, FlowPoint
  <2> QED
    BY <1>5, <2>4, <2>5, <2>6, <2>7, Zenon DEF FlowEnds
<1>6. CASE FlowCompleted(r, w)
  <2>1. /\ UNCHANGED <<program, stores, job, exec, now, history>>
        /\ flow[r][w].pc \in {"completing", "recovering"} /\ Answered(r, w)
    BY <1>6 DEF FlowCompleted, ServerUnchanged
  <2>2. CASE /\ Answer(r, w).kind # "error"
             /\ FlowBecomes(r, w, "completed") /\ Received(r, w)
    BY <1>2, <2>1, <2>2, FlowIsAt DEF FlowMove, FlowCloses, FlowPoint
  <2>3. CASE Answer(r, w).kind = "error" /\ CallComplete(r, w, "recovering")
    <3>1. FlowBecomes(r, w, "recovering")
      BY <2>3 DEF CallComplete
    <3> QED
      BY <2>1, <2>3, <3>1, FlowIsAt, CompleteIsCalled
         DEF FlowMove, FlowCloses, FlowPoint
  <2>4. CASE /\ Answer(r, w).kind = "error"
             /\ FlowBecomes(r, w, "failed") /\ Received(r, w)
    BY <1>2, <2>1, <2>4, FlowIsAt DEF FlowMove, FlowCloses, FlowPoint
  <2> QED
    BY <1>6, <2>2, <2>3, <2>4, Zenon DEF FlowCompleted
<1> QED
  BY <1>3, <1>4, <1>5, <1>6

\* What the execute of a task may do.
HistoryInv == held \in [Run -> [Task -> Nat]] /\ finished \in [Task -> Nat]

Asked(r, t, rpc) ==
  /\ call'[r][t].answer = None
  /\ call'[r][t].request = TaskCall(r, t, rpc)

Stays(r, t) ==
  /\ exec'[r][t].key = exec[r][t].key
  /\ exec'[r][t].expiry = exec[r][t].expiry
  /\ held'[r][t] = held[r][t] /\ finished'[t] = finished[t]

Stops(r, t) ==
  /\ exec'[r][t].pc \in {"returned", "threw"}
  /\ exec'[r][t].key = exec[r][t].key
  /\ held'[r][t] = 0 /\ finished'[t] = finished[t]

KeyCalls(r, t) ==
  /\ exec[r][t].pc = "ready" /\ t \in program.generated
  /\ exec'[r][t].pc = "keying" /\ Stays(r, t) /\ Asked(r, t, "key")
  /\ disturbed' = disturbed

KeyTold(r, t) ==
  /\ exec[r][t].pc = "keying" /\ Answered(r, t) /\ call'[r][t] = None
  /\ held'[r][t] = held[r][t] /\ finished'[t] = finished[t]
  /\ disturbed' = disturbed
  /\ \/ /\ Answer(r, t).kind = "error" /\ exec'[r][t].pc = "threw"
        /\ exec'[r][t].key = exec[r][t].key
     \/ Answer(r, t).kind # "error" /\ exec'[r][t].pc = "ready"

LeaseCalls(r, t) ==
  /\ exec[r][t].pc = "ready"
  /\ t \in program.generated => exec[r][t].key # t
  /\ exec'[r][t].pc = "leasing" /\ Stays(r, t) /\ Asked(r, t, "lease")
  /\ disturbed' = disturbed

LeaseTold(r, t) ==
  /\ exec[r][t].pc = "leasing" /\ Answered(r, t) /\ call'[r][t] = None
  /\ disturbed' = disturbed
  /\ \/ /\ Answer(r, t).kind = "value"
        /\ exec'[r][t].pc = "returned" /\ Stops(r, t)
     \/ Answer(r, t).kind = "wait" /\ exec'[r][t].pc = "ready" /\ Stays(r, t)
     \/ /\ Answer(r, t).kind = "granted" /\ exec'[r][t].pc = "running"
        /\ exec'[r][t].key = exec[r][t].key
        /\ exec'[r][t].expiry = now + Leases(program, t)
        /\ held'[r][t] = held[r][t] /\ finished'[t] = finished[t]
     \/ Answer(r, t).kind = "error" /\ exec'[r][t].pc = "ready" /\ Stays(r, t)
     \/ /\ Answer(r, t).kind = "error"
        /\ exec'[r][t].pc = "threw" /\ Stops(r, t)

Finishes(r, t) ==
  /\ exec[r][t].pc = "running" /\ exec'[r][t].pc = "saving"
  /\ HasInner(t) => InnerIs(r, t, "completed")
  /\ exec'[r][t].key = exec[r][t].key
  /\ exec'[r][t].expiry = exec[r][t].expiry
  /\ held'[r][t] = held[r][t] /\ finished'[t] = finished[t] + 1
  /\ call'[r][t] = None /\ disturbed' = disturbed

Releases(r, t) ==
  /\ exec[r][t].pc = "running" /\ exec'[r][t].pc = "releasing"
  /\ Stays(r, t) /\ Asked(r, t, "release")
  /\ \/ /\ \/ r = 1 /\ t \in program.throws
           \/ HasInner(t) /\ InnerIs(r, t, "failed")
        /\ disturbed' = disturbed
     \/ ~HasInner(t) /\ disturbed' = TRUE

Lets(r, t) ==
  /\ exec[r][t].pc = "releasing" /\ exec'[r][t].pc = "threw"
  /\ Stops(r, t) /\ call'[r][t] = None /\ disturbed' = disturbed

SaveCalls(r, t) ==
  /\ exec[r][t].pc = "saving" /\ exec'[r][t].pc = "checkpointing"
  /\ Stays(r, t) /\ Asked(r, t, "checkpoint") /\ disturbed' = disturbed

SaveTold(r, t) ==
  /\ exec[r][t].pc = "checkpointing" /\ Answered(r, t) /\ call'[r][t] = None
  /\ disturbed' = disturbed
  /\ \/ /\ Answer(r, t).kind = "error"
        /\ exec'[r][t].pc = "saving" /\ Stays(r, t)
     \/ /\ Answer(r, t).kind # "error" /\ Answer(r, t).abort
        /\ exec'[r][t].pc = "threw" /\ Stops(r, t)
     \/ /\ Answer(r, t).kind # "error"
        /\ exec'[r][t].pc = "returned" /\ Stops(r, t)

GivesUp(r, t) ==
  /\ exec[r][t].pc = "saving" /\ now >= exec[r][t].expiry
  /\ exec'[r][t].pc = "returned" /\ Stops(r, t)
  /\ call'[r][t] = None /\ disturbed' = disturbed

\* execute throws after a fault, with the lease, if any, left where it is.
Rejects(r, t) ==
  /\ \/ exec[r][t].pc = "leasing" /\ Answered(r, t)
     \/ /\ exec[r][t].pc = "running"
        /\ HasInner(t) => InnerIs(r, t, "completed") \/ InnerIs(r, t, "off")
  /\ exec'[r][t].pc = "threw" /\ exec'[r][t].key = exec[r][t].key
  /\ held'[r][t] = 0 /\ finished'[t] \in {finished[t], finished[t] + 1}
  /\ call'[r][t] = None /\ disturbed' = TRUE

TaskMove(r, t) ==
  /\ UNCHANGED <<program, stores, job, now, kept, due>>
  /\ \A s \in Run, u \in Task : <<s, u>> # <<r, t>> =>
       exec'[s][u] = exec[s][u] /\ held'[s][u] = held[s][u]
  /\ \A u \in Task : u # t => finished'[u] = finished[u]
  /\ \A s \in Run, a \in Activity :
       <<s, a>> # <<r, t>> => call'[s][a] = call[s][a]
  /\ \A s \in Run, v \in Flow :
       /\ flow'[s][v].pc = flow[s][v].pc
       /\ flow'[s][v].step = flow[s][v].step
       /\ flow'[s][v].fencing_token = flow[s][v].fencing_token
  /\ \/ KeyCalls(r, t) \/ KeyTold(r, t) \/ LeaseCalls(r, t) \/ LeaseTold(r, t)
     \/ Finishes(r, t) \/ Releases(r, t) \/ Lets(r, t)
     \/ SaveCalls(r, t) \/ SaveTold(r, t) \/ GivesUp(r, t) \/ Rejects(r, t)

LEMMA ExecIsAt ==
  ASSUME WorkflowsInv, NEW r \in Run, NEW t \in Task, NEW p \in TaskPoint,
         Becomes(r, t, p)
  PROVE  /\ exec'[r][t].pc = p /\ exec'[r][t].key = exec[r][t].key
         /\ exec'[r][t].expiry = exec[r][t].expiry
         /\ \A s \in Run, u \in Task :
              <<s, u>> # <<r, t>> => exec'[s][u] = exec[s][u]
<1> DEFINE e == [exec[r][t] EXCEPT !.pc = p]
<1>1. exec \in [Run -> [Task -> ExecRecord]] /\ exec[r][t] \in ExecRecord
  BY DEF WorkflowsInv, StateInv
<1>2. e.pc = p /\ e.key = exec[r][t].key /\ e.expiry = exec[r][t].expiry
  BY <1>1 DEF ExecRecord
<1>3. exec' = [exec EXCEPT ![r][t] = e]
  BY <1>1 DEF Becomes
<1> HIDE DEF e
<1> QED
  BY <1>1, <1>2, <1>3

\* The runner of a task that calls is in its place.
LEMMA FlowsStay ==
  ASSUME WorkflowsInv, NEW r \in Run, NEW t \in Task,
         UNCHANGED flow \/ flow' = [flow EXCEPT ![r][FlowOf(t)].position = @ + 1]
  PROVE  \A s \in Run, v \in Flow :
           /\ flow'[s][v].pc = flow[s][v].pc
           /\ flow'[s][v].step = flow[s][v].step
           /\ flow'[s][v].fencing_token = flow[s][v].fencing_token
<1> DEFINE w == FlowOf(t)
           f == [flow[r][w] EXCEPT !.position = flow[r][w].position + 1]
<1>1. flow \in [Run -> [Flow -> FlowRecord]] /\ w \in Flow
  BY TaskIs DEF WorkflowsInv, StateInv
<1>2. flow[r][w] \in FlowRecord
  BY <1>1
<1>3. /\ f.pc = flow[r][w].pc /\ f.step = flow[r][w].step
      /\ f.fencing_token = flow[r][w].fencing_token
  BY <1>2 DEF FlowRecord
<1>4. CASE flow' = [flow EXCEPT ![r][FlowOf(t)].position = @ + 1]
  <2>1. flow' = [flow EXCEPT ![r][w] = f]
    BY <1>1, <1>4
  <2> HIDE DEF f, w
  <2> QED
    BY <1>1, <1>3, <2>1
<1> QED
  BY <1>4

\* An execute makes a call.
LEMMA CallsMove ==
  ASSUME WorkflowsInv, HistoryInv, NEW r \in Run, NEW t \in Task,
         NEW p \in TaskPoint, NEW rpc, Calls(r, t, p, rpc)
  PROVE  /\ UNCHANGED <<program, stores, job, now, kept, due>>
         /\ \A s \in Run, u \in Task : <<s, u>> # <<r, t>> =>
              exec'[s][u] = exec[s][u] /\ held'[s][u] = held[s][u]
         /\ \A u \in Task : u # t => finished'[u] = finished[u]
         /\ \A s \in Run, a \in Activity :
              <<s, a>> # <<r, t>> => call'[s][a] = call[s][a]
         /\ \A s \in Run, v \in Flow :
              /\ flow'[s][v].pc = flow[s][v].pc
              /\ flow'[s][v].step = flow[s][v].step
              /\ flow'[s][v].fencing_token = flow[s][v].fencing_token
         /\ exec'[r][t].pc = p /\ Stays(r, t) /\ Asked(r, t, rpc)
<1> DEFINE c == [request |-> TaskCall(r, t, rpc), answer |-> None]
<1>1. /\ UNCHANGED <<program, stores, job, now, kept, due, flow, held, finished>>
      /\ Becomes(r, t, p)
  BY DEF Calls, ServerUnchanged
<1>2. call' = [call EXCEPT ![r][t] = c]
  BY DEF Calls, Send
<1>3. c.request = TaskCall(r, t, rpc) /\ c.answer = None
  OBVIOUS
<1> HIDE DEF c
<1>4. /\ call'[r][t] = c
      /\ \A s \in Run, a \in Activity :
           <<s, a>> # <<r, t>> => call'[s][a] = call[s][a]
  BY <1>2 DEF WorkflowsInv, CallsInv, Activity
<1>5. /\ exec'[r][t].pc = p /\ exec'[r][t].key = exec[r][t].key
      /\ exec'[r][t].expiry = exec[r][t].expiry
      /\ \A s \in Run, u \in Task :
           <<s, u>> # <<r, t>> => exec'[s][u] = exec[s][u]
  BY <1>1, ExecIsAt
<1> QED
  BY <1>1, <1>3, <1>4, <1>5 DEF Stays, Asked

LEMMA HeldAt ==
  ASSUME HistoryInv, NEW r \in Run, NEW t \in Task,
         held' = [held EXCEPT ![r][t] = 0]
  PROVE  /\ held'[r][t] = 0
         /\ \A s \in Run, u \in Task :
              <<s, u>> # <<r, t>> => held'[s][u] = held[s][u]
BY DEF HistoryInv

\* An execute is over.
LEMMA StopsMove ==
  ASSUME WorkflowsInv, HistoryInv, NEW r \in Run, NEW t \in Task,
         Return(r, t) \/ Throw(r, t)
  PROVE  /\ \A s \in Run, u \in Task : <<s, u>> # <<r, t>> =>
              exec'[s][u] = exec[s][u] /\ held'[s][u] = held[s][u]
         /\ \A s \in Run, v \in Flow :
              /\ flow'[s][v].pc = flow[s][v].pc
              /\ flow'[s][v].step = flow[s][v].step
              /\ flow'[s][v].fencing_token = flow[s][v].fencing_token
         /\ Return(r, t) => exec'[r][t].pc = "returned"
         /\ Throw(r, t) => exec'[r][t].pc = "threw"
         /\ exec'[r][t].key = exec[r][t].key /\ held'[r][t] = 0
         /\ finished' = finished => Stops(r, t)
<1>1. /\ held'[r][t] = 0
      /\ \A s \in Run, u \in Task :
           <<s, u>> # <<r, t>> => held'[s][u] = held[s][u]
  BY HeldAt DEF Return, Throw
<1>2. \A s \in Run, v \in Flow :
        /\ flow'[s][v].pc = flow[s][v].pc
        /\ flow'[s][v].step = flow[s][v].step
        /\ flow'[s][v].fencing_token = flow[s][v].fencing_token
  BY FlowsStay DEF Return, Throw
<1>3. ASSUME Return(r, t)
      PROVE  /\ exec'[r][t].pc = "returned" /\ exec'[r][t].key = exec[r][t].key
             /\ \A s \in Run, u \in Task :
                  <<s, u>> # <<r, t>> => exec'[s][u] = exec[s][u]
  <2> DEFINE e == Returned(exec[r][t])
  <2>1. exec \in [Run -> [Task -> ExecRecord]] /\ exec[r][t] \in ExecRecord
    BY DEF WorkflowsInv, StateInv
  <2>2. e.pc = "returned" /\ e.key = exec[r][t].key
    BY <2>1 DEF Returned, ExecRecord
  <2>3. exec' = [exec EXCEPT ![r][t] = e]
    BY <1>3, <2>1 DEF Return
  <2> HIDE DEF e
  <2> QED
    BY <2>1, <2>2, <2>3
<1>4. ASSUME Throw(r, t)
      PROVE  /\ exec'[r][t].pc = "threw" /\ exec'[r][t].key = exec[r][t].key
             /\ \A s \in Run, u \in Task :
                  <<s, u>> # <<r, t>> => exec'[s][u] = exec[s][u]
  BY <1>4, ExecIsAt DEF Throw, TaskPoint
<1> QED
  BY <1>1, <1>2, <1>3, <1>4 DEF Stops

LEMMA TaskMoved ==
  ASSUME WorkflowsInv, HistoryInv, NEW r \in Run, NEW t \in Task,
         TaskStep(r, t), ~BeginInner(r, t)
  PROVE  TaskMove(r, t)
<1>1. t \in Activity
  BY DEF Activity
<1>2. ASSUME Received(r, t)
      PROVE  /\ call'[r][t] = None
             /\ \A s \in Run, a \in Activity :
                  <<s, a>> # <<r, t>> => call'[s][a] = call[s][a]
  BY <1>1, <1>2 DEF Received, WorkflowsInv, CallsInv
<1>3. ASSUME UNCHANGED <<held, finished>>
      PROVE  /\ \A s \in Run, u \in Task : held'[s][u] = held[s][u]
             /\ \A u \in Task : finished'[u] = finished[u]
  BY <1>3
<1>4. CASE GenerateKey(r, t)
  <2>1. /\ exec[r][t].pc = "ready" /\ t \in program.generated
        /\ Calls(r, t, "keying", "key") /\ disturbed' = disturbed
    BY <1>4 DEF GenerateKey, NoFault
  <2> QED
    BY <2>1, CallsMove DEF TaskMove, KeyCalls, TaskPoint
<1>5. CASE KeyAnswered(r, t)
  <2>1. /\ exec[r][t].pc = "keying" /\ Answered(r, t) /\ Received(r, t)
        /\ UNCHANGED <<program, stores, job, now, flow, history>>
    BY <1>5 DEF KeyAnswered, ServerUnchanged
  <2>2. UNCHANGED <<kept, finished, due, held, disturbed>>
    BY <2>1 DEF history
  <2>3. exec \in [Run -> [Task -> ExecRecord]] /\ exec[r][t] \in ExecRecord
    BY DEF WorkflowsInv, StateInv
  <2>4. CASE Answer(r, t).kind = "error"
    <3>1. Becomes(r, t, "threw")
      BY <1>5, <2>4 DEF KeyAnswered, Becomes
    <3>2. /\ exec'[r][t].pc = "threw" /\ exec'[r][t].key = exec[r][t].key
          /\ \A s \in Run, u \in Task :
               <<s, u>> # <<r, t>> => exec'[s][u] = exec[s][u]
      BY <3>1, ExecIsAt DEF TaskPoint
    <3>3. KeyTold(r, t)
      BY <1>2, <2>1, <2>2, <2>4, <3>2 DEF KeyTold
    <3> QED
      BY <1>2, <2>1, <2>2, <3>2, <3>3 DEF TaskMove
  <2>5. CASE Answer(r, t).kind # "error"
    <3> DEFINE e == Keyed(exec[r][t], Answer(r, t).idempotency_key)
    <3>1. exec' = [exec EXCEPT ![r][t] = e]
      BY <1>5, <2>3, <2>5 DEF KeyAnswered
    <3>2. e.pc = "ready"
      BY <2>3 DEF Keyed, ExecRecord
    <3> HIDE DEF e
    <3>3. /\ exec'[r][t] = e
          /\ \A s \in Run, u \in Task :
               <<s, u>> # <<r, t>> => exec'[s][u] = exec[s][u]
      BY <2>3, <3>1
    <3>4. KeyTold(r, t)
      BY <1>2, <2>1, <2>2, <2>5, <3>2, <3>3 DEF KeyTold
    <3> QED
      BY <1>2, <2>1, <2>2, <3>3, <3>4 DEF TaskMove
  <2> QED
    BY <2>4, <2>5
<1>6. CASE LeaseCall(r, t)
  <2>1. /\ exec[r][t].pc = "ready"
        /\ t \in program.generated => exec[r][t].key # t
        /\ Calls(r, t, "leasing", "lease") /\ disturbed' = disturbed
    BY <1>6 DEF LeaseCall, NoFault
  <2> QED
    BY <2>1, CallsMove DEF TaskMove, LeaseCalls, TaskPoint
<1>7. CASE LeaseAnswered(r, t)
  <2>1. /\ exec[r][t].pc = "leasing" /\ Answered(r, t) /\ Received(r, t)
        /\ UNCHANGED <<program, stores, job, now, kept, due, finished, disturbed>>
    BY <1>7 DEF LeaseAnswered, ServerUnchanged
  <2>2. exec \in [Run -> [Task -> ExecRecord]] /\ exec[r][t] \in ExecRecord
    BY DEF WorkflowsInv, StateInv
  <2>3. CASE Answer(r, t).kind = "value" /\ Return(r, t)
    <3>1. LeaseTold(r, t)
      BY <1>2, <2>1, <2>3, StopsMove DEF LeaseTold
    <3> QED
      BY <1>2, <2>1, <2>3, <3>1, StopsMove DEF TaskMove
  <2>4. CASE /\ Answer(r, t).kind = "wait"
             /\ Becomes(r, t, "ready") /\ UNCHANGED <<flow, held>>
    <3>1. /\ exec'[r][t].pc = "ready" /\ exec'[r][t].key = exec[r][t].key
          /\ exec'[r][t].expiry = exec[r][t].expiry
          /\ \A s \in Run, u \in Task :
               <<s, u>> # <<r, t>> => exec'[s][u] = exec[s][u]
      BY <2>4, ExecIsAt DEF TaskPoint
    <3>2. LeaseTold(r, t)
      BY <1>2, <2>1, <2>4, <3>1 DEF LeaseTold, Stays
    <3> QED
      BY <1>2, <2>1, <2>4, <3>1, <3>2 DEF TaskMove
  <2>5. CASE /\ Answer(r, t).kind = "granted"
             /\ exec' = [exec EXCEPT ![r][t] =
                            Leased(@, now + Leases(program, t))]
             /\ UNCHANGED <<flow, held>>
    <3> DEFINE e == Leased(exec[r][t], now + Leases(program, t))
    <3>1. exec' = [exec EXCEPT ![r][t] = e]
      BY <2>2, <2>5
    <3>2. /\ e.pc = "running" /\ e.key = exec[r][t].key
          /\ e.expiry = now + Leases(program, t)
      BY <2>2 DEF Leased, ExecRecord
    <3> HIDE DEF e
    <3>3. /\ exec'[r][t] = e
          /\ \A s \in Run, u \in Task :
               <<s, u>> # <<r, t>> => exec'[s][u] = exec[s][u]
      BY <2>2, <3>1
    <3>4. LeaseTold(r, t)
      BY <1>2, <2>1, <2>5, <3>2, <3>3 DEF LeaseTold
    <3> QED
      BY <1>2, <2>1, <2>5, <3>3, <3>4 DEF TaskMove
  <2>6. CASE /\ Answer(r, t).kind = "error"
             /\ exec' = [exec EXCEPT ![r][t] = Retried(@)]
             /\ UNCHANGED <<flow, held>>
    <3> DEFINE e == Retried(exec[r][t])
    <3>1. exec' = [exec EXCEPT ![r][t] = e]
      BY <2>2, <2>6
    <3>2. /\ e.pc = "ready" /\ e.key = exec[r][t].key
          /\ e.expiry = exec[r][t].expiry
      BY <2>2 DEF Retried, ExecRecord
    <3> HIDE DEF e
    <3>3. /\ exec'[r][t] = e
          /\ \A s \in Run, u \in Task :
               <<s, u>> # <<r, t>> => exec'[s][u] = exec[s][u]
      BY <2>2, <3>1
    <3>4. LeaseTold(r, t)
      BY <1>2, <2>1, <2>6, <3>2, <3>3 DEF LeaseTold, Stays
    <3> QED
      BY <1>2, <2>1, <2>6, <3>3, <3>4 DEF TaskMove
  <2>7. CASE Answer(r, t).kind = "error" /\ Throw(r, t)
    <3>1. LeaseTold(r, t)
      BY <1>2, <2>1, <2>7, StopsMove DEF LeaseTold
    <3> QED
      BY <1>2, <2>1, <2>7, <3>1, StopsMove DEF TaskMove
  <2> QED
    BY <1>7, <2>3, <2>4, <2>5, <2>6, <2>7, Zenon DEF LeaseAnswered
<1>8. CASE TaskReturns(r, t)
  <2>1. /\ exec[r][t].pc = "running" /\ Becomes(r, t, "saving")
        /\ HasInner(t) => InnerIs(r, t, "completed")
        /\ UNCHANGED <<program, stores, job, now, flow, call, kept, due, held,
                       disturbed>>
        /\ finished' = [finished EXCEPT ![t] = @ + 1]
    BY <1>8 DEF TaskReturns, ServerUnchanged
  <2>2. call[r][t] = None
    BY <2>1, NothingAwaited
  <2>3. /\ exec'[r][t].pc = "saving" /\ exec'[r][t].key = exec[r][t].key
        /\ exec'[r][t].expiry = exec[r][t].expiry
        /\ \A s \in Run, u \in Task :
             <<s, u>> # <<r, t>> => exec'[s][u] = exec[s][u]
    BY <2>1, ExecIsAt DEF TaskPoint
  <2>4. /\ finished'[t] = finished[t] + 1
        /\ \A u \in Task : u # t => finished'[u] = finished[u]
    BY <2>1 DEF HistoryInv
  <2>5. Finishes(r, t)
    BY <2>1, <2>2, <2>3, <2>4 DEF Finishes
  <2> QED
    BY <2>1, <2>3, <2>4, <2>5 DEF TaskMove
<1>9. CASE TaskThrows(r, t)
  <2>1. exec[r][t].pc = "running" /\ Calls(r, t, "releasing", "release")
    BY <1>9 DEF TaskThrows
  <2>2. \/ /\ \/ r = 1 /\ t \in program.throws
              \/ HasInner(t) /\ InnerIs(r, t, "failed")
           /\ disturbed' = disturbed
        \/ ~HasInner(t) /\ disturbed' = TRUE
    BY <1>9 DEF TaskThrows, Fault, NoFault
  <2> QED
    BY <2>1, <2>2, CallsMove DEF TaskMove, Releases, TaskPoint
<1>10. CASE Released(r, t)
  <2>1. /\ exec[r][t].pc = "releasing" /\ Throw(r, t) /\ Received(r, t)
        /\ UNCHANGED <<program, stores, job, now, kept, due, finished, disturbed>>
    BY <1>10 DEF Released, ServerUnchanged
  <2> QED
    BY <1>2, <2>1, StopsMove DEF TaskMove, Lets
<1>11. CASE SaveCall(r, t)
  <2>1. /\ exec[r][t].pc = "saving" /\ disturbed' = disturbed
        /\ Calls(r, t, "checkpointing", "checkpoint")
    BY <1>11 DEF SaveCall, NoFault
  <2> QED
    BY <2>1, CallsMove DEF TaskMove, SaveCalls, TaskPoint
<1>12. CASE SaveAnswered(r, t)
  <2>1. /\ exec[r][t].pc = "checkpointing" /\ Answered(r, t) /\ Received(r, t)
        /\ UNCHANGED <<program, stores, job, now, kept, due, finished, disturbed>>
    BY <1>12 DEF SaveAnswered, ServerUnchanged
  <2>2. CASE /\ Answer(r, t).kind = "error"
             /\ Becomes(r, t, "saving") /\ UNCHANGED <<flow, held>>
    <3>1. /\ exec'[r][t].pc = "saving" /\ exec'[r][t].key = exec[r][t].key
          /\ exec'[r][t].expiry = exec[r][t].expiry
          /\ \A s \in Run, u \in Task :
               <<s, u>> # <<r, t>> => exec'[s][u] = exec[s][u]
      BY <2>2, ExecIsAt DEF TaskPoint
    <3>2. SaveTold(r, t)
      BY <1>2, <2>1, <2>2, <3>1 DEF SaveTold, Stays
    <3> QED
      BY <1>2, <2>1, <2>2, <3>1, <3>2 DEF TaskMove
  <2>3. CASE Answer(r, t).kind # "error" /\ Answer(r, t).abort /\ Throw(r, t)
    <3>1. SaveTold(r, t)
      BY <1>2, <2>1, <2>3, StopsMove DEF SaveTold
    <3> QED
      BY <1>2, <2>1, <2>3, <3>1, StopsMove DEF TaskMove
  <2>4. CASE Answer(r, t).kind # "error" /\ Return(r, t)
    <3>1. SaveTold(r, t)
      BY <1>2, <2>1, <2>4, StopsMove DEF SaveTold
    <3> QED
      BY <1>2, <2>1, <2>4, <3>1, StopsMove DEF TaskMove
  <2> QED
    BY <1>12, <2>2, <2>3, <2>4, Zenon DEF SaveAnswered
<1>13. CASE SaveExpires(r, t)
  <2>1. /\ exec[r][t].pc = "saving" /\ now >= exec[r][t].expiry /\ Return(r, t)
        /\ UNCHANGED <<program, stores, job, now, call, kept, due, finished,
                       disturbed>>
    BY <1>13 DEF SaveExpires, ServerUnchanged
  <2>2. call[r][t] = None
    BY <2>1, NothingAwaited
  <2>3. GivesUp(r, t)
    BY <2>1, <2>2, StopsMove DEF GivesUp
  <2> QED
    BY <2>1, <2>3, StopsMove DEF TaskMove
<1>14. CASE DeserializeThrows(r, t)
  <2>1. /\ exec[r][t].pc = "leasing" /\ Answered(r, t) /\ Throw(r, t)
        /\ Received(r, t) /\ disturbed' = TRUE
        /\ UNCHANGED <<program, stores, job, now, kept, due, finished>>
    BY <1>14 DEF DeserializeThrows, Fault, ServerUnchanged
  <2>2. Rejects(r, t)
    BY <1>2, <2>1, StopsMove DEF Rejects
  <2> QED
    BY <1>2, <2>1, <2>2, StopsMove DEF TaskMove
<1>15. CASE TaskThrowsUncaught(r, t)
  <2>1. /\ exec[r][t].pc = "running" /\ Throw(r, t) /\ disturbed' = TRUE
        /\ UNCHANGED <<program, stores, job, now, call, kept, due>>
        /\ HasInner(t) => InnerIs(r, t, "completed") \/ InnerIs(r, t, "off")
        /\ \/ finished' = [finished EXCEPT ![t] = @ + 1]
           \/ finished' = finished
    BY <1>15 DEF TaskThrowsUncaught, Fault, ServerUnchanged
  <2>2. call[r][t] = None
    BY <2>1, NothingAwaited
  <2>3. /\ finished'[t] \in {finished[t], finished[t] + 1}
        /\ \A u \in Task : u # t => finished'[u] = finished[u]
    BY <2>1 DEF HistoryInv
  <2>4. Rejects(r, t)
    BY <2>1, <2>2, <2>3, StopsMove DEF Rejects
  <2> QED
    BY <2>1, <2>3, <2>4, StopsMove DEF TaskMove
<1> QED
  BY <1>4, <1>5, <1>6, <1>7, <1>8, <1>9, <1>10, <1>11, <1>12, <1>13, <1>14,
     <1>15 DEF TaskStep
-----------------------------------------------------------------------------
(* Where the result of a task is stored when executes are called in turn.  *)

StepOf(t) == CHOOSE i \in DOMAIN program.steps[FlowOf(t)] :
               t \in program.steps[FlowOf(t)][i]
Place(t) == StepOf(t) - 1
RowOf(t) == stores[FlowOf(t)].checkpoints[Place(t)]
EntryOf(t) == stores[FlowOf(t)].leases[Place(t)]

LEMMA PlacesStay ==
  ASSUME program' = program
  PROVE  /\ \A t : FlowOf(t)' = FlowOf(t) /\ Place(t)' = Place(t)
         /\ Flow' = Flow /\ Task' = Task /\ InTurn' = InTurn
<1>1. \A t : FlowOf(t)' = FlowOf(t)
  BY DEF FlowOf, Flow, TasksOf
<1>2. \A t : StepOf(t)' = StepOf(t)
  BY <1>1 DEF StepOf
<1> QED
  BY <1>1, <1>2, SameProgram DEF Place, InTurn

LEMMA StepOfIs ==
  ASSUME program \in Explored, NEW t \in Task
  PROVE  /\ StepOf(t) \in DOMAIN program.steps[FlowOf(t)]
         /\ t \in program.steps[FlowOf(t)][StepOf(t)]
         /\ StepOf(t) \in Nat \ {0}
<1>1. FlowOf(t) \in Flow /\ t \in TasksOf(FlowOf(t))
  BY TaskIs
<1>2. \E i \in DOMAIN program.steps[FlowOf(t)] :
        t \in program.steps[FlowOf(t)][i]
  BY <1>1 DEF TasksOf
<1>3. /\ StepOf(t) \in DOMAIN program.steps[FlowOf(t)]
      /\ t \in program.steps[FlowOf(t)][StepOf(t)]
  BY <1>2 DEF StepOf
<1> QED
  BY <1>1, <1>3, StepIs

\* A workflow has a position for each of its steps, and no two tasks share one.
LEMMA PlaceIs ==
  ASSUME program \in Explored, InTurn, NEW t \in Task
  PROVE  /\ Place(t) \in Position
         /\ program.steps[FlowOf(t)][StepOf(t)] = {t}
         /\ \A u \in Task :
              FlowOf(u) = FlowOf(t) /\ Place(u) = Place(t) => u = t
<1> DEFINE w == FlowOf(t)
           n == Len(program.steps[w])
           pick == [i \in 1 .. n |-> CHOOSE u : u \in program.steps[w][i]]
<1>1. w \in Flow /\ n \in Nat /\ DOMAIN program.steps[w] = 1 .. n
  BY TaskIs, StepsAre
<1>2. \A i \in 1 .. n : program.steps[w][i] = {pick[i]}
  <2> SUFFICES ASSUME NEW i \in 1 .. n PROVE program.steps[w][i] = {pick[i]}
    OBVIOUS
  <2>1. \E u : program.steps[w][i] = {u}
    BY <1>1, AloneInStep
  <2> QED
    BY <2>1
<1>3. \A i, j \in 1 .. n : i # j => program.steps[w][i] \cap program.steps[w][j] = {}
  BY <1>1, ProgramIs
<1>4. \A i \in 1 .. n : program.steps[w][i] \subseteq TasksOf(w)
  BY <1>1, StepIs
<1>5. pick \in Injection(1 .. n, TasksOf(w))
  <2>1. pick \in [1 .. n -> TasksOf(w)]
    BY <1>2, <1>4
  <2>2. \A i, j \in 1 .. n : pick[i] = pick[j] => i = j
    <3> HIDE DEF pick
    <3> QED
      BY <1>2, <1>3
  <2> QED
    BY <2>1, <2>2 DEF Injection, IsInjective
<1> HIDE DEF pick
<1>6. /\ IsFiniteSet(TasksOf(w))
      /\ Cardinality(TasksOf(w)) <= Cardinality(Position)
  BY <1>1, ProgramIs
<1>7. Cardinality(1 .. n) <= Cardinality(TasksOf(w))
  BY <1>5, <1>6, FS_Injection
<1>8. Cardinality(1 .. n) = n
  BY <1>1, FS_Interval
<1>9. Cardinality(TasksOf(w)) \in Nat /\ Cardinality(Position) \in Nat
  BY <1>6, FS_CardinalityType, PositionsAssumption
<1>10. StepOf(t) \in 1 .. n /\ t \in program.steps[w][StepOf(t)]
  BY <1>1, StepOfIs
<1>11. Place(t) \in 0 .. Cardinality(Position) - 1
  BY <1>1, <1>6, <1>7, <1>8, <1>9, <1>10 DEF Place
<1>12. program.steps[w][StepOf(t)] = {t}
  BY <1>2, <1>10
<1>13. ASSUME NEW u \in Task, FlowOf(u) = w, Place(u) = Place(t)
       PROVE  u = t
  <2>1. u \in program.steps[w][StepOf(u)] /\ StepOf(u) \in Nat
    BY <1>13, StepOfIs
  <2>2. StepOf(u) = StepOf(t)
    BY <1>1, <1>10, <1>13, <2>1 DEF Place
  <2> QED
    BY <1>12, <2>1, <2>2
<1> QED
  BY <1>11, <1>12, <1>13, PositionsAssumption

\* So an execute asks for the place of its task.
LEMMA AsksForPlace ==
  ASSUME WorkflowsInv, OwnInv, InTurn, NEW r \in Run, NEW t \in Task,
         call[r][t] # None
  PROVE  call[r][t].request.position = Place(t)
<1>1. program \in Explored
  BY DEF WorkflowsInv, StateInv
<1>2. FlowOf(t) \in Flow
  BY <1>1, TaskIs
<1> QED
  BY <1>1, <1>2, StepOfIs DEF OwnInv, RequestInv, Place

\* An execute that is under way is in the step that its runner is in.
LEMMA UnderWay ==
  ASSUME WorkflowsInv, OwnInv, InTurn, NEW r \in Run, NEW t \in Task,
         exec[r][t].pc \notin {"off", "returned", "crashed"}
  PROVE  /\ flow[r][FlowOf(t)].step = StepOf(t)
         /\ Current(r, FlowOf(t)) = {t} /\ ~StepDone(r, FlowOf(t))
<1>1. program \in Explored
  BY DEF WorkflowsInv, StateInv
<1>2. FlowOf(t) \in Flow
  BY <1>1, TaskIs
<1> QED
  BY <1>1, <1>2, StepOfIs, PositionIs DEF OwnInv

\* How long a lease is in the cache.
LEMMA TtlIs ==
  ASSUME NEW n \in Nat
  PROVE  CacheTtl(n) \in Nat \ {0} /\ n - CacheTtl(n) < Second
<1> DEFINE s == n \div Second
<1>1. s \in Nat /\ n < s * Second + Second
  BY TtlAssumption
<1> HIDE DEF s
<1>2. s * Second \in Nat /\ MinimumTtl * Second \in Nat \ {0}
  BY <1>1, TtlAssumption
<1>3. s <= MinimumTtl => s * Second <= MinimumTtl * Second
  BY <1>1, TtlAssumption
<1>4. s > MinimumTtl => s * Second > 0
  BY <1>1, TtlAssumption
<1>5. CacheTtl(n) = (IF s > MinimumTtl THEN s ELSE MinimumTtl) * Second
  BY DEF CacheTtl, s
<1> QED
  BY <1>1, <1>2, <1>3, <1>4, <1>5, TtlAssumption
-----------------------------------------------------------------------------
(* What an RPC does to the token and the leases, and when it is refused.   *)

SameLeases(db, o) == o.stores.leases = db.leases
SameToken(db, o) == o.stores.fencingToken = db.fencingToken
SameRows(db, o) == o.stores.checkpoints = db.checkpoints
OtherLeases(db, q, o) ==
  \A p \in Position \ {q.position} : o.stores.leases[p] = db.leases[p]
OtherRows(db, q, o) ==
  \A p \in Position \ {q.position} : o.stores.checkpoints[p] = db.checkpoints[p]
LeftAt(db, q, n) == RemainingLease(db.leases[q.position], n)

StartDoes(db, o) ==
  /\ o.reply.kind = "token" /\ SameLeases(db, o) /\ SameRows(db, o)
  /\ o.stores.fencingToken # None
  /\ o.reply.fencing_token = o.stores.fencingToken
  /\ o.stores.workflow \in {InsertWorkflow(db.workflow), db.workflow}

CompleteDoes(db, q, o) ==
  /\ SameToken(db, o) /\ SameLeases(db, o) /\ SameRows(db, o)
  /\ \/ o.reply.kind = "completed"
     \/ /\ o.reply.kind = "error"
        /\ db.fencingToken = None \/ db.fencingToken < q.fencing_token

LeaseDoes(db, q, n, o) ==
  LET row == db.checkpoints[q.position]
      entry == db.leases[q.position]
  IN  /\ SameToken(db, o) /\ SameRows(db, o) /\ OtherLeases(db, q, o)
      /\ o.stores.workflow = db.workflow
      /\ \/ /\ o.reply.kind = "granted" /\ row = None
            /\ entry = None \/ LeftAt(db, q, n) <= 0
            /\ o.stores.leases[q.position] # None
            /\ o.stores.leases[q.position].created_at = n
            /\ o.stores.leases[q.position].lease_timeout = q.lease_timeout
         \/ o.reply.kind \in {"value", "wait"} /\ SameLeases(db, o)
         \/ /\ o.reply.kind = "error" /\ SameLeases(db, o)
            /\ \/ row # None /\ \/ row.idempotency_key # q.idempotency_key
                                \/ row.value = None
               \/ db.fencingToken = None
               \/ db.fencingToken # q.fencing_token

CheckpointDoes(db, q, n, o) ==
  /\ SameToken(db, o) /\ OtherLeases(db, q, o) /\ OtherRows(db, q, o)
  /\ o.stores.workflow = db.workflow
  /\ o.stores.leases[q.position] = None
  /\ \/ /\ o.reply \in Saved
        /\ o.reply.abort <=> db.fencingToken > q.fencing_token
        /\ o.stores.checkpoints[q.position] # None
        /\ \/ o.stores.checkpoints[q.position] = db.checkpoints[q.position]
           \/ o.stores.checkpoints[q.position].value = q.value
     \/ /\ o.reply.kind = "error" /\ SameRows(db, o)
        /\ \/ db.fencingToken = None
           \/ db.leases[q.position] # None /\ LeftAt(db, q, n) <= 0

ReleaseDoes(db, q, o) ==
  /\ o.reply.kind = "released"
  /\ SameToken(db, o) /\ SameRows(db, o) /\ OtherLeases(db, q, o)
  /\ o.stores.workflow = db.workflow
  /\ o.stores.leases[q.position] = None

KeyDoes(db, q, o) ==
  /\ SameToken(db, o) /\ SameLeases(db, o) /\ OtherRows(db, q, o)
  /\ o.stores.workflow = db.workflow
  /\ db.checkpoints[q.position] # None => SameRows(db, o)
  /\ \/ o.reply.kind = "error" /\ SameRows(db, o)
     \/ o.reply.kind = "key" /\ o.stores.checkpoints[q.position] # None

LEMMA FieldKept ==
  ASSUME NEW db \in StoresRecord
  PROVE  /\ \A row : LET new == [db EXCEPT !.workflow = row]
                     IN  /\ new.fencingToken = db.fencingToken
                         /\ new.leases = db.leases
                         /\ new.checkpoints = db.checkpoints
                         /\ new.workflow = row
         /\ \A rows : LET new == [db EXCEPT !.checkpoints = rows]
                      IN  /\ new.fencingToken = db.fencingToken
                          /\ new.leases = db.leases
                          /\ new.workflow = db.workflow
                          /\ new.checkpoints = rows
         /\ \A entries : LET new == [db EXCEPT !.leases = entries]
                         IN  /\ new.fencingToken = db.fencingToken
                             /\ new.checkpoints = db.checkpoints
                             /\ new.workflow = db.workflow
                             /\ new.leases = entries
         /\ \A token : LET new == [db EXCEPT !.fencingToken = token]
                       IN  /\ new.fencingToken = token
                           /\ new.leases = db.leases
                           /\ new.checkpoints = db.checkpoints
                           /\ new.workflow = db.workflow
BY DEF StoresRecord

LEMMA FreedKeeps ==
  ASSUME NEW db \in StoresRecord, NEW p \in Position
  PROVE  /\ Freed(db, p).fencingToken = db.fencingToken
         /\ Freed(db, p).checkpoints = db.checkpoints
         /\ Freed(db, p).workflow = db.workflow
         /\ Freed(db, p).leases[p] = None
         /\ \A x \in Position \ {p} : Freed(db, p).leases[x] = db.leases[x]
<1> DEFINE entries == [db.leases EXCEPT ![p] = None]
<1>1. Freed(db, p) = [db EXCEPT !.leases = entries]
  BY DEF Freed, StoresRecord
<1>2. /\ entries[p] = None
      /\ \A x \in Position \ {p} : entries[x] = db.leases[x]
  BY StoresFields
<1> HIDE DEF entries
<1> QED
  BY <1>1, <1>2, FieldKept

LEMMA StartRefused ==
  ASSUME NEW db \in StoresRecord, NEW o \in StartRpc(db)
  PROVE  StartDoes(db, o)
<1> DEFINE c == Counted(db)
<1>1. PICK row \in {InsertWorkflow(db.workflow), db.workflow} :
        o = Outcome([c EXCEPT !.workflow = row],
                    [kind |-> "token", fencing_token |-> c.fencingToken])
  BY DEF StartRpc
<1>2. /\ c \in StoresRecord /\ c.fencingToken \in Nat
      /\ c.checkpoints = db.checkpoints
  BY CountedIs
<1>3. c.leases = db.leases
  BY FieldKept DEF Counted
<1> HIDE DEF c
<1> DEFINE new == [c EXCEPT !.workflow = row]
<1>4. /\ new.fencingToken = c.fencingToken /\ new.leases = c.leases
      /\ new.checkpoints = c.checkpoints /\ new.workflow = row
  BY <1>2, FieldKept
<1> HIDE DEF new
<1>5. /\ o.stores = new
      /\ o.reply = [kind |-> "token", fencing_token |-> c.fencingToken]
  BY <1>1 DEF Outcome, new
<1> QED
  BY <1>1, <1>2, <1>3, <1>4, <1>5, NoneAssumption
     DEF StartDoes, SameLeases, SameRows

LEMMA CompleteRefused ==
  ASSUME NEW db \in StoresRecord, NEW n \in Nat, NEW q \in FlowRequest,
         q.rpc = "complete", NEW o \in CompleteRpc(db, q, n)
  PROVE  CompleteDoes(db, q, o)
<1> DEFINE row == CompleteWorkflow(db.workflow, n + q.expire_after)
           new == [db EXCEPT !.workflow = CompleteWorkflow(@, n + q.expire_after)]
<1>1. CASE /\ \E code : o = Refusal(db, code)
           /\ db.fencingToken = None \/ db.fencingToken < q.fencing_token
  BY <1>1 DEF Outcome, Refusal, CompleteDoes, SameToken, SameLeases, SameRows
<1>2. CASE o = Outcome(new, [kind |-> "completed"])
  <2>1. new = [db EXCEPT !.workflow = row]
    BY DEF StoresRecord
  <2>2. /\ new.fencingToken = db.fencingToken /\ new.leases = db.leases
        /\ new.checkpoints = db.checkpoints
    BY <2>1, FieldKept
  <2>3. o.stores = new /\ o.reply = [kind |-> "completed"]
    BY <1>2 DEF Outcome
  <2> HIDE DEF new
  <2> QED
    BY <2>2, <2>3 DEF CompleteDoes, SameToken, SameLeases, SameRows
<1> QED
  BY <1>1, <1>2 DEF CompleteRpc

LEMMA LeaseRefused ==
  ASSUME NEW db \in StoresRecord, NEW q \in TaskRequest, NEW n \in Nat,
         NEW o \in LeaseRpc(db, q, n)
  PROVE  LeaseDoes(db, q, n, o)
<1> DEFINE row == db.checkpoints[q.position]
           entry == db.leases[q.position]
           left == RemainingLease(entry, n)
           granted == [created_at |-> n, lease_timeout |-> q.lease_timeout]
           new == [db EXCEPT !.leases[q.position] = granted]
<1>1. CASE /\ row # None
           /\ o = Outcome(db, [kind |-> "value", position |-> q.position,
                               value |-> row.value])
  BY <1>1 DEF Outcome, LeaseDoes, SameToken, SameRows, SameLeases, OtherLeases
<1>2. CASE o = Outcome(db, [kind |-> "wait", remaining |-> left])
  BY <1>2 DEF Outcome, LeaseDoes, SameToken, SameRows, SameLeases, OtherLeases
<1>3. CASE /\ \E code : o = Refusal(db, code)
           /\ \/ row # None /\ \/ row.idempotency_key # q.idempotency_key
                               \/ row.value = None
              \/ db.fencingToken = None
              \/ db.fencingToken # q.fencing_token
  BY <1>3 DEF Outcome, Refusal, LeaseDoes, SameToken, SameRows, SameLeases,
              OtherLeases
<1>4. CASE /\ row = None /\ ~(entry # None /\ left > 0)
           /\ o = Outcome(new, [kind |-> "granted"])
  <2>1. q.position \in Position /\ granted \in LeaseEntry /\ granted # None
    BY WorkflowsAssumption DEF TaskRequest, LeaseEntry
  <2> DEFINE entries == [db.leases EXCEPT ![q.position] = granted]
  <2>2. /\ entries[q.position] = granted
        /\ \A p \in Position \ {q.position} : entries[p] = db.leases[p]
    BY <2>1, StoresFields
  <2>3. new = [db EXCEPT !.leases = entries]
    BY DEF StoresRecord
  <2>4. o.stores = new /\ o.reply = [kind |-> "granted"]
    BY <1>4 DEF Outcome
  <2> HIDE DEF new, entries
  <2>5. /\ new.fencingToken = db.fencingToken /\ new.leases = entries
        /\ new.checkpoints = db.checkpoints /\ new.workflow = db.workflow
    BY <2>3, FieldKept
  <2>6. entry = None \/ left <= 0
    <3>1. entry # None => left \in Int
      BY <2>1, StoresFields DEF RemainingLease, LeaseEntry
    <3> QED
      BY <1>4, <3>1
  <2>7. granted.created_at = n /\ granted.lease_timeout = q.lease_timeout
    OBVIOUS
  <2> HIDE DEF granted
  <2> QED
    BY <1>4, <2>1, <2>2, <2>4, <2>5, <2>6, <2>7
       DEF LeaseDoes, SameToken, SameRows, OtherLeases, LeftAt
<1>5. /\ db.fencingToken \in Nat \cup {None} /\ q.fencing_token \in Nat
  BY StoresFields DEF TaskRequest
<1>6. \/ \E code : /\ o = Refusal(db, code)
                   /\ \/ row # None /\ \/ row.idempotency_key # q.idempotency_key
                                       \/ row.value = None
                      \/ db.fencingToken = None
                      \/ /\ db.fencingToken # None
                         /\ \/ db.fencingToken > q.fencing_token
                            \/ db.fencingToken < q.fencing_token
      \/ /\ row # None
         /\ o = Outcome(db, [kind |-> "value", position |-> q.position,
                             value |-> row.value])
      \/ o = Outcome(db, [kind |-> "wait", remaining |-> left])
      \/ /\ row = None /\ ~(entry # None /\ left > 0)
         /\ o = Outcome(new, [kind |-> "granted"])
  BY Zenon DEF LeaseRpc, Granting
<1>7. db.fencingToken # None =>
        /\ db.fencingToken > q.fencing_token => db.fencingToken # q.fencing_token
        /\ db.fencingToken < q.fencing_token => db.fencingToken # q.fencing_token
  BY <1>5
<1> QED
  BY <1>1, <1>2, <1>3, <1>4, <1>6, <1>7, Zenon

LEMMA CheckpointRefused ==
  ASSUME NEW db \in StoresRecord, NEW q \in TaskRequest, NEW n \in Nat,
         NEW o \in CheckpointRpc(db, q, n)
  PROVE  CheckpointDoes(db, q, n, o)
<1> DEFINE freed == Freed(db, q.position)
           row == db.checkpoints[q.position]
           entry == db.leases[q.position]
           new == InsertCheckpoint(row, q.idempotency_key, q.value)
           saved == [freed EXCEPT !.checkpoints[q.position] =
                       InsertCheckpoint(@, q.idempotency_key, q.value)]
<1>1. q.position \in Position /\ q.idempotency_key \in Key /\ q.value \in Value
  BY DEF TaskRequest
<1>2. /\ freed \in StoresRecord /\ freed.workflow = db.workflow
      /\ freed.checkpoints = db.checkpoints
      /\ freed.fencingToken = db.fencingToken
      /\ freed.leases[q.position] = None
      /\ \A p \in Position \ {q.position} : freed.leases[p] = db.leases[p]
  BY <1>1, FreedIs, FreedKeeps
<1>3. CASE /\ \E code : o = Refusal(freed, code)
           /\ \/ db.fencingToken = None
              \/ entry # None /\ RemainingLease(entry, n) <= 0
  BY <1>2, <1>3 DEF Outcome, Refusal, CheckpointDoes, SameToken, SameRows,
                    OtherLeases, OtherRows, LeftAt
<1>4. CASE o = Outcome(saved, [kind |-> "saved",
                               abort |-> db.fencingToken > q.fencing_token])
  <2>1. row \in CheckpointRow \cup {None}
    BY <1>1, StoresFields
  <2>2. new \in CheckpointRow /\ (new = row \/ new.value = q.value)
    BY <1>1, <2>1, RowsTyped DEF InsertCheckpoint
  <2>3. new # None
    BY <2>2, WorkflowsAssumption
  <2> HIDE DEF freed, new
  <2> DEFINE rows == [freed.checkpoints EXCEPT ![q.position] = new]
  <2>4. /\ rows[q.position] = new
        /\ \A p \in Position \ {q.position} : rows[p] = db.checkpoints[p]
    BY <1>1, <1>2, StoresFields
  <2>5. saved = [freed EXCEPT !.checkpoints = rows]
    BY <1>2 DEF StoresRecord, new
  <2> HIDE DEF saved, rows
  <2>6. /\ saved.fencingToken = freed.fencingToken
        /\ saved.leases = freed.leases
        /\ saved.checkpoints = rows /\ saved.workflow = freed.workflow
    BY <1>2, <2>5, FieldKept
  <2>7. /\ o.stores = saved
        /\ o.reply = [kind |-> "saved",
                      abort |-> db.fencingToken > q.fencing_token]
    BY <1>4 DEF Outcome, saved
  <2>8. /\ o.reply \in Saved
        /\ o.reply.abort = (db.fencingToken > q.fencing_token)
    BY <2>7 DEF Saved
  <2> QED
    BY <1>2, <2>8, <2>2, <2>3, <2>4, <2>6, <2>7
       DEF CheckpointDoes, SameToken, OtherLeases, OtherRows
<1> QED
  BY <1>3, <1>4 DEF CheckpointRpc, Saving

LEMMA ReleaseFrees ==
  ASSUME NEW db \in StoresRecord, NEW q \in TaskRequest,
         NEW o \in ReleaseRpc(db, q)
  PROVE  ReleaseDoes(db, q, o)
<1>1. q.position \in Position
  BY DEF TaskRequest
<1>2. o = Outcome(Freed(db, q.position), [kind |-> "released"])
  BY DEF ReleaseRpc
<1> QED
  BY <1>1, <1>2, FreedKeeps
     DEF Outcome, ReleaseDoes, SameToken, SameRows, OtherLeases

LEMMA KeyRefused ==
  ASSUME NEW db \in StoresRecord, NEW q \in TaskRequest,
         NEW o \in KeyRpc(db, q, Uuid)
  PROVE  KeyDoes(db, q, o)
<1> DEFINE row == db.checkpoints[q.position]
<1>1. q.position \in Position /\ row \in CheckpointRow \cup {None}
  BY StoresFields DEF TaskRequest
<1>2. CASE /\ row # None
           /\ \E reply : reply.kind = "key" /\ o = Outcome(db, reply)
  BY <1>2 DEF Outcome, KeyDoes, SameToken, SameLeases, SameRows, OtherRows
<1>3. CASE row = None /\ \E code : o = Refusal(db, code)
  BY <1>3 DEF Outcome, Refusal, KeyDoes, SameToken, SameLeases, SameRows,
              OtherRows
<1>4. CASE /\ row = None
           /\ \E k \in Uuid : \E reply :
                /\ reply.kind = "key"
                /\ o = Outcome([db EXCEPT !.checkpoints[q.position] =
                                  InsertCheckpoint(@, k, None)], reply)
  <2>1. PICK k \in Uuid :
          \E reply : /\ reply.kind = "key"
                     /\ o = Outcome([db EXCEPT !.checkpoints[q.position] =
                                       InsertCheckpoint(@, k, None)], reply)
    BY <1>4
  <2> DEFINE new == InsertCheckpoint(row, k, None)
             rows == [db.checkpoints EXCEPT ![q.position] = new]
             drawn == [db EXCEPT !.checkpoints[q.position] =
                         InsertCheckpoint(@, k, None)]
  <2>2. new \in CheckpointRow
    BY <1>1, RowsTyped, WorkflowsAssumption
  <2>3. new # None
    BY <2>2, WorkflowsAssumption
  <2> HIDE DEF new
  <2>4. /\ rows[q.position] = new
        /\ \A p \in Position \ {q.position} : rows[p] = db.checkpoints[p]
    BY <1>1, StoresFields
  <2>5. drawn = [db EXCEPT !.checkpoints = rows]
    BY DEF StoresRecord, new
  <2> HIDE DEF drawn, rows
  <2>6. /\ drawn.fencingToken = db.fencingToken /\ drawn.leases = db.leases
        /\ drawn.checkpoints = rows /\ drawn.workflow = db.workflow
    BY <2>5, FieldKept
  <2>7. o.stores = drawn /\ o.reply.kind = "key"
    BY <2>1 DEF Outcome, drawn
  <2> QED
    BY <1>4, <2>3, <2>4, <2>6, <2>7
       DEF KeyDoes, SameToken, SameLeases, OtherRows
<1> QED
  BY <1>2, <1>3, <1>4 DEF KeyRpc
-----------------------------------------------------------------------------
(* What each kind of step does.                                            *)

LEMMA HistoryStart == Init => HistoryInv
BY DEF Init, HistoryInv

LEMMA HistoryKept ==
  ASSUME WorkflowsInv, StageInv, HistoryInv, [Next]_vars
  PROVE  HistoryInv'
<1>1. ASSUME UNCHANGED <<program, held, finished>>
      PROVE  HistoryInv'
  BY <1>1, SameProgram DEF HistoryInv
<1>2. ASSUME NEW r \in Run, NEW t \in Task, program' = program,
             \/ held' = held \/ held' = [held EXCEPT ![r][t] = 0],
             \/ finished' = finished
             \/ finished' = [finished EXCEPT ![t] = @ + 1]
      PROVE  HistoryInv'
  BY <1>2, SameProgram DEF HistoryInv
<1>3. ASSUME NEW r \in Run, NEW a \in Activity, Pending(r, a),
             NEW o, Effect(r, a, o)
      PROVE  HistoryInv'
  <2> DEFINE q == call[r][a].request
             db == stores[FlowOf(a)]
  <2>1. /\ program' = program /\ finished' = finished
        /\ held' = IF o.reply.kind = "granted" /\ Alive(r, a)
                   THEN [held EXCEPT ![r][a] = now + q.lease_timeout] ELSE held
        /\ o \in AnyOutcome(r, a)
    BY <1>3 DEF Effect
  <2>2. db \in StoresRecord /\ now \in Nat /\ q \in Request
    BY <1>3, ActivityIs, RequestIs DEF WorkflowsInv, StateInv, Pending
  <2>m. FlowOf(a) \in Flow
    BY ActivityIs DEF WorkflowsInv, StateInv
  <2>n. MayDo(db, q, now, o)
    BY <2>1, <2>m, AnyOutcomeIs
  <2>3. o.reply.kind = "granted" => q \in TaskRequest
    BY <2>2, <2>n, RpcValue
  <2>4. o.reply.kind = "granted" => now + q.lease_timeout \in Nat
    BY <2>2, <2>3 DEF TaskRequest
  <2> HIDE DEF q
  <2>5. CASE held' = held
    BY <1>1, <2>1, <2>5
  <2>6. CASE /\ held' = [held EXCEPT ![r][a] = now + q.lease_timeout]
             /\ now + q.lease_timeout \in Nat
    <3> DEFINE n == now + q.lease_timeout
    <3>1. held' = [held EXCEPT ![r][a] = n] /\ n \in Nat
      BY <2>6
    <3> HIDE DEF n
    <3>2. held' \in [Run -> [Task -> Nat]]
      BY <3>1 DEF HistoryInv
    <3> QED
      BY <2>1, <3>2, SameProgram DEF HistoryInv
  <2> QED
    BY <2>1, <2>4, <2>5, <2>6
<1>4. CASE \E r \in Run : Begin(r) \/ Crash(r)
  BY <1>1, <1>4 DEF Begin, OpenFlow, Crash, ServerUnchanged
<1>5. CASE \E r \in Run, w \in Flow : FlowStep(r, w)
  BY <1>1, <1>5 DEF FlowStep, FlowStarted, NextStep, FlowEnds, FlowCompleted,
                    ServerUnchanged, history
<1>6. CASE \E r \in Run, t \in Task : TaskStep(r, t)
  <2>1. PICK r \in Run, t \in Task : TaskStep(r, t)
    BY <1>6
  <2>2. CASE BeginInner(r, t) \/ GenerateKey(r, t) \/ KeyAnswered(r, t)
             \/ LeaseCall(r, t) \/ TaskThrows(r, t) \/ SaveCall(r, t)
    BY <1>1, <2>2 DEF BeginInner, OpenFlow, GenerateKey, KeyAnswered, LeaseCall,
       TaskThrows, SaveCall, Calls, ServerUnchanged, history
  <2>3. CASE LeaseAnswered(r, t) \/ TaskReturns(r, t) \/ Released(r, t)
             \/ SaveAnswered(r, t) \/ SaveExpires(r, t)
             \/ DeserializeThrows(r, t) \/ TaskThrowsUncaught(r, t)
    <3>1. /\ program' = program
          /\ held' = held \/ held' = [held EXCEPT ![r][t] = 0]
          /\ \/ finished' = finished
             \/ finished' = [finished EXCEPT ![t] = @ + 1]
      BY <2>3 DEF LeaseAnswered, TaskReturns, Released, SaveAnswered,
         SaveExpires, DeserializeThrows, TaskThrowsUncaught, Return, Throw,
         ServerUnchanged
    <3> QED
      BY <1>2, <3>1
  <2> QED
    BY <2>1, <2>2, <2>3 DEF TaskStep
<1>7. CASE \E r \in Run, a \in Activity : Handle(r, a) \/ Break(r, a)
  <2>1. PICK r \in Run, a \in Activity : Handle(r, a) \/ Break(r, a)
    BY <1>7
  <2>2. Pending(r, a)
    BY <2>1 DEF Handle, Break
  <2>3. (\E o : Effect(r, a, o)) \/ UNCHANGED <<program, held, finished>>
    BY <2>1 DEF Handle, Break
  <2> QED
    BY <1>1, <1>3, <2>2, <2>3
<1>8. CASE Restart
  BY <1>8, SameProgram DEF Restart, HistoryInv
<1>9. CASE \/ \E w \in Flow, p \in Position : Evict(w, p)
           \/ CleanupStart \/ CleanupWorkflows \/ CleanupFails \/ Tick
           \/ \E table \in {"tokens", "checkpoints"} : CleanupRows(table)
           \/ UNCHANGED vars
  BY <1>1, <1>9 DEF Evict, CleanupStart, CleanupWorkflows, CleanupFails, Tick,
                    CleanupRows, vars, history
<1>10. CASE \E r \in Run, t \in Task : HandlerHalts(r, t)
  BY <1>1, <1>10, HaltsKeep DEF history
<1> QED
  BY <1>4, <1>5, <1>6, <1>7, <1>8, <1>9, <1>10 DEF Next

LEMMA HistoryHolds == Spec => []HistoryInv
<1> QED
  BY TypesHold, HistoryStart, HistoryKept, PTL DEF Spec

\* An execute, and a workflow function, that is under way.
Busy == {"ready", "keying", "leasing", "running", "releasing", "saving",
         "checkpointing"}
Open == {"starting", "going", "completing", "recovering"}

\* Who starts a workflow function.
Summons(r, w) ==
  \/ /\ w = "outer"
     /\ \/ r = 1 \/ program.runs = "overlap"
        \/ program.runs = "retry" /\ r > 1 /\ Ended(r - 1)
  \/ \E t \in Task : /\ exec[r][t].pc = "running" /\ HasInner(t)
                     /\ program.inner[t] = w

Enters(r, t) ==
  /\ exec[r][t].pc = "off" /\ exec'[r][t].pc = "ready"
  /\ exec'[r][t].key = exec[r][t].key
  /\ exec'[r][t].expiry = exec[r][t].expiry

StepMove(r, w) ==
  /\ UNCHANGED <<program, stores, job, call, now, history>>
  /\ flow[r][w].pc = "going" /\ StepDone(r, w)
  /\ \A s \in Run, v \in Flow :
       /\ flow'[s][v].pc = flow[s][v].pc
       /\ flow'[s][v].fencing_token = flow[s][v].fencing_token
  /\ \A s \in Run, t \in Task :
       \/ exec'[s][t] = exec[s][t]
       \/ s = r /\ FlowOf(t) = w /\ Enters(s, t)

CrashMove(r) ==
  /\ \E w \in Flow : flow[r][w].pc \in Open
  /\ UNCHANGED <<program, stores, job, now, kept, finished, due, held>>
  /\ disturbed' = TRUE
  /\ \A w \in Flow : flow'[r][w].pc = "crashed"
  /\ \A t \in Task : exec'[r][t].pc = "crashed"
  /\ \A s \in Run \ {r} : flow'[s] = flow[s] /\ exec'[s] = exec[s]
  /\ \A s \in Run, a \in Activity :
       call'[s][a] = call[s][a] \/ (s = r /\ call'[s][a] = None)

LEMMA StepMoved ==
  ASSUME WorkflowsInv, NEW r \in Run, NEW w \in Flow, NextStep(r, w)
  PROVE  StepMove(r, w)
<1> DEFINE i == flow[r][w].step + 1
           tasks == program.steps[w][i]
<1>1. /\ program \in Explored
      /\ flow \in [Run -> [Flow -> FlowRecord]] /\ flow[r][w] \in FlowRecord
      /\ exec \in [Run -> [Task -> ExecRecord]]
  BY DEF WorkflowsInv, StateInv
<1>2. i \in DOMAIN program.steps[w] /\ i \in Nat \ {0}
  BY <1>1, StepsAre DEF NextStep, FlowRecord
<1>3. tasks \subseteq TasksOf(w) /\ tasks \subseteq Task
  BY <1>1, <1>2, StepIs
<1>4. /\ UNCHANGED <<program, stores, job, call, now, history>>
      /\ flow[r][w].pc = "going" /\ StepDone(r, w) /\ Enter(r, w, i)
  BY DEF NextStep, ServerUnchanged
<1>5. \A t \in tasks : exec[r][t].pc = "off"
  <2>1. i > flow[r][w].step
    BY <1>1 DEF FlowRecord
  <2> QED
    BY <1>2, <1>4, <2>1 DEF WorkflowsInv, StepsInv
<1> HIDE DEF i, tasks
<1>6. \A s \in Run, v \in Flow :
        /\ flow'[s][v].pc = flow[s][v].pc
        /\ flow'[s][v].fencing_token = flow[s][v].fencing_token
  <2> DEFINE f == [flow[r][w] EXCEPT !.step = i]
  <2>1. /\ f.pc = flow[r][w].pc
        /\ f.fencing_token = flow[r][w].fencing_token
    BY <1>1, <1>2 DEF FlowRecord
  <2>2. flow' = [flow EXCEPT ![r][w] = f]
    BY <1>1, <1>4 DEF Enter
  <2> HIDE DEF f
  <2> QED
    BY <1>1, <2>1, <2>2
<1>7. \A s \in Run, t \in Task :
        \/ exec'[s][t] = exec[s][t]
        \/ s = r /\ t \in tasks /\ Enters(s, t)
  <2> DEFINE x == [t \in Task |-> IF t \in tasks
                                  THEN [exec[r][t] EXCEPT !.pc = "ready"]
                                  ELSE exec[r][t]]
  <2>1. \A e \in ExecRecord : /\ [e EXCEPT !.pc = "ready"].key = e.key
                              /\ [e EXCEPT !.pc = "ready"].expiry = e.expiry
                              /\ [e EXCEPT !.pc = "ready"].pc = "ready"
    BY DEF ExecRecord
  <2>2. /\ \A t \in Task : t \in tasks => /\ x[t].pc = "ready"
                                          /\ x[t].key = exec[r][t].key
                                          /\ x[t].expiry = exec[r][t].expiry
        /\ \A t \in Task : t \notin tasks => x[t] = exec[r][t]
    <3>1. \A t \in Task : exec[r][t] \in ExecRecord
      BY <1>1
    <3>2. \A t \in Task :
            /\ [exec[r][t] EXCEPT !.pc = "ready"].key = exec[r][t].key
            /\ [exec[r][t] EXCEPT !.pc = "ready"].expiry = exec[r][t].expiry
            /\ [exec[r][t] EXCEPT !.pc = "ready"].pc = "ready"
      BY <2>1, <3>1
    <3> QED
      BY <3>2
  <2>3. exec' = [exec EXCEPT ![r] = x]
    BY <1>1, <1>4 DEF Enter, tasks
  <2> HIDE DEF x
  <2> QED
    BY <1>1, <1>5, <2>2, <2>3 DEF Enters
<1>8. \A t \in tasks : FlowOf(t) = w
  BY <1>1, <1>3, TaskIs
<1> QED
  BY <1>4, <1>6, <1>7, <1>8 DEF StepMove

LEMMA CrashMoved ==
  ASSUME WorkflowsInv, NEW r \in Run, Crash(r)
  PROVE  CrashMove(r)
<1>1. /\ flow \in [Run -> [Flow -> FlowRecord]]
      /\ exec \in [Run -> [Task -> ExecRecord]]
      /\ call = [s \in Run |-> [a \in Activity |-> call[s][a]]]
  BY DEF WorkflowsInv, StateInv, CallsInv
<1>2. /\ UNCHANGED <<program, stores, job, now, kept, finished, due, held>>
      /\ disturbed' = TRUE
  BY DEF Crash, ServerUnchanged, Fault
<1>3. /\ \A w \in Flow : flow'[r][w].pc = "crashed"
      /\ \A s \in Run \ {r} : flow'[s] = flow[s]
  <2> DEFINE x == [w \in Flow |-> [flow[r][w] EXCEPT !.pc = "crashed"]]
  <2>1. \A f \in FlowRecord : [f EXCEPT !.pc = "crashed"].pc = "crashed"
    BY DEF FlowRecord
  <2>2. \A w \in Flow : flow[r][w] \in FlowRecord
    BY <1>1
  <2>3. \A w \in Flow : [flow[r][w] EXCEPT !.pc = "crashed"].pc = "crashed"
    BY <2>1, <2>2
  <2>4. \A w \in Flow : x[w].pc = "crashed"
    BY <2>3
  <2>5. flow' = [flow EXCEPT ![r] = x]
    BY <1>1 DEF Crash
  <2> HIDE DEF x
  <2> QED
    BY <1>1, <2>4, <2>5
<1>4. /\ \A t \in Task : exec'[r][t].pc = "crashed"
      /\ \A s \in Run \ {r} : exec'[s] = exec[s]
  <2> DEFINE x == [t \in Task |-> [exec[r][t] EXCEPT !.pc = "crashed"]]
  <2>1. \A e \in ExecRecord : [e EXCEPT !.pc = "crashed"].pc = "crashed"
    BY DEF ExecRecord
  <2>2. \A t \in Task : exec[r][t] \in ExecRecord
    BY <1>1
  <2>3. \A t \in Task : [exec[r][t] EXCEPT !.pc = "crashed"].pc = "crashed"
    BY <2>1, <2>2
  <2>4. \A t \in Task : x[t].pc = "crashed"
    BY <2>3
  <2>5. exec' = [exec EXCEPT ![r] = x]
    BY <1>1 DEF Crash
  <2> HIDE DEF x
  <2> QED
    BY <1>1, <2>4, <2>5
<1>5. \A s \in Run, a \in Activity :
        call'[s][a] = call[s][a] \/ (s = r /\ call'[s][a] = None)
  <2> DEFINE x == [a \in Activity |-> IF Pending(r, a) THEN call[r][a] ELSE None]
  <2>1. call' = [call EXCEPT ![r] = x]
    BY <1>1 DEF Crash
  <2>2. \A a \in Activity : x[a] \in {call[r][a], None}
    OBVIOUS
  <2> HIDE DEF x
  <2> QED
    BY <1>1, <2>1, <2>2
<1>6. \E w \in Flow : flow[r][w].pc \in Open
  <2>1. PICK w \in Flow : flow[r][w].pc \notin {"off"} \cup Over
    BY DEF Crash
  <2>2. flow[r][w].pc \in FlowPoint
    BY <1>1 DEF FlowRecord
  <2> QED
    BY <2>1, <2>2 DEF FlowPoint, Open, Over
<1> QED
  BY <1>2, <1>3, <1>4, <1>5, <1>6 DEF CrashMove
-----------------------------------------------------------------------------
(* What the server does for a call.                                        *)

Untouched(t) == RowOf(t)' = RowOf(t) /\ EntryOf(t)' = EntryOf(t)
Left(t) == RemainingLease(EntryOf(t), now)
TokenOf(t) == stores[FlowOf(t)].fencingToken

\* Only the place of the task is written, the token is read.
TaskServed(r, t, reply) ==
  LET q == call[r][t].request
  IN  /\ \A u \in Task : u # t => Untouched(u)
      /\ \A v \in Flow :
           /\ stores'[v].fencingToken = stores[v].fencingToken
           /\ stores'[v].workflow = stores[v].workflow
      /\ \/ /\ q.rpc = "key" /\ EntryOf(t)' = EntryOf(t)
            /\ RowOf(t) # None => RowOf(t)' = RowOf(t)
            /\ \/ reply.kind = "error" /\ RowOf(t)' = RowOf(t)
               \/ reply.kind = "key" /\ RowOf(t)' # None
         \/ /\ q.rpc = "lease" /\ reply.kind = "granted"
            /\ RowOf(t) = None /\ RowOf(t)' = None
            /\ EntryOf(t) = None \/ Left(t) <= 0
            /\ EntryOf(t)' # None /\ EntryOf(t)'.created_at = now
            /\ EntryOf(t)'.lease_timeout = q.lease_timeout
         \/ /\ q.rpc = "lease" /\ reply.kind \in {"value", "wait", "error"}
            /\ Untouched(t)
            /\ reply.kind = "error" =>
                 \/ /\ RowOf(t) # None
                    /\ \/ RowOf(t).idempotency_key # q.idempotency_key
                       \/ RowOf(t).value = None
                 \/ TokenOf(t) = None \/ TokenOf(t) # q.fencing_token
         \/ /\ q.rpc = "checkpoint" /\ EntryOf(t)' = None
            /\ \/ /\ reply \in Saved /\ RowOf(t)' # None
                  /\ reply.abort <=> TokenOf(t) > q.fencing_token
                  /\ RowOf(t)' = RowOf(t) \/ RowOf(t)'.value = t
               \/ /\ reply.kind = "error" /\ RowOf(t)' = RowOf(t)
                  /\ TokenOf(t) = None \/ (EntryOf(t) # None /\ Left(t) <= 0)
         \/ /\ q.rpc = "release" /\ reply.kind = "released"
            /\ RowOf(t)' = RowOf(t) /\ EntryOf(t)' = None

\* Only the token or the row of the workflow is written.
FlowServed(r, w, reply) ==
  LET q == call[r][w].request
  IN  /\ \A t \in Task : Untouched(t)
      /\ \A v \in Flow : v # w => stores'[v] = stores[v]
      /\ \/ /\ q.rpc = "start" /\ reply.kind = "token"
            /\ stores'[w].fencingToken # None
            /\ reply.fencing_token = stores'[w].fencingToken
            /\ stores'[w].workflow \in
                 {InsertWorkflow(stores[w].workflow), stores[w].workflow}
         \/ /\ q.rpc = "complete"
            /\ stores'[w].fencingToken = stores[w].fencingToken
            /\ \/ reply.kind = "completed"
               \/ /\ reply.kind = "error"
                  /\ \/ stores[w].fencingToken = None
                     \/ stores[w].fencingToken < q.fencing_token

Served(r, a, reply) ==
  /\ a \in Flow => FlowServed(r, a, reply)
  /\ a \in Task => TaskServed(r, a, reply)
  /\ \A s \in Run, t \in Task :
       held'[s][t] = IF s = r /\ t = a /\ reply.kind = "granted" /\ Alive(r, a)
                     THEN now + call[r][a].request.lease_timeout
                     ELSE held[s][t]

NotServed ==
  /\ UNCHANGED <<stores, held>>
  /\ \A t \in Task : Untouched(t)

Told(r, a, reply) ==
  /\ \A s \in Run, b \in Activity :
       <<s, b>> # <<r, a>> => call'[s][b] = call[s][b]
  /\ ~Alive(r, a) => call'[r][a] = None
  /\ Alive(r, a) => call'[r][a] = [request |-> call[r][a].request,
                                   answer |-> reply]

ServerMove(r, a) ==
  /\ UNCHANGED <<program, job, flow, exec, now, finished>>
  /\ Pending(r, a)
  /\ \/ \E reply : /\ Served(r, a, reply) /\ Told(r, a, reply)
                   /\ disturbed' = disturbed \/ disturbed' = TRUE
     \/ /\ disturbed' = TRUE /\ Alive(r, a)
        /\ NotServed \/ \E reply : Served(r, a, reply)
        /\ Told(r, a, Unavailable)

\* What a call does, in the stores of the workflow it is about.
LEMMA EffectDoes ==
  ASSUME WorkflowsInv, StageInv, ~crossed, NEW r \in Run, NEW a \in Activity, NEW o,
         Pending(r, a), Effect(r, a, o)
  PROVE  LET q == call[r][a].request
             db == stores[FlowOf(a)]
         IN  /\ stores'[FlowOf(a)] = o.stores
             /\ \A v \in Flow : v # FlowOf(a) => stores'[v] = stores[v]
             /\ \/ q \in FlowRequest /\ q.rpc = "start" /\ StartDoes(db, o)
                \/ q \in FlowRequest /\ q.rpc = "complete" /\ CompleteDoes(db, q, o)
                \/ q \in TaskRequest /\ q.rpc = "lease" /\ LeaseDoes(db, q, now, o)
                \/ /\ q \in TaskRequest /\ q.rpc = "checkpoint"
                   /\ CheckpointDoes(db, q, now, o)
                \/ q \in TaskRequest /\ q.rpc = "release" /\ ReleaseDoes(db, q, o)
                \/ q \in TaskRequest /\ q.rpc = "key" /\ KeyDoes(db, q, o)
<1> DEFINE w == FlowOf(a)
           q == call[r][a].request
           db == stores[w]
<1>1. w \in Flow
  BY ActivityIs DEF WorkflowsInv, StateInv
<1>2. db \in StoresRecord /\ now \in Nat /\ stores \in [Flow -> StoresRecord]
  BY <1>1 DEF WorkflowsInv, StateInv
<1>3. q \in Request
  BY RequestIs DEF Pending
<1>4. /\ o \in Outcomes(db, q, now, Uuid)
      /\ stores' = [stores EXCEPT ![w] = o.stores]
  BY <1>1, AnyOutcomeIs DEF Effect
<1>5. /\ stores'[w] = o.stores
      /\ \A v \in Flow : v # w => stores'[v] = stores[v]
  BY <1>1, <1>2, <1>4
<1> HIDE DEF w, q, db
<1>6. \/ q \in FlowRequest /\ q.rpc = "start" /\ StartDoes(db, o)
      \/ q \in FlowRequest /\ q.rpc = "complete" /\ CompleteDoes(db, q, o)
      \/ q \in TaskRequest /\ q.rpc = "lease" /\ LeaseDoes(db, q, now, o)
      \/ q \in TaskRequest /\ q.rpc = "checkpoint" /\ CheckpointDoes(db, q, now, o)
      \/ q \in TaskRequest /\ q.rpc = "release" /\ ReleaseDoes(db, q, o)
      \/ q \in TaskRequest /\ q.rpc = "key" /\ KeyDoes(db, q, o)
  <2>1. CASE q \in FlowRequest /\ q.rpc = "start" /\ o \in StartRpc(db)
    BY <1>2, <2>1, StartRefused
  <2>2. CASE q \in FlowRequest /\ q.rpc = "complete" /\ o \in CompleteRpc(db, q, now)
    BY <1>2, <2>2, CompleteRefused
  <2>3. CASE q \in TaskRequest /\ q.rpc = "lease" /\ o \in LeaseRpc(db, q, now)
    BY <1>2, <2>3, LeaseRefused
  <2>4. CASE q \in TaskRequest /\ q.rpc = "checkpoint" /\ o \in CheckpointRpc(db, q, now)
    BY <1>2, <2>4, CheckpointRefused
  <2>5. CASE q \in TaskRequest /\ q.rpc = "release" /\ o \in ReleaseRpc(db, q)
    BY <1>2, <2>5, ReleaseFrees
  <2>6. CASE q \in TaskRequest /\ q.rpc = "key" /\ o \in KeyRpc(db, q, Uuid)
    BY <1>2, <2>6, KeyRefused
  <2> QED
    BY <1>3, <1>4, <2>1, <2>2, <2>3, <2>4, <2>5, <2>6, OutcomesAre
<1> QED
  BY <1>5, <1>6 DEF w, q, db

\* Which requests workflow functions and executes send.
LEMMA RequestsAre ==
  ASSUME WorkflowsInv, NEW r \in Run
  PROVE  /\ \A w \in Flow : call[r][w] # None =>
              /\ call[r][w].request \in FlowRequest
              /\ call[r][w].request.rpc \in {"start", "complete"}
         /\ \A t \in Task : call[r][t] # None =>
              /\ call[r][t].request \in TaskRequest
              /\ call[r][t].request.value = t
              /\ call[r][t].request.rpc \in {"key", "lease", "checkpoint", "release"}
BY DEF WorkflowsInv, CallsInv, FlowCallOK, TaskCallOK, FlowRequest, TaskRequest

LEMMA HeldServed ==
  ASSUME WorkflowsInv, HistoryInv, NEW r \in Run, NEW a \in Activity, NEW o,
         Pending(r, a), Effect(r, a, o)
  PROVE  \A s \in Run, t \in Task :
           held'[s][t] =
             IF s = r /\ t = a /\ o.reply.kind = "granted" /\ Alive(r, a)
             THEN now + call[r][a].request.lease_timeout
             ELSE held[s][t]
<1> DEFINE n == now + call[r][a].request.lease_timeout
<1>1. held' = IF o.reply.kind = "granted" /\ Alive(r, a)
              THEN [held EXCEPT ![r][a] = n] ELSE held
  BY DEF Effect
<1> HIDE DEF n
<1>2. \A s \in Run, t \in Task :
        held'[s][t] =
          IF s = r /\ t = a /\ o.reply.kind = "granted" /\ Alive(r, a)
          THEN n ELSE held[s][t]
  BY <1>1 DEF HistoryInv
<1> QED
  BY <1>2 DEF n

LEMMA FlowIsServed ==
  ASSUME WorkflowsInv, StageInv, OwnInv, InTurn, ~crossed, NEW r \in Run,
         NEW w \in Flow, NEW o,
         Pending(r, w), Effect(r, w, o)
  PROVE  FlowServed(r, w, o.reply)
<1> DEFINE q == call[r][w].request
           db == stores[w]
<1>1. program' = program /\ program \in Explored /\ w \in Activity
  BY DEF Effect, WorkflowsInv, StateInv, Activity
<1>2. FlowOf(w) = w
  BY <1>1, FlowIs
<1>3. q.rpc \in {"start", "complete"}
  BY RequestsAre DEF Pending
<1>4. /\ stores'[w] = o.stores
      /\ \A v \in Flow : v # w => stores'[v] = stores[v]
      /\ \/ q.rpc = "start" /\ StartDoes(db, o)
         \/ q.rpc = "complete" /\ CompleteDoes(db, q, o)
  BY <1>1, <1>2, <1>3, EffectDoes
<1>5. /\ stores'[w].checkpoints = stores[w].checkpoints
      /\ stores'[w].leases = stores[w].leases
  BY <1>4 DEF StartDoes, CompleteDoes, SameLeases, SameRows
<1>6. ASSUME NEW t \in Task
      PROVE  Untouched(t)
  <2>1. FlowOf(t) \in Flow
    BY <1>1, TaskIs
  <2>2. FlowOf(t)' = FlowOf(t) /\ Place(t)' = Place(t)
    BY <1>1, PlacesStay
  <2>3. /\ stores'[FlowOf(t)].checkpoints = stores[FlowOf(t)].checkpoints
        /\ stores'[FlowOf(t)].leases = stores[FlowOf(t)].leases
    BY <1>4, <1>5, <2>1
  <2> QED
    BY <2>2, <2>3 DEF Untouched, RowOf, EntryOf
<1> QED
  BY <1>4, <1>6 DEF FlowServed, StartDoes, CompleteDoes, SameToken

LEMMA TaskIsServed ==
  ASSUME WorkflowsInv, StageInv, OwnInv, InTurn, ~crossed, NEW r \in Run,
         NEW t \in Task, NEW o,
         Pending(r, t), Effect(r, t, o)
  PROVE  TaskServed(r, t, o.reply)
<1> DEFINE q == call[r][t].request
           w == FlowOf(t)
           db == stores[w]
<1>1. /\ program' = program /\ program \in Explored /\ t \in Activity
      /\ w \in Flow
  BY TaskIs DEF Effect, WorkflowsInv, StateInv, Activity
<1>2. /\ q.rpc \in {"key", "lease", "checkpoint", "release"} /\ q.value = t
  BY RequestsAre DEF Pending
<1>3. q.position = Place(t) /\ Place(t) \in Position
  BY <1>1, AsksForPlace, PlaceIs DEF Pending
<1>4. /\ stores'[w] = o.stores
      /\ \A v \in Flow : v # w => stores'[v] = stores[v]
      /\ \/ q.rpc = "lease" /\ LeaseDoes(db, q, now, o)
         \/ q.rpc = "checkpoint" /\ CheckpointDoes(db, q, now, o)
         \/ q.rpc = "release" /\ ReleaseDoes(db, q, o)
         \/ q.rpc = "key" /\ KeyDoes(db, q, o)
  BY <1>1, <1>2, EffectDoes
<1>5. /\ SameToken(db, o) /\ OtherLeases(db, q, o) /\ OtherRows(db, q, o)
      /\ o.stores.workflow = db.workflow
  BY <1>4 DEF LeaseDoes, CheckpointDoes, ReleaseDoes, KeyDoes, SameLeases,
              SameRows, OtherLeases, OtherRows
<1>6. /\ RowOf(t) = db.checkpoints[q.position]
      /\ EntryOf(t) = db.leases[q.position]
      /\ Left(t) = LeftAt(db, q, now)
      /\ RowOf(t)' = o.stores.checkpoints[q.position]
      /\ EntryOf(t)' = o.stores.leases[q.position]
      /\ TokenOf(t) = db.fencingToken
  <2>1. FlowOf(t)' = FlowOf(t) /\ Place(t)' = Place(t)
    BY <1>1, PlacesStay
  <2> QED
    BY <1>3, <1>4, <2>1 DEF RowOf, EntryOf, Left, LeftAt, TokenOf
<1>7. ASSUME NEW u \in Task, u # t
      PROVE  Untouched(u)
  <2>1. /\ FlowOf(u) \in Flow /\ Place(u) \in Position
        /\ FlowOf(u) = w => Place(u) # Place(t)
    BY <1>1, <1>7, TaskIs, PlaceIs
  <2>2. FlowOf(u)' = FlowOf(u) /\ Place(u)' = Place(u)
    BY <1>1, PlacesStay
  <2>3. /\ stores'[FlowOf(u)].checkpoints[Place(u)] =
             stores[FlowOf(u)].checkpoints[Place(u)]
        /\ stores'[FlowOf(u)].leases[Place(u)] =
             stores[FlowOf(u)].leases[Place(u)]
    BY <1>3, <1>4, <1>5, <2>1 DEF OtherLeases, OtherRows
  <2> QED
    BY <2>2, <2>3 DEF Untouched, RowOf, EntryOf
<1>8. ASSUME NEW v \in Flow
      PROVE  /\ stores'[v].fencingToken = stores[v].fencingToken
             /\ stores'[v].workflow = stores[v].workflow
  BY <1>4, <1>5 DEF SameToken
<1> HIDE DEF q, db, w
<1>9. CASE q.rpc = "lease" /\ LeaseDoes(db, q, now, o)
  BY <1>6, <1>7, <1>8, <1>9 DEF TaskServed, LeaseDoes, SameRows, SameLeases,
     Untouched, q
<1>10. CASE q.rpc = "checkpoint" /\ CheckpointDoes(db, q, now, o)
  BY <1>2, <1>6, <1>7, <1>8, <1>10 DEF TaskServed, CheckpointDoes, SameRows, q
<1>11. CASE q.rpc = "release" /\ ReleaseDoes(db, q, o)
  BY <1>6, <1>7, <1>8, <1>11 DEF TaskServed, ReleaseDoes, SameRows, q
<1>12. CASE q.rpc = "key" /\ KeyDoes(db, q, o)
  BY <1>6, <1>7, <1>8, <1>12 DEF TaskServed, KeyDoes, SameRows, SameLeases, q
<1> QED
  BY <1>4, <1>9, <1>10, <1>11, <1>12

LEMMA IsServed ==
  ASSUME WorkflowsInv, StageInv, OwnInv, HistoryInv, InTurn, ~crossed,
         NEW r \in Run, NEW a \in Activity, NEW o, Pending(r, a), Effect(r, a, o)
  PROVE  /\ UNCHANGED <<program, job, flow, exec, now, finished>>
         /\ Served(r, a, o.reply)
<1>1. UNCHANGED <<program, job, flow, exec, now, finished>>
  BY DEF Effect
<1> QED
  BY <1>1, HeldServed, FlowIsServed, TaskIsServed DEF Served

LEMMA IsTold ==
  ASSUME WorkflowsInv, NEW r \in Run, NEW a \in Activity, NEW reply,
         Tell(r, a, reply)
  PROVE  Told(r, a, reply)
BY TellIs DEF Told

LEMMA ServerMoved ==
  ASSUME WorkflowsInv, StageInv, OwnInv, HistoryInv, InTurn, ~crossed,
         NEW r \in Run, NEW a \in Activity, Handle(r, a) \/ Break(r, a)
  PROVE  ServerMove(r, a)
<1>1. Pending(r, a)
  BY DEF Handle, Break
<1>2. CASE Handle(r, a)
  <2>1. PICK o : /\ Effect(r, a, o) /\ Tell(r, a, o.reply)
                 /\ disturbed' = disturbed \/ disturbed' = TRUE
    BY <1>2 DEF Handle, Fault, NoFault
  <2> QED
    BY <1>1, <2>1, IsServed, IsTold DEF ServerMove
<1>3. CASE Break(r, a)
  <2>1. Alive(r, a) /\ disturbed' = TRUE /\ Tell(r, a, Unavailable)
    BY <1>3 DEF Break, Fault
  <2>2. CASE \E o : Effect(r, a, o)
    BY <1>1, <2>1, <2>2, IsServed, IsTold DEF ServerMove
  <2>3. CASE UNCHANGED <<program, stores, job, flow, exec, now, kept, finished,
                         due, held, crossed>>
    <3>1. \A t \in Task : Untouched(t)
      BY <2>3, PlacesStay DEF Untouched, RowOf, EntryOf
    <3> QED
      BY <1>1, <2>1, <2>3, <3>1, IsTold DEF ServerMove, NotServed
  <2> QED
    BY <1>3, <2>2, <2>3 DEF Break
<1> QED
  BY <1>2, <1>3

\* An entry leaves the cache, when it may; everyone is gone with the leases.
EvictMove ==
  /\ UNCHANGED <<program, job, flow, exec, call, now, history>>
  /\ \A w \in Flow :
       /\ stores'[w].fencingToken = stores[w].fencingToken
       /\ stores'[w].workflow = stores[w].workflow
  /\ \A t \in Task :
       /\ RowOf(t)' = RowOf(t)
       /\ \/ EntryOf(t)' = EntryOf(t)
          \/ EntryOf(t) # None /\ Evictable(EntryOf(t), now)

RestartMove ==
  /\ UNCHANGED <<program, flow, exec, now, finished>>
  /\ disturbed' = TRUE
  /\ \A w \in Flow :
       /\ stores'[w].fencingToken = stores[w].fencingToken
       /\ stores'[w].workflow = stores[w].workflow
  /\ \A s \in Run, t \in Task : held'[s][t] = 0
  /\ \A s \in Run, a \in Activity :
       \/ call'[s][a] = call[s][a] \/ call'[s][a] = None
       \/ call'[s][a].answer = Unavailable

TickMove ==
  /\ UNCHANGED <<program, stores, job, flow, exec, call, finished, held>>
  /\ now' = now + 1
  /\ disturbed' = (disturbed \/ \E r \in Run, t \in Task :
                      Holds(r, t) /\ held[r][t] - now' < Second)

\* The cleanup job removes things only of workflows that are completed; what
\* it removes before the workflow itself disturbs the program.
JobMove ==
  /\ UNCHANGED <<program, flow, exec, call, now, finished, held>>
  /\ \A w \in Flow :
       \/ stores'[w] = stores[w]
       \/ stores[w].workflow # None /\ stores[w].workflow.status = Completed
  /\ \/ disturbed' = TRUE
     \/ /\ job = None /\ stores' = stores /\ disturbed' = disturbed
        /\ job'.todo = {"tokens", "checkpoints"}
     \/ job # None /\ job.todo = {} /\ disturbed' = disturbed

LEMMA EvictMoved ==
  ASSUME WorkflowsInv, InTurn, NEW w \in Flow, NEW p \in Position, Evict(w, p)
  PROVE  EvictMove
<1> DEFINE db == stores[w]
           entries == [db.leases EXCEPT ![p] = None]
           new == [db EXCEPT !.leases = entries]
<1>1. /\ UNCHANGED <<program, job, flow, exec, call, now, history>>
      /\ db.leases[p] # None /\ Evictable(db.leases[p], now)
      /\ stores' = [stores EXCEPT ![w].leases[p] = None]
  BY DEF Evict
<1>2. stores \in [Flow -> StoresRecord] /\ db \in StoresRecord
  BY DEF WorkflowsInv, StateInv
<1>3. stores' = [stores EXCEPT ![w] = new]
  BY <1>1, <1>2 DEF StoresRecord
<1>4. /\ entries[p] = None
      /\ \A x \in Position \ {p} : entries[x] = db.leases[x]
  BY <1>2, StoresFields
<1> HIDE DEF entries
<1>5. /\ new.fencingToken = db.fencingToken /\ new.leases = entries
      /\ new.checkpoints = db.checkpoints /\ new.workflow = db.workflow
  BY <1>2, FieldKept
<1> HIDE DEF new
<1>6. /\ stores'[w] = new
      /\ \A v \in Flow : v # w => stores'[v] = stores[v]
  BY <1>2, <1>3
<1>7. \A v \in Flow : /\ stores'[v].fencingToken = stores[v].fencingToken
                      /\ stores'[v].workflow = stores[v].workflow
                      /\ stores'[v].checkpoints = stores[v].checkpoints
  BY <1>5, <1>6
<1>8. ASSUME NEW t \in Task
      PROVE  /\ RowOf(t)' = RowOf(t)
             /\ \/ EntryOf(t)' = EntryOf(t)
                \/ EntryOf(t) # None /\ Evictable(EntryOf(t), now)
  <2>1. /\ FlowOf(t)' = FlowOf(t) /\ Place(t)' = Place(t)
        /\ FlowOf(t) \in Flow /\ Place(t) \in Position
    BY <1>1, PlacesStay, TaskIs, PlaceIs DEF WorkflowsInv, StateInv
  <2>2. RowOf(t)' = RowOf(t)
    BY <1>7, <2>1 DEF RowOf
  <2>3. CASE FlowOf(t) = w /\ Place(t) = p
    BY <1>1, <2>2, <2>3 DEF EntryOf
  <2>4. CASE FlowOf(t) = w /\ Place(t) # p
    <3>1. EntryOf(t)' = EntryOf(t)
      BY <1>4, <1>5, <1>6, <2>1, <2>4 DEF EntryOf
    <3> QED
      BY <2>2, <3>1
  <2>5. CASE FlowOf(t) # w
    <3>1. EntryOf(t)' = EntryOf(t)
      BY <1>6, <2>1, <2>5 DEF EntryOf
    <3> QED
      BY <2>2, <3>1
  <2> QED
    BY <2>3, <2>4, <2>5
<1> QED
  BY <1>1, <1>7, <1>8 DEF EvictMove

LEMMA RestartMoved ==
  ASSUME WorkflowsInv, Restart
  PROVE  RestartMove
<1>1. /\ UNCHANGED <<program, flow, exec, now, finished>> /\ disturbed' = TRUE
      /\ \A s \in Run, t \in Task : held'[s][t] = 0
  BY DEF Restart, Fault
<1>2. ASSUME NEW w \in Flow
      PROVE  /\ stores'[w].fencingToken = stores[w].fencingToken
             /\ stores'[w].workflow = stores[w].workflow
  <2>1. stores'[w] = [stores[w] EXCEPT !.leases = NewStores.leases]
    BY DEF Restart
  <2>2. stores[w] \in StoresRecord
    BY DEF WorkflowsInv, StateInv
  <2> QED
    BY <2>1, <2>2, FieldKept
<1>3. ASSUME NEW s \in Run, NEW a \in Activity
      PROVE  \/ call'[s][a] = call[s][a] \/ call'[s][a] = None
             \/ call'[s][a].answer = Unavailable
  <2>1. call'[s][a] = IF ~Pending(s, a) THEN call[s][a]
                      ELSE IF ~Alive(s, a) THEN None
                      ELSE [request |-> call[s][a].request,
                            answer |-> Unavailable]
    BY DEF Restart
  <2>2. [request |-> call[s][a].request, answer |-> Unavailable].answer
          = Unavailable
    OBVIOUS
  <2> QED
    BY <2>1, <2>2
<1> QED
  BY <1>1, <1>2, <1>3 DEF RestartMove

LEMMA JobMoved ==
  ASSUME WorkflowsInv, DueInv,
         \/ CleanupStart \/ CleanupWorkflows \/ CleanupFails
         \/ \E table \in {"tokens", "checkpoints"} : CleanupRows(table)
  PROVE  JobMove
<1>1. ASSUME NEW w \in Flow, NEW n, Due(w, n)
      PROVE  stores[w].workflow # None /\ stores[w].workflow.status = Completed
  BY <1>1 DEF Due, Expired
<1>2. CASE CleanupStart
  <2>1. /\ UNCHANGED <<program, stores, flow, exec, call, now, history>>
        /\ job = None
        /\ job' = [timestamp |-> now, todo |-> {"tokens", "checkpoints"}]
    BY <1>2 DEF CleanupStart
  <2> QED
    BY <2>1 DEF JobMove, history
<1>3. CASE CleanupWorkflows
  <2>1. /\ UNCHANGED <<program, flow, exec, call, now, finished, held>>
        /\ job # None /\ job.todo = {} /\ disturbed' = disturbed
    BY <1>3 DEF CleanupWorkflows
  <2>2. \A w \in Flow : stores'[w] = IF Due(w, job.timestamp)
                               THEN [stores[w] EXCEPT !.workflow = None]
                               ELSE stores[w]
    BY <1>3 DEF CleanupWorkflows
  <2> QED
    BY <1>1, <2>1, <2>2 DEF JobMove
<1>4. CASE CleanupFails
  BY <1>4 DEF CleanupFails, Fault, JobMove
<1>5. CASE \E table \in {"tokens", "checkpoints"} : CleanupRows(table)
  <2>1. PICK table \in {"tokens", "checkpoints"} : CleanupRows(table)
    BY <1>5
  <2>2. /\ UNCHANGED <<program, flow, exec, call, now, finished, held>>
        /\ disturbed' = TRUE
    BY <2>1 DEF CleanupRows
  <2>3. \A w \in Flow : stores'[w] = IF Due(w, job.timestamp)
                               THEN Without(stores[w], table) ELSE stores[w]
    BY <2>1 DEF CleanupRows, Delete
  <2> QED
    BY <1>1, <2>2, <2>3 DEF JobMove
<1> QED
  BY <1>2, <1>3, <1>4, <1>5

\* So every step is one of these.
\* No handler has been left in the middle of a call, nor is one left now.
Straight == StageInv /\ ~crossed'

LEMMA StraightSoFar ==
  ASSUME Straight, [Next]_vars
  PROVE  ~crossed
<1>1. CASE UNCHANGED crossed
  BY <1>1 DEF Straight
<1>2. CASE \E r \in Run, t \in Task : HandlerHalts(r, t)
  BY <1>2 DEF HandlerHalts, LeaseFindsNoRow, LeaseMayBePut, SaveFreesLease,
     Halts, Straight
<1>3. CASE \E r \in Run, a \in Activity : Handle(r, a) \/ Break(r, a)
  BY <1>1, <1>3 DEF Handle, Break, Effect
<1>4. CASE \/ \E r \in Run : Begin(r) \/ Crash(r)
           \/ \E r \in Run, w \in Flow : FlowStep(r, w)
  BY <1>1, <1>4 DEF Begin, OpenFlow, Crash, FlowStep, FlowStarted, NextStep,
     FlowEnds, FlowCompleted, ServerUnchanged, pieces
<1>5. CASE \E r \in Run, t \in Task : TaskStep(r, t)
  BY <1>1, <1>5 DEF TaskStep, BeginInner, OpenFlow, GenerateKey, KeyAnswered,
     LeaseCall, LeaseAnswered, DeserializeThrows, TaskReturns, TaskThrows,
     TaskThrowsUncaught, Released, SaveCall, SaveAnswered, SaveExpires, Calls,
     ServerUnchanged, pieces
<1>6. CASE \/ CleanupStart \/ CleanupWorkflows \/ CleanupFails \/ Tick
           \/ Restart
           \/ \E w \in Flow, p \in Position : Evict(w, p)
           \/ \E table \in {"tokens", "checkpoints"} : CleanupRows(table)
           \/ UNCHANGED vars
  BY <1>1, <1>6 DEF CleanupStart, CleanupWorkflows, CleanupFails, Tick, Evict,
     Restart, CleanupRows, vars, pieces
<1> QED
  BY <1>2, <1>3, <1>4, <1>5, <1>6 DEF Next

LEMMA Moves ==
  ASSUME WorkflowsInv, DueInv, OwnInv, HistoryInv, InTurn, Straight,
         [Next]_vars
  PROVE  \/ \E r \in Run, w \in Flow :
              /\ FlowMove(r, w)
              /\ flow[r][w].pc = "off" => Summons(r, w)
         \/ \E r \in Run, w \in Flow : StepMove(r, w)
         \/ \E r \in Run, t \in Task : TaskMove(r, t)
         \/ \E r \in Run : CrashMove(r)
         \/ \E r \in Run, a \in Activity : ServerMove(r, a)
         \/ EvictMove \/ RestartMove \/ TickMove \/ JobMove
         \/ UNCHANGED vars
<1>1. "outer" \in Flow
  BY ProgramIs DEF WorkflowsInv, StateInv
<1>2. ASSUME NEW r \in Run, Begin(r)
      PROVE  FlowMove(r, "outer") /\ Summons(r, "outer")
  BY <1>1, <1>2, FlowMoved DEF Begin, Summons
<1>3. ASSUME NEW r \in Run, NEW w \in Flow, FlowStep(r, w)
      PROVE  \/ FlowMove(r, w) /\ flow[r][w].pc # "off"
             \/ StepMove(r, w)
  <2>1. CASE NextStep(r, w)
    BY <2>1, StepMoved
  <2>2. CASE FlowStarted(r, w) \/ FlowEnds(r, w) \/ FlowCompleted(r, w)
    <3>1. flow[r][w].pc # "off"
      BY <2>2 DEF FlowStarted, FlowEnds, FlowCompleted
    <3> QED
      BY <2>2, <3>1, FlowMoved
  <2> QED
    BY <1>3, <2>1, <2>2 DEF FlowStep
<1>4. ASSUME NEW r \in Run, NEW t \in Task, TaskStep(r, t)
      PROVE  \/ TaskMove(r, t)
             \/ \E w \in Flow : FlowMove(r, w) /\ Summons(r, w)
  <2>1. CASE BeginInner(r, t)
    <3>1. /\ program.inner[t] \in Flow /\ OpenFlow(r, program.inner[t])
          /\ exec[r][t].pc = "running" /\ HasInner(t)
      BY <2>1, ProgramIs DEF BeginInner, WorkflowsInv, StateInv
    <3> QED
      BY <3>1, FlowMoved DEF Summons
  <2> QED
    BY <1>4, <2>1, TaskMoved
<1>5. CASE \E r \in Run : Begin(r) \/ Crash(r)
  BY <1>1, <1>2, <1>5, CrashMoved
<1>6. CASE \E r \in Run, w \in Flow : FlowStep(r, w)
  BY <1>3, <1>6
<1>7. CASE \E r \in Run, t \in Task : TaskStep(r, t)
  BY <1>4, <1>7
<1>8. CASE \E r \in Run, a \in Activity : Handle(r, a) \/ Break(r, a)
  BY <1>8, ServerMoved, StraightSoFar DEF Straight
<1>9. CASE \E w \in Flow, p \in Position : Evict(w, p)
  BY <1>9, EvictMoved
<1>10. CASE Restart
  BY <1>10, RestartMoved
<1>11. CASE Tick
  BY <1>11 DEF Tick, TickMove
<1>12. CASE \/ CleanupStart \/ CleanupWorkflows \/ CleanupFails
            \/ \E table \in {"tokens", "checkpoints"} : CleanupRows(table)
  BY <1>12, JobMoved
<1>13. ~(\E r \in Run, t \in Task : HandlerHalts(r, t))
  BY DEF HandlerHalts, LeaseFindsNoRow, LeaseMayBePut, SaveFreesLease, Halts,
     Straight
<1> QED
  BY <1>5, <1>6, <1>7, <1>8, <1>9, <1>10, <1>11, <1>12, <1>13 DEF Next
-----------------------------------------------------------------------------
(* Of executes called in turn: which of them are under way.                *)

\* A workflow function is going while a task of it is executed.
GoingInv ==
  \A r \in Run, t \in Task :
    exec[r][t].pc \in Busy => flow[r][FlowOf(t)].pc = "going"

\* Any workflow functions that are open, without the outermost, are inside a
\* task of another one.
NestInv ==
  \A r \in Run : \A S \in SUBSET Flow :
    /\ S # {} /\ "outer" \notin S
    /\ \A w \in S : flow[r][w].pc \in Open
    => \E t \in Task : /\ exec[r][t].pc = "running" /\ HasInner(t)
                       /\ program.inner[t] \in S /\ FlowOf(t) \notin S

\* A retry begins when the runs before it have ended.
RetryInv ==
  program.runs # "overlap" =>
    \A r \in Run : flow[r]["outer"].pc # "off" =>
      \A s \in Run : s < r => Ended(s)

TurnInv == InTurn /\ ~crossed => GoingInv /\ NestInv /\ RetryInv

\* No task both throws and runs a workflow.
LEMMA ThrowsIs ==
  ASSUME program \in Explored, NEW t \in Task, HasInner(t)
  PROVE  t \notin program.throws
<1>1. WellFormed(program)
  BY ProgramAssumption
<1>2. DOMAIN program.inner \cap program.throws = {}
  BY <1>1 DEF WellFormed
<1> QED
  BY <1>2 DEF HasInner

\* What is open is inside the outermost workflow function of its run.
LEMMA OuterOpen ==
  ASSUME WorkflowsInv, GoingInv, NestInv, NEW r \in Run, NEW w \in Flow,
         flow[r][w].pc \in Open
  PROVE  flow[r]["outer"].pc \in Open
<1> DEFINE S == {v \in Flow : flow[r][v].pc \in Open}
<1>1. program \in Explored
  BY DEF WorkflowsInv, StateInv
<1>2. SUFFICES ASSUME flow[r]["outer"].pc \notin Open PROVE FALSE
  OBVIOUS
<1>3. S \in SUBSET Flow /\ S # {} /\ "outer" \notin S
  BY <1>2
<1>4. PICK t \in Task : exec[r][t].pc = "running" /\ FlowOf(t) \notin S
  BY <1>3 DEF NestInv
<1>5. flow[r][FlowOf(t)].pc = "going" /\ FlowOf(t) \in Flow
  BY <1>1, <1>4, TaskIs DEF GoingInv, Busy
<1> QED
  BY <1>4, <1>5 DEF Open

\* Unless runs overlap one of them is at work at a time.
LEMMA OneRunner ==
  ASSUME WorkflowsInv, GoingInv, NestInv, RetryInv, program.runs # "overlap",
         NEW r \in Run, NEW s \in Run, NEW v \in Flow, NEW w \in Flow,
         flow[r][v].pc \in Open, flow[s][w].pc \in Open
  PROVE  r = s
<1>1. flow[r]["outer"].pc \in Open /\ flow[s]["outer"].pc \in Open
  BY OuterOpen
<1>2. /\ flow[r]["outer"].pc # "off" /\ ~Ended(r)
      /\ flow[s]["outer"].pc # "off" /\ ~Ended(s)
  BY <1>1 DEF Open, Ended, Over
<1>3. ~(r < s) /\ ~(s < r)
  BY <1>2 DEF RetryInv
<1>4. r \in Int /\ s \in Int
  BY DEF Run
<1> QED
  BY <1>3, <1>4

LEMMA TurnStart == Init => TurnInv
<1> SUFFICES ASSUME Init, InTurn PROVE GoingInv /\ NestInv /\ RetryInv
  BY DEF TurnInv
<1>1. program \in Explored /\ "outer" \in Flow
  BY ProgramIs DEF Init
<1>2. GoingInv
  BY DEF Init, GoingInv, Busy
<1>3. NestInv
  <2> SUFFICES ASSUME NEW r \in Run, NEW S \in SUBSET Flow, NEW w \in S,
                      flow[r][w].pc \in Open
               PROVE  FALSE
    BY DEF NestInv
  <2> QED
    BY DEF Init, Open
<1>4. RetryInv
  BY <1>1 DEF Init, RetryInv
<1> QED
  BY <1>2, <1>3, <1>4

\* The task of a move is busy, and so is it afterwards or it is done.
LEMMA TaskMoveIs ==
  ASSUME NEW r \in Run, NEW t \in Task, TaskMove(r, t)
  PROVE  /\ exec[r][t].pc \in Busy
         /\ exec'[r][t].pc \in Busy \cup {"returned", "threw"}
BY DEF TaskMove, KeyCalls, KeyTold, LeaseCalls, LeaseTold, Finishes, Releases,
   Lets, SaveCalls, SaveTold, GivesUp, Rejects, Busy

LEMMA GoingKept ==
  ASSUME WorkflowsInv, DueInv, OwnInv, HistoryInv, InTurn, Straight, GoingInv,
         [Next]_vars, program' = program
  PROVE  GoingInv'
<1>1. \A t : FlowOf(t)' = FlowOf(t)
  BY PlacesStay
<1>2. Task' = Task /\ program \in Explored
  BY PlacesStay DEF WorkflowsInv, StateInv
<1>3. SUFFICES ASSUME NEW s \in Run, NEW t \in Task, exec'[s][t].pc \in Busy
               PROVE  flow'[s][FlowOf(t)].pc = "going"
  BY <1>1, <1>2 DEF GoingInv
<1>4. FlowOf(t) \in Flow /\ (exec[s][t].pc \in Busy => flow[s][FlowOf(t)].pc = "going")
  BY <1>2, TaskIs DEF GoingInv
<1>5. ASSUME NEW r \in Run, NEW w \in Flow, FlowMove(r, w)
      PROVE  flow'[s][FlowOf(t)].pc = "going"
  <2>1. exec[s][t].pc \in Busy
    BY <1>3, <1>5 DEF FlowMove
  <2>2. CASE <<s, FlowOf(t)>> = <<r, w>>
    <3>1. /\ ~FlowOpens(r, w) /\ ~FlowStarts(r, w) /\ ~FlowCloses(r, w)
      BY <1>4, <2>1, <2>2 DEF FlowOpens, FlowStarts, FlowCloses
    <3>2. Current(r, w) = {t} /\ ~StepDone(r, w)
      BY <2>1, <2>2, UnderWay DEF Busy
    <3>3. ~FlowStops(r, w)
      BY <2>1, <2>2, <3>2 DEF FlowStops, Busy
    <3> QED
      BY <1>5, <3>1, <3>3 DEF FlowMove
  <2>3. CASE <<s, FlowOf(t)>> # <<r, w>>
    BY <1>4, <1>5, <2>1, <2>3 DEF FlowMove
  <2> QED
    BY <2>2, <2>3
<1>6. ASSUME NEW r \in Run, NEW w \in Flow, StepMove(r, w)
      PROVE  flow'[s][FlowOf(t)].pc = "going"
  BY <1>3, <1>4, <1>6 DEF StepMove
<1>7. ASSUME NEW r \in Run, NEW u \in Task, TaskMove(r, u)
      PROVE  flow'[s][FlowOf(t)].pc = "going"
  <2>1. exec[s][t].pc \in Busy
    BY <1>3, <1>7, TaskMoveIs DEF TaskMove
  <2> QED
    BY <1>4, <1>7, <2>1 DEF TaskMove
<1>8. ASSUME NEW r \in Run, CrashMove(r)
      PROVE  flow'[s][FlowOf(t)].pc = "going"
  <2>1. s # r
    BY <1>3, <1>8 DEF CrashMove, Busy
  <2> QED
    BY <1>3, <1>4, <1>8, <2>1 DEF CrashMove
<1>9. CASE \/ \E r \in Run, a \in Activity : ServerMove(r, a)
           \/ EvictMove \/ RestartMove \/ TickMove \/ JobMove
           \/ UNCHANGED vars
  BY <1>3, <1>4, <1>9 DEF ServerMove, EvictMove, RestartMove, TickMove,
     JobMove, vars
<1> QED
  BY <1>5, <1>6, <1>7, <1>8, <1>9, Moves

LEMMA NestKept ==
  ASSUME WorkflowsInv, DueInv, OwnInv, HistoryInv, InTurn, Straight, GoingInv,
         NestInv, [Next]_vars, program' = program
  PROVE  NestInv'
<1>1. \A t : FlowOf(t)' = FlowOf(t) /\ HasInner(t)' = HasInner(t)
  BY PlacesStay DEF HasInner
<1>2. Task' = Task /\ Flow' = Flow /\ program \in Explored
  BY PlacesStay DEF WorkflowsInv, StateInv
<1> DEFINE Around(s, S, t) ==
             /\ HasInner(t) /\ program.inner[t] \in S /\ FlowOf(t) \notin S
           IsOpen(s, S) == \A w \in S : flow[s][w].pc \in Open
<1>3. SUFFICES ASSUME NEW s \in Run, NEW S \in SUBSET Flow,
                      S # {}, "outer" \notin S,
                      \A w \in S : flow'[s][w].pc \in Open
               PROVE  \E t \in Task : exec'[s][t].pc = "running" /\ Around(s, S, t)
  BY <1>1, <1>2 DEF NestInv
<1>4. ASSUME IsOpen(s, S)
      PROVE  \E t \in Task : exec[s][t].pc = "running" /\ Around(s, S, t)
  BY <1>3, <1>4 DEF NestInv
<1> HIDE DEF Around
<1>5. ASSUME NEW r \in Run, NEW w \in Flow, FlowMove(r, w),
             flow[r][w].pc = "off" => Summons(r, w)
      PROVE  \E t \in Task : exec'[s][t].pc = "running" /\ Around(s, S, t)
  <2>1. exec' = exec
    BY <1>5 DEF FlowMove
  <2>2. CASE s = r /\ w \in S /\ flow[r][w].pc = "off"
    <3>1. PICK t \in Task : exec[r][t].pc = "running" /\ HasInner(t)
                            /\ program.inner[t] = w
      BY <1>3, <1>5, <2>2 DEF Summons
    <3>2. CASE FlowOf(t) \notin S
      BY <2>1, <2>2, <3>1, <3>2 DEF Around
    <3>3. CASE FlowOf(t) \in S
      <4> DEFINE R == S \ {w}
      <4>1. flow[r][FlowOf(t)].pc = "going"
        BY <3>1 DEF GoingInv, Busy
      <4>2. R \in SUBSET Flow /\ R # {} /\ "outer" \notin R
        BY <1>3, <2>2, <3>3, <4>1
      <4>3. \A v \in R : flow[r][v].pc \in Open
        BY <1>3, <1>5, <2>2 DEF FlowMove
      <4>4. PICK u \in Task : /\ exec[r][u].pc = "running" /\ HasInner(u)
                              /\ program.inner[u] \in R /\ FlowOf(u) \notin R
        BY <4>2, <4>3 DEF NestInv
      <4>5. flow[r][FlowOf(u)].pc = "going"
        BY <4>4 DEF GoingInv, Busy
      <4>6. FlowOf(u) \notin S
        BY <2>2, <4>4, <4>5
      <4> QED
        BY <2>1, <2>2, <4>4, <4>6 DEF Around
    <3> QED
      BY <3>2, <3>3
  <2>3. CASE ~(s = r /\ w \in S /\ flow[r][w].pc = "off")
    <3>1. flow[r][w].pc # "off" => flow[r][w].pc \in Open
      BY <1>5 DEF FlowMove, FlowOpens, FlowStarts, FlowStops, FlowCloses, Open
    <3>2. IsOpen(s, S)
      BY <1>3, <1>5, <2>3, <3>1 DEF FlowMove
    <3> QED
      BY <1>4, <2>1, <3>2
  <2> QED
    BY <2>2, <2>3
<1>6. ASSUME NEW r \in Run, NEW w \in Flow, StepMove(r, w)
      PROVE  \E t \in Task : exec'[s][t].pc = "running" /\ Around(s, S, t)
  <2>1. IsOpen(s, S)
    BY <1>3, <1>6 DEF StepMove
  <2>2. PICK t \in Task : exec[s][t].pc = "running" /\ Around(s, S, t)
    BY <1>4, <2>1
  <2>3. exec'[s][t] = exec[s][t]
    BY <1>6, <2>2 DEF StepMove, Enters
  <2> QED
    BY <2>2, <2>3
<1>7. ASSUME NEW r \in Run, NEW u \in Task, TaskMove(r, u)
      PROVE  \E t \in Task : exec'[s][t].pc = "running" /\ Around(s, S, t)
  <2>1. \A w \in S : flow'[s][w].pc = flow[s][w].pc
    BY <1>7 DEF TaskMove
  <2>2. IsOpen(s, S)
    BY <1>3, <2>1
  <2>3. PICK t \in Task : exec[s][t].pc = "running" /\ Around(s, S, t)
    BY <1>4, <2>2
  <2>4. CASE <<s, t>> = <<r, u>>
    <3>1. HasInner(t) /\ t \notin program.throws
      BY <1>2, <2>3, ThrowsIs DEF Around
    <3>2. flow[s][program.inner[t]].pc \in Open
      BY <2>2, <2>3 DEF Around
    <3>3. ~InnerIs(s, t, "completed") /\ ~InnerIs(s, t, "failed")
      BY <3>2 DEF InnerIs, Open
    <3>4. ~Finishes(r, u) /\ ~Releases(r, u)
      BY <2>4, <3>1, <3>3 DEF Finishes, Releases
    <3>6. ~Rejects(r, u)
      <4>1. ~InnerIs(s, t, "off")
        BY <3>2 DEF InnerIs, Open
      <4> QED
        BY <2>3, <2>4, <3>1, <3>3, <4>1 DEF Rejects
    <3>5. /\ ~KeyCalls(r, u) /\ ~KeyTold(r, u) /\ ~LeaseCalls(r, u)
          /\ ~LeaseTold(r, u) /\ ~Lets(r, u) /\ ~SaveCalls(r, u)
          /\ ~SaveTold(r, u) /\ ~GivesUp(r, u)
      BY <2>3, <2>4 DEF KeyCalls, KeyTold, LeaseCalls, LeaseTold, Lets,
         SaveCalls, SaveTold, GivesUp
    <3> QED
      BY <1>7, <3>4, <3>5, <3>6 DEF TaskMove
  <2>5. CASE <<s, t>> # <<r, u>>
    BY <1>7, <2>3, <2>5 DEF TaskMove
  <2> QED
    BY <2>4, <2>5
<1>8. ASSUME NEW r \in Run, CrashMove(r)
      PROVE  \E t \in Task : exec'[s][t].pc = "running" /\ Around(s, S, t)
  <2>1. PICK w \in S : TRUE
    BY <1>3
  <2>2. s # r
    BY <1>3, <1>8, <2>1 DEF CrashMove, Open
  <2>3. flow'[s] = flow[s] /\ exec'[s] = exec[s]
    BY <1>8, <2>2 DEF CrashMove
  <2> QED
    BY <1>3, <1>4, <2>3
<1>9. CASE \/ \E r \in Run, a \in Activity : ServerMove(r, a)
           \/ EvictMove \/ RestartMove \/ TickMove \/ JobMove
           \/ UNCHANGED vars
  <2>1. flow' = flow /\ exec' = exec
    BY <1>9 DEF ServerMove, EvictMove, RestartMove, TickMove, JobMove, vars
  <2> QED
    BY <1>3, <1>4, <2>1
<1> QED
  BY <1>5, <1>6, <1>7, <1>8, <1>9, Moves

LEMMA RetryKept ==
  ASSUME WorkflowsInv, DueInv, OwnInv, HistoryInv, InTurn, Straight, GoingInv,
         NestInv, RetryInv, [Next]_vars, program' = program
  PROVE  RetryInv'
<1>1. "outer" \in Flow /\ program \in Explored
  BY ProgramIs DEF WorkflowsInv, StateInv
<1>2. SUFFICES ASSUME program.runs # "overlap", NEW r \in Run,
                      flow'[r]["outer"].pc # "off",
                      NEW s \in Run, s < r
               PROVE  Ended(s)'
  BY DEF RetryInv
<1>3. flow[r]["outer"].pc # "off" => Ended(s)
  BY <1>2 DEF RetryInv
<1>4. ASSUME NEW x \in Run, NEW w \in Flow, FlowMove(x, w),
             flow[x][w].pc = "off" => Summons(x, w)
      PROVE  Ended(s)'
  <2>1. Ended(s) => Ended(s)'
    BY <1>1, <1>4 DEF FlowMove, FlowOpens, FlowStarts, FlowStops, FlowCloses,
       Ended, Over
  <2>2. CASE flow[r]["outer"].pc = "off"
    <3>1. x = r /\ w = "outer"
      BY <1>1, <1>2, <1>4, <2>2 DEF FlowMove
    <3>2. ASSUME NEW t \in Task, exec[r][t].pc = "running"
          PROVE  FALSE
      <4>1. flow[r][FlowOf(t)].pc = "going" /\ FlowOf(t) \in Flow
        BY <1>1, <3>2, TaskIs DEF GoingInv, Busy
      <4>2. flow[r]["outer"].pc \in Open
        BY <4>1, OuterOpen DEF Open
      <4> QED
        BY <2>2, <4>2 DEF Open
    <3>3. r = 1 \/ (r > 1 /\ Ended(r - 1))
      BY <1>2, <1>4, <2>2, <3>1, <3>2 DEF Summons
    <3>4. r \in Nat /\ s \in Nat /\ s >= 1 /\ r > 1 /\ r <= Runs
      BY <1>2 DEF Run
    <3>5. r - 1 \in Run /\ Ended(r - 1)
      <4>1. r \in 1 .. Runs
        BY DEF Run
      <4>2. r - 1 \in 1 .. Runs
        BY <3>4, <4>1, WorkflowsAssumption
      <4> QED
        BY <3>3, <3>4, <4>2 DEF Run
    <3>6. Ended(s)
      <4>1. CASE s = r - 1
        BY <3>5, <4>1
      <4>2. CASE s # r - 1
        <5>1. s < r - 1
          BY <1>2, <3>4, <4>2
        <5>2. flow[r - 1]["outer"].pc # "off"
          BY <3>5 DEF Ended, Over
        <5> QED
          BY <1>2, <3>5, <5>1, <5>2 DEF RetryInv
      <4> QED
        BY <4>1, <4>2
    <3> QED
      BY <2>1, <3>6
  <2> QED
    BY <1>3, <2>1, <2>2
<1>5. ASSUME NEW x \in Run, CrashMove(x)
      PROVE  Ended(s)'
  <2>1. CASE s = x
    BY <1>1, <1>5, <2>1 DEF CrashMove, Ended, Over
  <2>2. CASE s # x
    <3>1. flow'[s] = flow[s]
      BY <1>5, <2>2 DEF CrashMove
    <3>2. CASE r # x
      <4>1. flow'[r] = flow[r]
        BY <1>5, <3>2 DEF CrashMove
      <4> QED
        BY <1>2, <1>3, <3>1, <4>1 DEF Ended
    <3>3. CASE r = x /\ flow[r]["outer"].pc # "off"
      BY <1>3, <3>1, <3>3 DEF Ended
    <3>4. CASE r = x /\ flow[r]["outer"].pc = "off"
      BY <1>5, <3>4, OuterOpen DEF CrashMove, Open
    <3> QED
      BY <3>2, <3>3, <3>4
  <2> QED
    BY <2>1, <2>2
<1>6. CASE \/ \E x \in Run, w \in Flow : StepMove(x, w)
           \/ \E x \in Run, t \in Task : TaskMove(x, t)
  <2>1. \A x \in Run, v \in Flow : flow'[x][v].pc = flow[x][v].pc
    BY <1>6 DEF StepMove, TaskMove
  <2> QED
    BY <1>1, <1>2, <1>3, <2>1 DEF Ended
<1>7. CASE \/ \E x \in Run, a \in Activity : ServerMove(x, a)
           \/ EvictMove \/ RestartMove \/ TickMove \/ JobMove
           \/ UNCHANGED vars
  <2>1. flow' = flow
    BY <1>7 DEF ServerMove, EvictMove, RestartMove, TickMove, JobMove, vars
  <2> QED
    BY <1>2, <1>3, <2>1 DEF Ended
<1> QED
  BY <1>4, <1>5, <1>6, <1>7, Moves

LEMMA TurnKept ==
  ASSUME WorkflowsInv, StageInv, DueInv, OwnInv, HistoryInv, TurnInv,
         [Next]_vars
  PROVE  TurnInv'
<1>1. program' = program
  BY RowsMove
<1>2. InTurn' = InTurn
  BY <1>1, PlacesStay
<1>3. ~crossed' => Straight /\ ~crossed
  BY StraightSoFar DEF Straight
<1> QED
  BY <1>1, <1>2, <1>3, GoingKept, NestKept, RetryKept DEF TurnInv

LEMMA TurnHolds == Spec => []TurnInv
<1> QED
  BY TypesHold, DueHolds, OwnHolds, HistoryHolds, TurnStart, TurnKept, PTL
  DEF Spec

-----------------------------------------------------------------------------
(* Who holds the lease of a task, while the executes of two runs meet.     *)

\* Nobody has got to the end of the workflow function.
Fresh(w) == \A r \in Run : flow[r][w].pc \in {"off", "starting", "going"}

\* Then the workflow is not completed, and whoever has started it has a token.
FreshInv ==
  \A w \in Flow : Fresh(w) =>
    /\ stores[w].workflow # None => stores[w].workflow.status = Running
    /\ \A r \in Run :
         \/ flow[r][w].pc = "going"
         \/ /\ flow[r][w].pc = "starting" /\ Answered(r, w)
            /\ Answer(r, w).kind # "error"
         => stores[w].fencingToken # None

\* An execute that may still be given the lease.
MayLease(r, t) ==
  exec[r][t].pc \in {"off", "ready", "keying", "leasing"} /\ ~Holds(r, t)

LeaseOf(s, t) ==
  /\ EntryOf(t) # None
  /\ EntryOf(t).created_at + EntryOf(t).lease_timeout = held[s][t]

\* Whoever is at work while somebody else may be given the lease has his own
\* in the cache, until the result is there.
HolderInv ==
  \A r, s \in Run, t \in Task :
    /\ r # s /\ Fresh(FlowOf(t)) /\ MayLease(r, t)
    /\ Holds(s, t) /\ held[s][t] - now >= Second
    => RowOf(t) # None \/ LeaseOf(s, t)

\* Once somebody has got to the end, it stays so.
LEMMA FreshBefore ==
  ASSUME WorkflowsInv, DueInv, OwnInv, HistoryInv, InTurn, Straight,
         [Next]_vars,
         program' = program, NEW w \in Flow, Fresh(w)'
  PROVE  Fresh(w)
<1> SUFFICES ASSUME NEW r \in Run
             PROVE  flow[r][w].pc \in {"off", "starting", "going"}
  BY DEF Fresh
<1>1. flow'[r][w].pc \in {"off", "starting", "going"}
  BY DEF Fresh
<1>2. ASSUME NEW x \in Run, NEW v \in Flow, FlowMove(x, v)
      PROVE  flow[r][w].pc \in {"off", "starting", "going"}
  BY <1>1, <1>2 DEF FlowMove, FlowOpens, FlowStarts, FlowStops, FlowCloses
<1>3. ASSUME NEW x \in Run, CrashMove(x)
      PROVE  flow[r][w].pc \in {"off", "starting", "going"}
  BY <1>3 DEF CrashMove, Fresh
<1>4. CASE \/ \E x \in Run, v \in Flow : StepMove(x, v)
           \/ \E x \in Run, t \in Task : TaskMove(x, t)
           \/ \E x \in Run, a \in Activity : ServerMove(x, a)
           \/ EvictMove \/ RestartMove \/ TickMove \/ JobMove
           \/ UNCHANGED vars
  <2>1. flow'[r][w].pc = flow[r][w].pc
    BY <1>4 DEF StepMove, TaskMove, ServerMove, EvictMove, RestartMove,
       TickMove, JobMove, vars
  <2> QED
    BY <1>1, <2>1
<1> QED
  BY <1>2, <1>3, <1>4, Moves

\* What the server does for a workflow that nobody has got to the end of.
LEMMA FreshServed ==
  ASSUME WorkflowsInv, NEW w \in Flow, Fresh(w), NEW r \in Run,
         NEW a \in Activity, Pending(r, a), NEW reply, Served(r, a, reply)
  PROVE  /\ stores'[w].workflow \in
              {InsertWorkflow(stores[w].workflow), stores[w].workflow}
         /\ stores[w].fencingToken # None => stores'[w].fencingToken # None
         /\ a = w => stores'[w].fencingToken # None
<1>1. CASE a \in Task
  <2>1. a # w
    BY <1>1, TaskIs DEF WorkflowsInv, StateInv
  <2> QED
    BY <1>1, <2>1 DEF Served, TaskServed
<1>2. CASE a \in Flow /\ a # w
  BY <1>2 DEF Served, FlowServed
<1>3. CASE a = w
  <2>1. /\ flow[r][w].pc \in {"off", "starting", "going"}
        /\ FlowAwaits(flow[r][w].pc, call[r][w].request.rpc)
    BY <1>3 DEF Fresh, WorkflowsInv, CallsInv, FlowCallOK, Pending
  <2>2. call[r][w].request.rpc = "start"
    BY <2>1 DEF FlowAwaits
  <2> QED
    BY <1>3, <2>2 DEF Served, FlowServed
<1> QED
  BY <1>1, <1>2, <1>3 DEF Activity

LEMMA FreshStart == Init => FreshInv
BY DEF Init, FreshInv, NewStores

LEMMA FreshKept ==
  ASSUME WorkflowsInv, DueInv, OwnInv, HistoryInv, InTurn, Straight,
         [Next]_vars,
         program' = program, FreshInv
  PROVE  FreshInv'
<1>1. Flow' = Flow
  BY PlacesStay
<1>2. SUFFICES ASSUME NEW w \in Flow, Fresh(w)'
               PROVE  /\ stores'[w].workflow # None =>
                           stores'[w].workflow.status = Running
                      /\ \A r \in Run :
                           \/ flow'[r][w].pc = "going"
                           \/ /\ flow'[r][w].pc = "starting" /\ Answered(r, w)'
                              /\ Answer(r, w)'.kind # "error"
                           => stores'[w].fencingToken # None
  BY <1>1 DEF FreshInv
<1>3. /\ Fresh(w)
      /\ stores[w].workflow # None => stores[w].workflow.status = Running
  BY <1>2, FreshBefore DEF FreshInv
<1>4. \A row : row # None /\ row.status = Running =>
        InsertWorkflow(row) = row
  BY DEF InsertWorkflow
<1>5. InsertWorkflow(None).status = Running
  BY DEF InsertWorkflow
<1>6. Running # Completed
  BY DEF Running, Completed
<1>7. stores'[w].workflow # None => stores'[w].workflow.status = Running
  <2>1. \/ stores'[w].workflow \in
             {InsertWorkflow(stores[w].workflow), stores[w].workflow}
        \/ stores[w].workflow # None /\ stores[w].workflow.status = Completed
    <3>1. ASSUME NEW r \in Run, NEW a \in Activity, ServerMove(r, a)
          PROVE  stores'[w].workflow \in
                   {InsertWorkflow(stores[w].workflow), stores[w].workflow}
      BY <1>3, <3>1, FreshServed DEF ServerMove, NotServed
    <3>2. CASE \/ \E r \in Run, v \in Flow : FlowMove(r, v) \/ StepMove(r, v)
               \/ \E r \in Run, t \in Task : TaskMove(r, t)
               \/ \E r \in Run : CrashMove(r)
               \/ EvictMove \/ RestartMove \/ TickMove \/ JobMove
               \/ UNCHANGED vars
      BY <3>2 DEF FlowMove, StepMove, TaskMove, CrashMove, EvictMove,
         RestartMove, TickMove, JobMove, vars
    <3> QED
      BY <3>1, <3>2, Moves
  <2> QED
    BY <1>3, <1>4, <1>5, <1>6, <2>1
<1>8. ASSUME NEW r \in Run,
             \/ flow'[r][w].pc = "going"
             \/ /\ flow'[r][w].pc = "starting" /\ Answered(r, w)'
                /\ Answer(r, w)'.kind # "error"
      PROVE  stores'[w].fencingToken # None
  <2>1. \/ flow[r][w].pc = "going"
        \/ /\ flow[r][w].pc = "starting" /\ Answered(r, w)
           /\ Answer(r, w).kind # "error"
        => stores[w].fencingToken # None
    BY <1>3 DEF FreshInv
  <2>2. ASSUME NEW x \in Run, NEW v \in Flow, FlowMove(x, v)
        PROVE  stores'[w].fencingToken # None
    <3>1. stores' = stores
      BY <2>2 DEF FlowMove
    <3>2. CASE <<x, v>> = <<r, w>>
      <4>1. CASE FlowOpens(x, v)
        BY <1>8, <3>2, <4>1 DEF FlowOpens, Answered
      <4>2. CASE FlowStarts(x, v)
        BY <1>8, <2>1, <3>1, <3>2, <4>2 DEF FlowStarts
      <4>3. CASE FlowStops(x, v) \/ FlowCloses(x, v)
        BY <1>8, <3>2, <4>3 DEF FlowStops, FlowCloses
      <4> QED
        BY <2>2, <4>1, <4>2, <4>3 DEF FlowMove
    <3>3. CASE <<x, v>> # <<r, w>>
      <4>1. flow'[r][w] = flow[r][w] /\ call'[r][w] = call[r][w]
        BY <2>2, <3>3 DEF FlowMove, Activity
      <4> QED
        BY <1>8, <2>1, <3>1, <4>1 DEF Answered, Answer
    <3> QED
      BY <3>2, <3>3
  <2>3. CASE \/ \E x \in Run, v \in Flow : StepMove(x, v)
             \/ \E x \in Run, t \in Task : TaskMove(x, t)
             \/ EvictMove \/ RestartMove \/ TickMove \/ JobMove
             \/ UNCHANGED vars
    <3>1. /\ flow'[r][w].pc = flow[r][w].pc
          /\ \/ call'[r][w] = call[r][w] \/ call'[r][w] = None
             \/ call'[r][w].answer = Unavailable
      <4>1. w \in Activity /\ w \notin Task
        BY FlowIs DEF Activity, WorkflowsInv, StateInv
      <4> QED
        BY <2>3, <4>1 DEF StepMove, TaskMove, EvictMove, RestartMove, TickMove,
           JobMove, vars
    <3>2. stores'[w].fencingToken = stores[w].fencingToken
      BY <1>3, <1>6, <2>3, <3>1 DEF StepMove, TaskMove, EvictMove, RestartMove,
         TickMove, JobMove, vars, FreshInv
    <3> QED
      BY <1>8, <2>1, <3>1, <3>2 DEF Answered, Answer, Unavailable
  <2>4. ASSUME NEW x \in Run, CrashMove(x)
        PROVE  FALSE
    BY <1>2, <2>4 DEF CrashMove, Fresh
  <2>5. ASSUME NEW x \in Run, NEW a \in Activity, ServerMove(x, a)
        PROVE  stores'[w].fencingToken # None
    <3>1. flow' = flow /\ Pending(x, a)
      BY <2>5 DEF ServerMove
    <3>2. CASE <<x, a>> = <<r, w>>
      <4>1. CASE \E reply : Served(x, a, reply)
        BY <1>3, <3>1, <3>2, <4>1, FreshServed
      <4>2. CASE NotServed /\ Told(x, a, Unavailable) /\ Alive(x, a)
        <5>1. call'[r][w].answer = Unavailable /\ stores' = stores
          BY <3>2, <4>2 DEF Told, NotServed
        <5> QED
          BY <1>8, <2>1, <3>1, <5>1 DEF Answer, Unavailable
      <4> QED
        BY <2>5, <4>1, <4>2 DEF ServerMove
    <3>3. CASE <<x, a>> # <<r, w>>
      <4>1. call'[r][w] = call[r][w]
        BY <2>5, <3>3 DEF ServerMove, Told, Activity
      <4> QED
        BY <1>3, <1>8, <2>1, <2>5, <3>1, <4>1, FreshServed
           DEF Answered, Answer, ServerMove, NotServed
    <3> QED
      BY <3>2, <3>3
  <2> QED
    BY <2>2, <2>3, <2>4, <2>5, Moves
<1> QED
  BY <1>7, <1>8

LEMMA HolderStart == Init => HolderInv
BY DEF Init, HolderInv, Holds, Working, Answered

\* An execute that waits for an answer waits for that of its own call.
LEMMA WhatAwaits ==
  ASSUME WorkflowsInv, NEW r \in Run, NEW t \in Task, Pending(r, t),
         exec[r][t].pc # "crashed"
  PROVE  /\ ~Answered(r, t) /\ Alive(r, t)
         /\ TaskAwaits(exec[r][t].pc, call[r][t].request.rpc)
<1>1. t \notin Flow
  BY TaskIs DEF WorkflowsInv, StateInv
<1> QED
  BY <1>1 DEF WorkflowsInv, CallsInv, TaskCallOK, Pending, Answered, Alive

LEMMA EntryIs ==
  ASSUME WorkflowsInv, InTurn, NEW t \in Task, EntryOf(t) # None
  PROVE  EntryOf(t).created_at \in Nat /\ EntryOf(t).lease_timeout \in Nat
<1>1. /\ FlowOf(t) \in Flow /\ Place(t) \in Position
      /\ stores[FlowOf(t)] \in StoresRecord
  BY TaskIs, PlaceIs DEF WorkflowsInv, StateInv
<1> QED
  BY <1>1, StoresFields DEF EntryOf, LeaseEntry

\* A lease with a second left is neither over nor evicted.
LEMMA LeaseStands ==
  ASSUME WorkflowsInv, HistoryInv, InTurn, NEW s \in Run, NEW t \in Task,
         LeaseOf(s, t), held[s][t] - now >= Second
  PROVE  Left(t) >= Second /\ Left(t) > 0 /\ ~Evictable(EntryOf(t), now)
<1>1. /\ EntryOf(t).created_at \in Nat /\ EntryOf(t).lease_timeout \in Nat
      /\ now \in Nat /\ held[s][t] \in Nat
      /\ EntryOf(t).created_at + EntryOf(t).lease_timeout = held[s][t]
  BY EntryIs DEF LeaseOf, WorkflowsInv, StateInv, HistoryInv
<1>2. /\ CacheTtl(EntryOf(t).lease_timeout) \in Nat
      /\ EntryOf(t).lease_timeout - CacheTtl(EntryOf(t).lease_timeout) < Second
  BY <1>1, TtlIs
<1> QED
  BY <1>1, <1>2, TtlAssumption DEF Left, RemainingLease, Evictable

\* While both of two executes of a task may be at work, the server leaves the
\* lease of the one that has it.
LEMMA HolderServed ==
  ASSUME WorkflowsInv, HistoryInv, InTurn, GoingInv, FreshInv, HolderInv,
         NEW r \in Run, NEW s \in Run, NEW t \in Task, r # s,
         Fresh(FlowOf(t)), MayLease(r, t)', Holds(s, t)',
         held'[s][t] - now' >= Second,
         NEW x \in {r, s}, ServerMove(x, t)
  PROVE  RowOf(t)' # None \/ LeaseOf(s, t)'
<1>1. /\ t \in Activity /\ t \notin Flow /\ FlowOf(t) \in Flow
  BY TaskIs DEF Activity, WorkflowsInv, StateInv
<1>2. /\ exec' = exec /\ now' = now /\ Pending(x, t)
      /\ \/ NotServed \/ \E reply : Served(x, t, reply)
  BY DEF ServerMove
<1>3. exec[r][t].pc # "crashed" /\ exec[s][t].pc # "crashed"
  BY <1>2 DEF MayLease, Holds, Working
<1>4. /\ ~Answered(x, t) /\ Alive(x, t)
      /\ TaskAwaits(exec[x][t].pc, call[x][t].request.rpc)
  BY <1>2, <1>3, WhatAwaits
<1>5. \A y \in Run : y # x => call'[y][t] = call[y][t]
  BY <1>1 DEF ServerMove, Told
<1>6. MayLease(r, t)
  BY <1>2, <1>4, <1>5 DEF MayLease, Holds, Working, Answered, Answer
<1>7. ASSUME Holds(s, t), held'[s][t] = held[s][t]
      PROVE  /\ held[s][t] - now >= Second
             /\ RowOf(t) # None \/ (LeaseOf(s, t) /\ Left(t) > 0)
  <2>1. held[s][t] - now >= Second
    BY <1>2, <1>7
  <2>2. RowOf(t) # None \/ LeaseOf(s, t)
    BY <1>6, <1>7, <2>1 DEF HolderInv
  <2>3. LeaseOf(s, t) => Left(t) > 0
    BY <2>1, LeaseStands
  <2> QED
    BY <2>1, <2>2, <2>3
<1>8. ASSUME Holds(s, t), held'[s][t] = held[s][t], Untouched(t)
      PROVE  RowOf(t)' # None \/ LeaseOf(s, t)'
  BY <1>7, <1>8 DEF LeaseOf, Untouched
<1>9. CASE x = r
  <2>1. Holds(s, t)
    BY <1>2, <1>5, <1>9 DEF Holds, Answered, Answer
  <2>2. held'[s][t] = held[s][t]
    BY <1>2, <1>9 DEF Served, NotServed
  <2>3. call[r][t].request.rpc \in {"key", "lease"}
    BY <1>4, <1>6, <1>9 DEF TaskAwaits, MayLease
  <2>4. CASE NotServed
    BY <1>8, <2>1, <2>2, <2>4 DEF NotServed
  <2>5. CASE \E reply : Served(r, t, reply)
    <3>1. PICK reply : TaskServed(r, t, reply)
      BY <2>5 DEF Served
    <3>2. CASE Untouched(t)
      BY <1>8, <2>1, <2>2, <3>2
    <3>3. CASE /\ EntryOf(t)' = EntryOf(t)
               /\ RowOf(t) # None => RowOf(t)' = RowOf(t)
      BY <1>7, <2>1, <2>2, <3>3 DEF LeaseOf
    <3>4. CASE RowOf(t) = None /\ (EntryOf(t) = None \/ Left(t) <= 0)
      <4>1. LeaseOf(s, t) /\ Left(t) > 0
        BY <1>7, <2>1, <2>2, <3>4
      <4>2. Left(t) \in Int
        BY <4>1, EntryIs DEF Left, RemainingLease, LeaseOf, WorkflowsInv,
           StateInv
      <4> QED
        BY <3>4, <4>1, <4>2 DEF LeaseOf
    <3> QED
      BY <2>3, <3>1, <3>2, <3>3, <3>4 DEF TaskServed
  <2> QED
    BY <1>2, <1>9, <2>4, <2>5
<1>10. CASE x = s /\ exec[s][t].pc = "leasing"
  <2>1. call'[s][t].answer.kind = "granted" /\ call[s][t].request.rpc = "lease"
    BY <1>2, <1>4, <1>10 DEF Holds, Working, Answer, TaskAwaits
  <2>2. ~ Told(s, t, Unavailable)
    BY <1>4, <1>10, <2>1 DEF Told, Unavailable
  <2>3. PICK reply : Served(s, t, reply) /\ Told(s, t, reply)
    BY <1>10, <2>2 DEF ServerMove
  <2>4. reply.kind = "granted"
    BY <1>4, <1>10, <2>1, <2>3 DEF Told
  <2>5. /\ held'[s][t] = now + call[s][t].request.lease_timeout
        /\ EntryOf(t)' # None /\ EntryOf(t)'.created_at = now
        /\ EntryOf(t)'.lease_timeout = call[s][t].request.lease_timeout
    BY <1>4, <1>10, <2>1, <2>3, <2>4 DEF Served, TaskServed
  <2> QED
    BY <2>5 DEF LeaseOf
<1>11. CASE x = s /\ exec[s][t].pc # "leasing"
  <2>1. /\ exec[s][t].pc = "checkpointing"
        /\ call[s][t].request.rpc = "checkpoint"
    BY <1>2, <1>4, <1>11 DEF Holds, Working, TaskAwaits
  <2>2. Holds(s, t)
    BY <2>1 DEF Holds, Working
  <2>3. CASE NotServed
    BY <1>8, <2>2, <2>3 DEF NotServed
  <2>4. CASE \E reply : Served(s, t, reply)
    <3>1. PICK reply : Served(s, t, reply)
      BY <2>4
    <3>2. TaskServed(s, t, reply)
      BY <3>1 DEF Served
    <3>3. CASE RowOf(t)' # None
      BY <3>3
    <3>4. CASE RowOf(t)' = None
      <4>1. /\ reply.kind = "error" /\ RowOf(t)' = RowOf(t)
            /\ TokenOf(t) = None \/ (EntryOf(t) # None /\ Left(t) <= 0)
        BY <2>1, <3>2, <3>4 DEF TaskServed
      <4>2. held'[s][t] = held[s][t]
        BY <3>1, <4>1 DEF Served
      <4>3. LeaseOf(s, t) /\ Left(t) > 0
        BY <1>7, <2>2, <3>4, <4>1, <4>2
      <4>4. TokenOf(t) # None
        <5>1. flow[s][FlowOf(t)].pc = "going"
          BY <2>1 DEF GoingInv, Busy
        <5> QED
          BY <1>1, <5>1 DEF FreshInv, TokenOf
      <4>5. Left(t) \in Int
        BY <4>3, EntryIs DEF Left, RemainingLease, LeaseOf, WorkflowsInv,
           StateInv
      <4> QED
        BY <4>1, <4>3, <4>4, <4>5
    <3> QED
      BY <3>3, <3>4
  <2> QED
    BY <1>2, <1>11, <2>3, <2>4
<1> QED
  BY <1>9, <1>10, <1>11

\* With two runs an execute has at most one other one to meet.
LEMMA HolderKept ==
  ASSUME Runs <= 2, WorkflowsInv, DueInv, OwnInv, HistoryInv, InTurn, Straight,
         GoingInv, FreshInv, HolderInv, [Next]_vars, program' = program
  PROVE  HolderInv'
<1>1. /\ \A t : FlowOf(t)' = FlowOf(t) /\ Place(t)' = Place(t)
      /\ Task' = Task /\ program \in Explored
  BY PlacesStay DEF WorkflowsInv, StateInv
<1>2. SUFFICES ASSUME NEW r \in Run, NEW s \in Run, NEW t \in Task,
                      r # s, Fresh(FlowOf(t))', MayLease(r, t)', Holds(s, t)',
                      held'[s][t] - now' >= Second
               PROVE  RowOf(t)' # None \/ LeaseOf(s, t)'
  BY <1>1 DEF HolderInv
<1> DEFINE w == FlowOf(t)
           Safe == RowOf(t)' # None \/ LeaseOf(s, t)'
<1>3. /\ w \in Flow /\ t \in Activity /\ t \notin Flow
      /\ \A x \in Run : flow'[x][w].pc # "crashed"
  <2>1. w \in Flow /\ t \in Activity /\ t \notin Flow
    BY <1>1, TaskIs DEF Activity
  <2> QED
    BY <1>1, <1>2, <2>1 DEF Fresh
<1>4. Fresh(w)
  BY <1>1, <1>2, <1>3, FreshBefore DEF Fresh
<1>5. held[s][t] \in Nat /\ now \in Nat
  BY DEF HistoryInv, WorkflowsInv, StateInv
<1>6. \A x \in Run : x = r \/ x = s
  BY <1>2, WorkflowsAssumption DEF Run
<1>7. ASSUME Holds(s, t), MayLease(r, t), held[s][t] - now >= Second
      PROVE  RowOf(t) # None \/ LeaseOf(s, t)
  BY <1>2, <1>4, <1>7 DEF HolderInv
<1>8. ASSUME Holds(s, t), MayLease(r, t), held' = held, now' = now,
             stores' = stores
      PROVE  Safe
  BY <1>1, <1>2, <1>7, <1>8 DEF RowOf, EntryOf, LeaseOf
<1>9. ASSUME exec' = exec, call'[r][t] = call[r][t], call'[s][t] = call[s][t]
      PROVE  Holds(s, t) /\ MayLease(r, t)
  BY <1>2, <1>9 DEF Holds, MayLease, Answered, Answer
<1> HIDE DEF w, Safe
<1>10. ASSUME NEW x \in Run, NEW v \in Flow, FlowMove(x, v)
       PROVE  Safe
  BY <1>3, <1>8, <1>9, <1>10 DEF FlowMove, history
<1>11. ASSUME NEW x \in Run, NEW v \in Flow, StepMove(x, v)
       PROVE  Safe
  <2>1. /\ stores' = stores /\ held' = held /\ now' = now /\ call' = call
        /\ \A y \in {r, s} : exec'[y][t] = exec[y][t] \/ Enters(y, t)
    BY <1>11 DEF StepMove, history
  <2>2. Holds(s, t)
    BY <1>2, <2>1 DEF Holds, Working, Enters, Answered, Answer
  <2>3. MayLease(r, t)
    BY <1>2, <2>1 DEF Holds, Working, Enters, MayLease, Answered, Answer
  <2> QED
    BY <1>8, <2>1, <2>2, <2>3
<1>12. ASSUME NEW x \in Run, NEW u \in Task, TaskMove(x, u)
       PROVE  Safe
  <2>1. stores' = stores /\ now' = now
    BY <1>12 DEF TaskMove
  <2>2. CASE u # t
    <3>1. /\ exec'[r][t] = exec[r][t] /\ exec'[s][t] = exec[s][t]
          /\ call'[r][t] = call[r][t] /\ call'[s][t] = call[s][t]
          /\ held'[s][t] = held[s][t]
      BY <1>3, <1>12, <2>2 DEF TaskMove
    <3>2. Holds(s, t) /\ MayLease(r, t)
      BY <1>2, <3>1 DEF Holds, MayLease, Answered, Answer
    <3> QED
      BY <1>1, <1>2, <1>7, <2>1, <3>1, <3>2
         DEF Safe, RowOf, EntryOf, LeaseOf
  <2>3. CASE u = t /\ x = r
    <3>1. /\ exec'[s][t] = exec[s][t] /\ call'[s][t] = call[s][t]
          /\ held'[s][t] = held[s][t]
      BY <1>2, <1>3, <1>12, <2>3 DEF TaskMove
    <3>2. Holds(s, t)
      BY <1>2, <3>1 DEF Holds, Answered, Answer
    <3>3. exec'[r][t].pc \in {"ready", "keying", "leasing"}
      BY <1>2, <1>12, <2>3, TaskMoveIs DEF MayLease, Busy
    <3>4. MayLease(r, t)
      <4>1. KeyCalls(r, t) \/ KeyTold(r, t) \/ LeaseCalls(r, t) \/ LeaseTold(r, t)
        BY <1>12, <2>3, <3>3 DEF TaskMove, Finishes, Releases, Lets, SaveCalls,
           SaveTold, GivesUp, Rejects, Stops
      <4> QED
        BY <3>3, <4>1 DEF KeyCalls, KeyTold, LeaseCalls, LeaseTold, Stops,
           MayLease, Holds, Working
    <3> QED
      BY <1>1, <1>2, <1>7, <2>1, <3>1, <3>2, <3>4
         DEF Safe, RowOf, EntryOf, LeaseOf
  <2>4. CASE u = t /\ x = s
    <3>1. exec'[r][t] = exec[r][t] /\ call'[r][t] = call[r][t]
      BY <1>2, <1>3, <1>12, <2>4 DEF TaskMove
    <3>2. MayLease(r, t)
      BY <1>2, <3>1 DEF MayLease, Holds, Answered, Answer
    <3>3. Holds(s, t) /\ held'[s][t] = held[s][t]
      <4>1. ~KeyCalls(s, t) /\ ~KeyTold(s, t) /\ ~Releases(s, t) /\ ~Lets(s, t)
            /\ ~GivesUp(s, t) /\ ~LeaseCalls(s, t)
        BY <1>2 DEF Holds, Working, KeyCalls, KeyTold, Releases, Lets, GivesUp,
           Stops, LeaseCalls, Asked, Answered
      <4>2. LeaseTold(s, t) => Holds(s, t) /\ held'[s][t] = held[s][t]
        BY <1>2 DEF LeaseTold, Stops, Holds, Working
      <4>3. Finishes(s, t) \/ SaveCalls(s, t) =>
              Holds(s, t) /\ held'[s][t] = held[s][t]
        BY DEF Finishes, SaveCalls, Stays, Holds, Working
      <4>4. SaveTold(s, t) => Holds(s, t) /\ held'[s][t] = held[s][t]
        BY <1>2 DEF SaveTold, Stays, Stops, Holds, Working
      <4>5. ~Rejects(s, t)
        BY <1>2 DEF Rejects, Holds, Working
      <4> QED
        BY <1>2, <1>12, <2>4, <4>1, <4>2, <4>3, <4>4, <4>5 DEF TaskMove
    <3> QED
      BY <1>1, <1>2, <1>7, <2>1, <3>2, <3>3
         DEF Safe, RowOf, EntryOf, LeaseOf
  <2> QED
    BY <1>6, <2>2, <2>3, <2>4
<1>13. ASSUME NEW x \in Run, CrashMove(x)
       PROVE  Safe
  BY <1>3, <1>13 DEF CrashMove
<1>14. ASSUME NEW x \in Run, NEW a \in Activity, ServerMove(x, a)
       PROVE  Safe
  <2>1. CASE a = t
    <3>1. x \in {r, s}
      BY <1>6
    <3> QED
      BY <1>2, <1>4, <1>14, <2>1, <3>1, HolderServed DEF Safe, w
  <2>2. CASE a # t
    <3>1. Untouched(t) /\ held'[s][t] = held[s][t]
      <4>1. ASSUME NEW reply, Served(x, a, reply)
            PROVE  Untouched(t) /\ held'[s][t] = held[s][t]
        BY <2>2, <4>1 DEF Served, FlowServed, TaskServed, Activity
      <4> QED
        BY <1>14, <4>1 DEF ServerMove, NotServed
    <3>2. /\ exec' = exec /\ now' = now
          /\ call'[r][t] = call[r][t] /\ call'[s][t] = call[s][t]
      BY <1>3, <1>14, <2>2 DEF ServerMove, Told
    <3> QED
      BY <1>2, <1>7, <1>9, <3>1, <3>2 DEF Safe, Untouched, LeaseOf
  <2> QED
    BY <2>1, <2>2
<1>15. ASSUME EvictMove
       PROVE  Safe
  <2>1. /\ exec' = exec /\ call' = call /\ now' = now /\ held' = held
        /\ RowOf(t)' = RowOf(t)
        /\ \/ EntryOf(t)' = EntryOf(t)
           \/ EntryOf(t) # None /\ Evictable(EntryOf(t), now)
    BY <1>15 DEF EvictMove, history
  <2>2. held[s][t] - now >= Second /\ (RowOf(t) # None \/ LeaseOf(s, t))
    BY <1>2, <1>7, <1>9, <2>1
  <2> QED
    BY <2>1, <2>2, LeaseStands DEF Safe, LeaseOf
<1>16. ASSUME RestartMove
       PROVE  Safe
  BY <1>2, <1>5, <1>16, TtlAssumption DEF RestartMove
<1>17. ASSUME TickMove
       PROVE  Safe
  <2>1. /\ exec' = exec /\ call' = call /\ held' = held /\ stores' = stores
        /\ now' = now + 1
    BY <1>17 DEF TickMove
  <2>2. held[s][t] - now >= Second
    BY <1>2, <1>5, <2>1, TtlAssumption
  <2> QED
    BY <1>1, <1>7, <1>9, <2>1, <2>2 DEF Safe, RowOf, EntryOf, LeaseOf
<1>18. ASSUME JobMove
       PROVE  Safe
  <2>1. /\ exec' = exec /\ call' = call /\ held' = held /\ now' = now
        /\ stores'[w] = stores[w]
    BY <1>3, <1>4, <1>18 DEF JobMove, FreshInv, Running, Completed
  <2> QED
    BY <1>1, <1>2, <1>7, <1>9, <2>1 DEF Safe, RowOf, EntryOf, LeaseOf, w
<1>19. ASSUME UNCHANGED vars
       PROVE  Safe
  BY <1>8, <1>9, <1>19 DEF vars, history
<1> QED
  BY <1>10, <1>11, <1>12, <1>13, <1>14, <1>15, <1>16, <1>17, <1>18, <1>19, Moves
  DEF Safe

FreshInTurn == InTurn /\ ~crossed => FreshInv

LEMMA FreshHolds == Spec => []FreshInTurn
<1>1. Init => FreshInTurn
  BY FreshStart DEF FreshInTurn
<1>2. /\ WorkflowsInv /\ StageInv /\ DueInv /\ OwnInv /\ HistoryInv
      /\ FreshInTurn /\ [Next]_vars
      => FreshInTurn'
  <2> SUFFICES ASSUME WorkflowsInv, StageInv, DueInv, OwnInv, HistoryInv,
                      FreshInTurn, [Next]_vars
               PROVE  FreshInTurn'
    OBVIOUS
  <2>1. program' = program
    BY RowsMove
  <2>2. InTurn' = InTurn
    BY <2>1, PlacesStay
  <2>3. ~crossed' => Straight /\ ~crossed
    BY StraightSoFar DEF Straight
  <2> QED
    BY <2>1, <2>2, <2>3, FreshKept DEF FreshInTurn
<1> QED
  BY <1>1, <1>2, TypesHold, DueHolds, OwnHolds, HistoryHolds, PTL DEF Spec

HolderInTurn == InTurn /\ ~crossed => HolderInv

LEMMA HolderHolds ==
  ASSUME Runs <= 2
  PROVE  Spec => []HolderInTurn
<1>1. Init => HolderInTurn
  BY HolderStart DEF HolderInTurn
<1>2. /\ WorkflowsInv /\ StageInv /\ DueInv /\ OwnInv /\ HistoryInv
      /\ TurnInv /\ FreshInTurn /\ HolderInTurn /\ [Next]_vars
      => HolderInTurn'
  <2> SUFFICES ASSUME WorkflowsInv, StageInv, DueInv, OwnInv, HistoryInv,
                      TurnInv, FreshInTurn, HolderInTurn, [Next]_vars
               PROVE  HolderInTurn'
    OBVIOUS
  <2>1. program' = program
    BY RowsMove
  <2>2. InTurn' = InTurn
    BY <2>1, PlacesStay
  <2>3. ~crossed' => Straight /\ ~crossed
    BY StraightSoFar DEF Straight
  <2> QED
    BY <2>1, <2>2, <2>3, HolderKept DEF HolderInTurn, FreshInTurn, TurnInv
<1> QED
  BY <1>1, <1>2, TypesHold, DueHolds, OwnHolds, HistoryHolds, TurnHolds,
     FreshHolds, PTL DEF Spec

\* Only the server gives a lease, to the execute whose call it answers.
LEMMA GrantServed ==
  ASSUME WorkflowsInv, DueInv, OwnInv, HistoryInv, InTurn, Straight,
         [Next]_vars,
         NEW r \in Run, NEW t \in Task, Grants(r, t)
  PROVE  /\ exec[r][t].pc = "leasing" /\ ~Answered(r, t)
         /\ RowOf(t) = None
         /\ EntryOf(t) = None \/ Left(t) <= 0
<1>1. t \in Activity /\ t \notin Flow
  BY TaskIs DEF Activity, WorkflowsInv, StateInv
<1>2. /\ Pending(r, t) /\ call'[r][t] # None
      /\ call'[r][t].answer # None /\ call'[r][t].answer.kind = "granted"
  BY DEF Grants
<1>3. call'[r][t] # call[r][t] /\ call'[r][t].answer # Unavailable
  BY <1>2 DEF Pending, Unavailable
<1>4. ASSUME NEW x \in Run, NEW u \in Task, TaskMove(x, u)
      PROVE  FALSE
  <2>1. x = r /\ u = t
    BY <1>1, <1>3, <1>4 DEF TaskMove
  <2>2. call'[r][t] = None \/ call'[r][t].answer = None
    <3>1. \/ KeyCalls(r, t) \/ KeyTold(r, t) \/ LeaseCalls(r, t)
          \/ LeaseTold(r, t) \/ Finishes(r, t) \/ Releases(r, t)
          \/ Lets(r, t) \/ SaveCalls(r, t) \/ SaveTold(r, t) \/ GivesUp(r, t)
          \/ Rejects(r, t)
      BY <1>4, <2>1 DEF TaskMove
    <3> QED
      BY <3>1 DEF KeyCalls, KeyTold, LeaseCalls, LeaseTold, Finishes, Releases,
         Lets, SaveCalls, SaveTold, GivesUp, Rejects, Asked
  <2> QED
    BY <1>2, <2>2
<1>5. CASE \/ \E x \in Run, v \in Flow : FlowMove(x, v) \/ StepMove(x, v)
           \/ \E x \in Run : CrashMove(x)
           \/ EvictMove \/ RestartMove \/ TickMove \/ JobMove
           \/ UNCHANGED vars
  BY <1>1, <1>2, <1>3, <1>5 DEF FlowMove, StepMove, CrashMove, EvictMove,
     RestartMove, TickMove, JobMove, vars
<1>6. ASSUME NEW x \in Run, NEW a \in Activity, ServerMove(x, a)
      PROVE  /\ exec[r][t].pc = "leasing" /\ ~Answered(r, t)
             /\ RowOf(t) = None
             /\ EntryOf(t) = None \/ Left(t) <= 0
  <2>1. x = r /\ a = t
    BY <1>1, <1>3, <1>6 DEF ServerMove, Told
  <2>2. Alive(r, t) /\ exec[r][t].pc # "crashed"
    BY <1>1, <1>2, <1>6, <2>1 DEF ServerMove, Told, Alive
  <2>3. ~Told(r, t, Unavailable)
    BY <1>3, <2>2 DEF Told
  <2>4. PICK reply : Served(r, t, reply) /\ Told(r, t, reply)
    BY <1>6, <2>1, <2>3 DEF ServerMove
  <2>5. reply.kind = "granted"
    BY <1>2, <2>2, <2>4 DEF Told
  <2>6. /\ call[r][t].request.rpc = "lease" /\ RowOf(t) = None
        /\ EntryOf(t) = None \/ Left(t) <= 0
    BY <2>4, <2>5 DEF Served, TaskServed, Saved
  <2> QED
    BY <1>2, <2>2, <2>6, WhatAwaits DEF TaskAwaits
<1> QED
  BY <1>4, <1>5, <1>6, Moves

LEMMA HolderStep ==
  ASSUME Runs <= 2 \/ program.runs # "overlap",
         WorkflowsInv, DueInv, OwnInv, HistoryInv, TurnInv, FreshInTurn,
         Runs <= 2 => HolderInTurn, [Next]_vars, InTurn, ~crossed, Straight,
         NEW r \in Run, NEW s \in Run, NEW t \in Task,
         r # s, Grants(r, t), Holds(s, t)
  PROVE  held[s][t] - now < Second
<1>1. /\ exec[r][t].pc = "leasing" /\ ~Answered(r, t)
      /\ RowOf(t) = None
      /\ EntryOf(t) = None \/ Left(t) <= 0
  BY GrantServed
<1>2. GoingInv /\ NestInv /\ RetryInv /\ FlowOf(t) \in Flow
  BY TaskIs DEF TurnInv, WorkflowsInv, StateInv
<1>3. flow[r][FlowOf(t)].pc = "going" /\ flow[s][FlowOf(t)].pc = "going"
  BY <1>1, <1>2 DEF GoingInv, Busy, Holds, Working
<1>4. CASE program.runs # "overlap"
  BY <1>2, <1>3, <1>4, OneRunner DEF Open
<1>5. CASE Runs <= 2
  <2>1. \A x \in Run : x = r \/ x = s
    BY <1>5, WorkflowsAssumption DEF Run
  <2>2. Fresh(FlowOf(t)) /\ MayLease(r, t)
    BY <1>1, <1>3, <2>1 DEF Fresh, MayLease, Holds, Working
  <2>3. held[s][t] \in Nat /\ now \in Nat /\ Second \in Nat
    BY TtlAssumption DEF HistoryInv, WorkflowsInv, StateInv
  <2>4. SUFFICES ASSUME held[s][t] - now >= Second PROVE FALSE
    BY <2>3
  <2>5. LeaseOf(s, t)
    BY <1>1, <1>5, <2>2, <2>4 DEF HolderInTurn, HolderInv
  <2>6. Left(t) > 0 /\ EntryOf(t) # None
    BY <2>4, <2>5, LeaseStands DEF LeaseOf
  <2>7. Left(t) \in Int
    BY <2>6, EntryIs DEF Left, RemainingLease, WorkflowsInv, StateInv
  <2> QED
    BY <1>1, <2>6, <2>7
<1> QED
  BY <1>4, <1>5

\* Nobody is given the lease of a task at which another execute is at work
\* with a second of its own left, whatever happens to the answers, the workers
\* and the server, if at most two runs are under way at a time and each call
\* is handled without another one in its midst.
THEOREM OneHolderAtATime ==
  ASSUME Runs <= 2 \/ \A p \in Explored : p.runs # "overlap"
  PROVE  Spec => OneHolder
<1>1. ASSUME WorkflowsInv, StageInv, DueInv, OwnInv, HistoryInv, TurnInv,
             FreshInTurn, Runs <= 2 => HolderInTurn, [Next]_vars
      PROVE  InTurn /\ ~crossed => \A r, s \in Run, t \in Task :
               r # s /\ Grants(r, t) /\ Holds(s, t) => held[s][t] - now < Second
  <2>1. Runs <= 2 \/ program.runs # "overlap"
    BY <1>1 DEF WorkflowsInv, StateInv
  <2>2. ASSUME ~crossed, NEW r \in Run, NEW t \in Task, Grants(r, t)
        PROVE  Straight
    <3>1. \E o : Effect(r, t, o)
      BY <1>1, <2>2, WhoGrants DEF OwnInv
    <3> QED
      BY <1>1, <2>2, <3>1 DEF Effect, Straight
  <2> QED
    BY <1>1, <2>1, <2>2, HolderStep
<1>2. Spec => [](Runs <= 2 => HolderInTurn)
  <2>1. CASE Runs <= 2
    <3>1. Spec => []HolderInTurn
      BY <2>1, HolderHolds
    <3>2. HolderInTurn => (Runs <= 2 => HolderInTurn)
      OBVIOUS
    <3> QED
      BY <3>1, <3>2, PTL
  <2>2. CASE ~(Runs <= 2)
    BY <2>2, PTL
  <2> QED
    BY <2>1, <2>2
<1> QED
  BY <1>1, <1>2, TypesHold, DueHolds, OwnHolds, HistoryHolds, TurnHolds,
     FreshHolds, PTL DEF Spec, OneHolder
-----------------------------------------------------------------------------
(* What becomes of a program that nothing disturbs.                        *)

\* Executes are called in turn, and no lease of a run is released while
\* another run is under way.
Plain(p) ==
  /\ OneByOne(p)
  /\ p.runs # "overlap" \/ (p.throws = {} /\ DOMAIN p.inner = {})

\* Nobody has crashed and the cleanup job has done nothing yet.
QuietInv ==
  /\ \A r \in Run, w \in Flow : flow[r][w].pc # "crashed"
  /\ job # None => job.todo = {"tokens", "checkpoints"}

CalmServer(r, a) ==
  /\ UNCHANGED <<program, flow, exec, now, finished>>
  /\ Pending(r, a) /\ Alive(r, a)
  /\ \E reply : Served(r, a, reply) /\ Told(r, a, reply)

CalmTick ==
  /\ TickMove
  /\ \A r \in Run, t \in Task : Holds(r, t) => held[r][t] - now' >= Second

JobStarts ==
  /\ UNCHANGED <<program, stores, flow, exec, call, now, finished, held>>
  /\ job'.todo = {"tokens", "checkpoints"}

\* The steps that leave the program undisturbed.
CalmMove ==
  \/ \E r \in Run, w \in Flow :
       /\ FlowMove(r, w)
       /\ flow[r][w].pc = "off" => Summons(r, w)
  \/ \E r \in Run, w \in Flow : StepMove(r, w)
  \/ \E r \in Run, t \in Task : TaskMove(r, t)
  \/ \E r \in Run, a \in Activity : CalmServer(r, a)
  \/ EvictMove /\ job' = job
  \/ CalmTick /\ job' = job
  \/ JobStarts
  \/ UNCHANGED vars

LEMMA CalmMoves ==
  ASSUME WorkflowsInv, DueInv, OwnInv, HistoryInv, InTurn, Straight,
         [Next]_vars,
         ~disturbed', ~disturbed => QuietInv
  PROVE  ~disturbed /\ CalmMove
<1>1. ASSUME NEW r \in Run, NEW w \in Flow, FlowMove(r, w) \/ StepMove(r, w)
      PROVE  ~disturbed
  BY <1>1 DEF FlowMove, StepMove, history
<1>2. ASSUME NEW r \in Run, NEW t \in Task, TaskMove(r, t)
      PROVE  ~disturbed
  BY <1>2 DEF TaskMove, KeyCalls, KeyTold, LeaseCalls, LeaseTold, Finishes,
     Releases, Lets, SaveCalls, SaveTold, GivesUp, Rejects
<1>3. ASSUME NEW r \in Run, CrashMove(r)
      PROVE  FALSE
  BY <1>3 DEF CrashMove
<1>4. ASSUME NEW r \in Run, NEW a \in Activity, ServerMove(r, a)
      PROVE  ~disturbed /\ CalmServer(r, a)
  <2>1. ~disturbed
    BY <1>4 DEF ServerMove
  <2>2. Alive(r, a)
    <3>1. "outer" \in Flow
      BY ProgramIs DEF WorkflowsInv, StateInv
    <3> QED
      BY <2>1, <3>1 DEF QuietInv, Alive, Activity, WorkflowsInv, CrashInv
  <2> QED
    BY <1>4, <2>1, <2>2 DEF ServerMove, CalmServer
<1>5. ASSUME EvictMove
      PROVE  ~disturbed /\ job' = job
  BY <1>5 DEF EvictMove, history
<1>6. ASSUME TickMove
      PROVE  ~disturbed /\ CalmTick /\ job' = job
  <2>1. /\ ~disturbed /\ job' = job
        /\ \A r \in Run, t \in Task :
             Holds(r, t) => ~(held[r][t] - now' < Second)
    BY <1>6 DEF TickMove
  <2>2. now' \in Int /\ Second \in Int
    BY <1>6, TtlAssumption DEF TickMove, WorkflowsInv, StateInv
  <2>3. \A r \in Run, t \in Task : held[r][t] \in Int
    BY DEF HistoryInv
  <2>4. \A r \in Run, t \in Task : Holds(r, t) => held[r][t] - now' >= Second
    BY <2>1, <2>2, <2>3
  <2> QED
    BY <1>6, <2>1, <2>4 DEF CalmTick
<1>7. ASSUME JobMove
      PROVE  ~disturbed /\ JobStarts
  <2>1. ~disturbed
    BY <1>7 DEF JobMove, QuietInv
  <2>2. ~(job # None /\ job.todo = {})
    BY <2>1 DEF QuietInv
  <2> QED
    BY <1>7, <2>1, <2>2 DEF JobMove, JobStarts
<1>8. CASE RestartMove
  BY <1>8 DEF RestartMove
<1>9. CASE UNCHANGED vars
  BY <1>9 DEF vars, history, CalmMove
<1> QED
  BY <1>1, <1>2, <1>3, <1>4, <1>5, <1>6, <1>7, <1>8, <1>9, Moves DEF CalmMove

LEMMA QuietKept ==
  ASSUME WorkflowsInv, DueInv, OwnInv, HistoryInv, InTurn, Straight,
         [Next]_vars,
         program' = program, ~disturbed', ~disturbed => QuietInv
  PROVE  QuietInv'
<1>1. Flow' = Flow /\ ~disturbed
  BY PlacesStay, CalmMoves
<1>2. /\ \A r \in Run, w \in Flow : flow[r][w].pc # "crashed"
      /\ job # None => job.todo = {"tokens", "checkpoints"}
  BY <1>1 DEF QuietInv
<1>3. ASSUME NEW r \in Run, NEW w \in Flow, FlowMove(r, w)
      PROVE  QuietInv'
  <2>1. \A s \in Run, v \in Flow : flow'[s][v].pc # "crashed"
    BY <1>2, <1>3 DEF FlowMove, FlowOpens, FlowStarts, FlowStops, FlowCloses
  <2>2. job' = job
    BY <1>3 DEF FlowMove
  <2> QED
    BY <1>1, <1>2, <2>1, <2>2 DEF QuietInv
<1>4. CASE \/ \E r \in Run, w \in Flow : StepMove(r, w)
           \/ \E r \in Run, t \in Task : TaskMove(r, t)
  BY <1>1, <1>2, <1>4 DEF StepMove, TaskMove, QuietInv
<1>5. ASSUME \/ \E r \in Run, a \in Activity : ServerMove(r, a)
             \/ EvictMove \/ TickMove \/ UNCHANGED vars
      PROVE  QuietInv'
  BY <1>1, <1>2, <1>5 DEF ServerMove, EvictMove, TickMove, vars, QuietInv
<1>6. CASE JobStarts
  BY <1>1, <1>2, <1>6 DEF JobStarts, QuietInv
<1>7. ASSUME JobMove
      PROVE  JobStarts
  BY <1>1, <1>2, <1>7 DEF JobMove, JobStarts
<1>8. CASE (\E r \in Run : CrashMove(r)) \/ RestartMove
  BY <1>8 DEF CrashMove, RestartMove
<1> QED
  BY <1>3, <1>4, <1>5, <1>6, <1>7, <1>8, Moves

\* Whoever has started a workflow function has a token in the store.
TokensInv ==
  \A r \in Run, w \in Flow :
    \/ flow[r][w].pc \notin {"off", "starting", "failed"}
    \/ flow[r][w].pc = "starting" /\ Answered(r, w)
    => /\ stores[w].fencingToken # None
       /\ flow[r][w].pc = "starting" => Answer(r, w).kind = "token"

LEMMA TokenServed ==
  ASSUME WorkflowsInv, NEW r \in Run, NEW a \in Activity, NEW reply,
         Served(r, a, reply), NEW w \in Flow
  PROVE  /\ stores[w].fencingToken # None => stores'[w].fencingToken # None
         /\ a # w => stores'[w].fencingToken = stores[w].fencingToken
<1>1. CASE a \in Task
  BY <1>1, TaskIs DEF Served, TaskServed
<1>2. CASE a \in Flow
  BY <1>2 DEF Served, FlowServed
<1> QED
  BY <1>1, <1>2 DEF Activity

\* What awaits an answer, in a workflow function.
LEMMA WhatFlowAwaits ==
  ASSUME WorkflowsInv, NEW r \in Run, NEW w \in Flow, call[r][w] # None,
         flow[r][w].pc # "crashed"
  PROVE  FlowAwaits(flow[r][w].pc, call[r][w].request.rpc)
BY DEF WorkflowsInv, CallsInv, FlowCallOK

LEMMA TokensStart == Init => TokensInv
BY DEF Init, TokensInv, Answered

LEMMA TokensKept ==
  ASSUME WorkflowsInv, DueInv, OwnInv, HistoryInv, InTurn, Straight,
         [Next]_vars,
         program' = program, ~disturbed', ~disturbed => QuietInv, TokensInv
  PROVE  TokensInv'
<1>1. Flow' = Flow /\ program \in Explored
  BY PlacesStay DEF WorkflowsInv, StateInv
<1>2. SUFFICES ASSUME NEW s \in Run, NEW v \in Flow,
                      \/ flow'[s][v].pc \notin {"off", "starting", "failed"}
                      \/ flow'[s][v].pc = "starting" /\ Answered(s, v)'
               PROVE  /\ stores'[v].fencingToken # None
                      /\ flow'[s][v].pc = "starting" =>
                           Answer(s, v)'.kind = "token"
  BY <1>1 DEF TokensInv
<1> DEFINE Good == /\ stores'[v].fencingToken # None
                   /\ flow'[s][v].pc = "starting" =>
                        Answer(s, v)'.kind = "token"
<1>3. \/ flow[s][v].pc \notin {"off", "starting", "failed"}
      \/ flow[s][v].pc = "starting" /\ Answered(s, v)
      => /\ stores[v].fencingToken # None
         /\ flow[s][v].pc = "starting" => Answer(s, v).kind = "token"
  BY DEF TokensInv
<1>4. v \in Activity /\ v \notin Task
  BY <1>1, FlowIs DEF Activity
<1>5. ASSUME stores'[v].fencingToken = stores[v].fencingToken,
             flow'[s][v].pc = flow[s][v].pc, call'[s][v] = call[s][v]
      PROVE  Good
  BY <1>2, <1>3, <1>5 DEF Answered, Answer
<1> HIDE DEF Good
<1>6. ASSUME NEW r \in Run, NEW w \in Flow, FlowMove(r, w)
      PROVE  Good
  <2>1. stores' = stores
    BY <1>6 DEF FlowMove
  <2>2. CASE <<r, w>> # <<s, v>>
    BY <1>4, <1>5, <1>6, <2>1, <2>2 DEF FlowMove
  <2>3. CASE <<r, w>> = <<s, v>>
    <3>1. CASE FlowOpens(r, w)
      BY <1>2, <2>3, <3>1 DEF FlowOpens, Answered
    <3>2. CASE FlowStarts(r, w) \/ FlowStops(r, w) \/ FlowCloses(r, w)
      BY <1>3, <2>1, <2>3, <3>2 DEF FlowStarts, FlowStops, FlowCloses, Good
    <3> QED
      BY <1>6, <2>3, <3>1, <3>2 DEF FlowMove
  <2> QED
    BY <2>2, <2>3
<1>7. ASSUME NEW r \in Run, NEW a \in Activity, CalmServer(r, a)
      PROVE  Good
  <2>1. PICK reply : Served(r, a, reply) /\ Told(r, a, reply)
    BY <1>7 DEF CalmServer
  <2>2. flow' = flow /\ Pending(r, a) /\ Alive(r, a)
    BY <1>7 DEF CalmServer
  <2>3. stores[v].fencingToken # None => stores'[v].fencingToken # None
    BY <2>1, TokenServed
  <2>4. CASE <<r, a>> # <<s, v>>
    <3>1. call'[s][v] = call[s][v]
      BY <1>4, <2>1, <2>4 DEF Told
    <3> QED
      BY <1>2, <1>3, <2>2, <2>3, <3>1 DEF Good, Answered, Answer
  <2>5. CASE <<r, a>> = <<s, v>> /\ flow[s][v].pc = "starting"
    <3>1. call[s][v].request.rpc = "start"
      BY <2>2, <2>5, WhatFlowAwaits DEF FlowAwaits, Pending
    <3>2. stores'[v].fencingToken # None /\ reply.kind = "token"
      BY <2>1, <2>5, <3>1 DEF Served, FlowServed
    <3> QED
      BY <2>1, <2>2, <2>5, <3>2 DEF Told, Answer, Good
  <2>6. CASE <<r, a>> = <<s, v>> /\ flow[s][v].pc # "starting"
    BY <1>2, <1>3, <2>2, <2>3, <2>6 DEF Good
  <2> QED
    BY <2>4, <2>5, <2>6
<1>8. CASE \/ \E r \in Run, w \in Flow : StepMove(r, w)
           \/ \E r \in Run, t \in Task : TaskMove(r, t)
           \/ EvictMove \/ CalmTick \/ JobStarts \/ UNCHANGED vars
  <2>1. /\ stores'[v].fencingToken = stores[v].fencingToken
        /\ flow'[s][v].pc = flow[s][v].pc
    BY <1>8 DEF StepMove, TaskMove, EvictMove, CalmTick, TickMove, JobStarts,
       vars
  <2>2. call'[s][v] = call[s][v]
    BY <1>4, <1>8 DEF StepMove, TaskMove, EvictMove, CalmTick, TickMove,
       JobStarts, vars
  <2> QED
    BY <1>5, <2>1, <2>2 DEF Good
<1> QED
  BY <1>6, <1>7, <1>8, CalmMoves DEF Good, CalmMove

\* A step as one task sees it: an execute of it moves, or the server answers
\* one, or its lease leaves the cache, or time passes; else nothing happens but
\* that an execute of it may begin.
SameTask(s, t) ==
  /\ exec'[s][t] = exec[s][t] \/ Enters(s, t)
  /\ call'[s][t] = call[s][t] /\ held'[s][t] = held[s][t]

Rests(t) ==
  /\ Untouched(t) /\ now' = now
  /\ stores'[FlowOf(t)].fencingToken = stores[FlowOf(t)].fencingToken

TaskView(t) ==
  \/ \E r \in Run : /\ TaskMove(r, t) /\ Rests(t)
                    /\ \A s \in Run \ {r} : SameTask(s, t)
  \/ \E r \in Run : /\ CalmServer(r, t) /\ exec' = exec /\ now' = now
                    /\ finished' = finished
                    /\ \A s \in Run \ {r} : SameTask(s, t)
  \/ EvictMove
  \/ CalmTick
  \/ /\ Untouched(t) /\ now' = now /\ finished'[t] = finished[t]
     /\ \A s \in Run : SameTask(s, t)

LEMMA TaskViewed ==
  ASSUME WorkflowsInv, DueInv, OwnInv, HistoryInv, InTurn, Straight,
         [Next]_vars,
         program' = program, ~disturbed', ~disturbed => QuietInv,
         NEW t \in Task
  PROVE  TaskView(t)
<1>1. /\ t \in Activity /\ t \notin Flow
      /\ FlowOf(t)' = FlowOf(t) /\ Place(t)' = Place(t)
  BY TaskIs, PlacesStay DEF Activity, WorkflowsInv, StateInv
<1>2. ASSUME stores' = stores
      PROVE  /\ Untouched(t)
             /\ stores'[FlowOf(t)].fencingToken = stores[FlowOf(t)].fencingToken
  BY <1>1, <1>2 DEF Untouched, RowOf, EntryOf
<1>3. ASSUME NEW r \in Run, NEW w \in Flow, FlowMove(r, w)
      PROVE  TaskView(t)
  BY <1>1, <1>2, <1>3 DEF FlowMove, history, TaskView, SameTask
<1>4. ASSUME NEW r \in Run, NEW w \in Flow, StepMove(r, w)
      PROVE  TaskView(t)
  BY <1>2, <1>4 DEF StepMove, history, TaskView, SameTask
<1>5. ASSUME NEW r \in Run, NEW u \in Task, TaskMove(r, u)
      PROVE  TaskView(t)
  <2>1. stores' = stores /\ now' = now
    BY <1>5 DEF TaskMove
  <2>2. \A s \in Run : <<s, t>> # <<r, u>> => SameTask(s, t)
    BY <1>1, <1>5 DEF TaskMove, SameTask
  <2>3. CASE u = t
    BY <1>2, <1>5, <2>1, <2>2, <2>3 DEF TaskView, Rests
  <2>4. CASE u # t
    <3>1. finished'[t] = finished[t]
      BY <1>5, <2>4 DEF TaskMove
    <3> QED
      BY <1>2, <2>1, <2>2, <2>4, <3>1 DEF TaskView
  <2> QED
    BY <2>3, <2>4
<1>6. ASSUME NEW r \in Run, NEW a \in Activity, CalmServer(r, a)
      PROVE  TaskView(t)
  <2>1. PICK reply : Served(r, a, reply) /\ Told(r, a, reply)
    BY <1>6 DEF CalmServer
  <2>2. exec' = exec /\ now' = now /\ finished' = finished
    BY <1>6 DEF CalmServer
  <2>3. \A s \in Run : <<s, t>> # <<r, a>> => SameTask(s, t)
    BY <1>1, <2>1, <2>2 DEF Served, Told, SameTask
  <2>4. CASE a = t
    BY <1>6, <2>2, <2>3, <2>4 DEF TaskView
  <2>5. CASE a # t
    <3>1. Untouched(t)
      BY <2>1, <2>5 DEF Served, FlowServed, TaskServed, Activity
    <3> QED
      BY <2>2, <2>3, <2>5, <3>1 DEF TaskView
  <2> QED
    BY <2>4, <2>5
<1>7. CASE EvictMove \/ CalmTick
  BY <1>7 DEF TaskView
<1>8. CASE JobStarts \/ UNCHANGED vars
  BY <1>2, <1>8 DEF JobStarts, vars, history, TaskView, SameTask
<1> QED
  BY <1>3, <1>4, <1>5, <1>6, <1>7, <1>8, CalmMoves DEF CalmMove

\* No result is lost.
LEMMA RowStays ==
  ASSUME NEW t \in Task, TaskView(t), RowOf(t) # None
  PROVE  RowOf(t)' # None
<1>1. ASSUME NEW r \in Run, CalmServer(r, t)
      PROVE  RowOf(t)' # None
  <2>1. PICK reply : TaskServed(r, t, reply)
    BY <1>1 DEF CalmServer, Served
  <2> QED
    BY <2>1 DEF TaskServed, Untouched
<1>2. CASE Untouched(t) \/ EvictMove
  BY <1>2 DEF Untouched, EvictMove
<1>3. CASE CalmTick
  BY <1>3, PlacesStay DEF CalmTick, TickMove, RowOf
<1> QED
  BY <1>1, <1>2, <1>3 DEF TaskView, Rests

\* An execute with a key of the server goes on when the key is stored.
KeyPart(t) ==
  \A s \in Run :
    /\ exec[s][t].pc = "keying" => t \in program.generated
    /\ /\ t \in program.generated
       /\ \/ exec[s][t].key # t \/ exec[s][t].pc \in {"leasing"} \cup Working
          \/ /\ exec[s][t].pc = "keying" /\ Answered(s, t)
             /\ Answer(s, t).kind = "key"
       => RowOf(t) # None

LEMMA KeyPartStart == Init => \A t \in Task : KeyPart(t)
BY DEF Init, KeyPart, Working

LEMMA KeyPartKept ==
  ASSUME WorkflowsInv, InTurn, program' = program, QuietInv, NEW t \in Task,
         TaskView(t), KeyPart(t)
  PROVE  KeyPart(t)'
<1>1. SUFFICES ASSUME NEW s \in Run
               PROVE  /\ exec'[s][t].pc = "keying" => t \in program.generated
                      /\ /\ t \in program.generated
                         /\ \/ exec'[s][t].key # t
                            \/ exec'[s][t].pc \in {"leasing"} \cup Working
                            \/ /\ exec'[s][t].pc = "keying" /\ Answered(s, t)'
                               /\ Answer(s, t)'.kind = "key"
                         => RowOf(t)' # None
  BY DEF KeyPart
<1> DEFINE Good == /\ exec'[s][t].pc = "keying" => t \in program.generated
                   /\ /\ t \in program.generated
                      /\ \/ exec'[s][t].key # t
                         \/ exec'[s][t].pc \in {"leasing"} \cup Working
                         \/ /\ exec'[s][t].pc = "keying" /\ Answered(s, t)'
                            /\ Answer(s, t)'.kind = "key"
                      => RowOf(t)' # None
           Waits == /\ exec[s][t].pc = "keying" => t \in program.generated
                    /\ /\ t \in program.generated
                       /\ \/ exec[s][t].key # t
                          \/ exec[s][t].pc \in {"leasing"} \cup Working
                          \/ /\ exec[s][t].pc = "keying" /\ Answered(s, t)
                             /\ Answer(s, t).kind = "key"
                       => RowOf(t) # None
<1>2. Waits
  BY DEF KeyPart
<1>3. RowOf(t) # None => RowOf(t)' # None
  BY RowStays
<1>4. ASSUME SameTask(s, t)
      PROVE  Good
  <2>1. CASE exec'[s][t] = exec[s][t]
    BY <1>2, <1>3, <1>4, <2>1 DEF SameTask, Answered, Answer
  <2>2. CASE Enters(s, t)
    BY <1>2, <1>3, <2>2 DEF Enters, Working
  <2> QED
    BY <1>4, <2>1, <2>2 DEF SameTask
<1>5. ASSUME TaskMove(s, t)
      PROVE  Good
  <2>1. CASE KeyCalls(s, t)
    BY <1>2, <1>3, <2>1 DEF KeyCalls, Stays, Asked, Answered, Working
  <2>2. CASE KeyTold(s, t)
    <3>1. /\ exec[s][t].pc = "keying" /\ call[s][t] # None
          /\ call[s][t].answer # None
      BY <2>2 DEF KeyTold, Answered
    <3>2. Answer(s, t).kind \in {"key", "error"}
      BY <3>1 DEF WorkflowsInv, CallsInv, TaskCallOK, TaskAwaits, AnswerOK,
         Answer
    <3>3. CASE Answer(s, t).kind = "error"
      BY <1>2, <1>3, <2>2, <3>3 DEF KeyTold, Working
    <3>4. CASE Answer(s, t).kind = "key"
      BY <1>2, <1>3, <2>2, <3>4 DEF KeyTold
    <3> QED
      BY <3>2, <3>3, <3>4
  <2>3. CASE LeaseCalls(s, t)
    BY <1>2, <1>3, <2>3 DEF LeaseCalls, Stays
  <2>4. CASE LeaseTold(s, t)
    BY <1>2, <1>3, <2>4 DEF LeaseTold, Stays, Stops
  <2>5. CASE Finishes(s, t) \/ Releases(s, t) \/ Lets(s, t)
    BY <1>2, <1>3, <2>5 DEF Finishes, Releases, Lets, Stays, Stops, Working
  <2>6. CASE SaveCalls(s, t) \/ SaveTold(s, t) \/ GivesUp(s, t)
    BY <1>2, <1>3, <2>6 DEF SaveCalls, SaveTold, GivesUp, Stays, Stops, Working
  <2>7. CASE Rejects(s, t)
    BY <1>2, <1>3, <2>7 DEF Rejects, Working
  <2> QED
    BY <1>5, <2>1, <2>2, <2>3, <2>4, <2>5, <2>6, <2>7 DEF TaskMove
<1>6. ASSUME CalmServer(s, t), exec' = exec
      PROVE  Good
  <2>1. PICK reply : TaskServed(s, t, reply) /\ Told(s, t, reply)
    BY <1>6 DEF CalmServer, Served
  <2>2. Answer(s, t)' = reply /\ Pending(s, t)
    BY <1>6, <2>1 DEF CalmServer, Told, Answer
  <2>3. CASE exec[s][t].pc = "keying"
    <3>1. call[s][t].request.rpc = "key"
      BY <2>2, <2>3, WhatAwaits DEF TaskAwaits
    <3>2. reply.kind = "key" => RowOf(t)' # None
      BY <2>1, <3>1 DEF TaskServed
    <3> QED
      BY <1>2, <1>3, <1>6, <2>2, <2>3, <3>2 DEF Working
  <2>4. CASE exec[s][t].pc # "keying"
    BY <1>2, <1>3, <1>6, <2>4
  <2> QED
    BY <2>3, <2>4
<1>7. ASSUME EvictMove \/ CalmTick
      PROVE  Good
  BY <1>2, <1>3, <1>7 DEF EvictMove, CalmTick, TickMove, Answered, Answer
<1> HIDE DEF Good, Waits
<1>8. Good
  BY <1>4, <1>5, <1>6, <1>7 DEF TaskView
<1> QED
  BY <1>8 DEF Good

\* The lease of an execute is not nearly over.
Ahead(s, t) ==
  \/ held[s][t] - now >= Second
  \/ held[s][t] - now = Leases(program, t)

\* The task is under way, or its result not with the server yet.
Unsaved(s, t) ==
  Holds(s, t) /\ ~(exec[s][t].pc = "checkpointing" /\ Answered(s, t))

\* Whoever has a lease has it in the cache until the result is there, and gets
\* there before the lease is over.
HeldPart(s, t) ==
  /\ Holds(s, t) => Ahead(s, t)
  /\ Unsaved(s, t) => /\ RowOf(t) = None /\ LeaseOf(s, t)
                      /\ EntryOf(t).lease_timeout = Leases(program, t)
  /\ exec[s][t].pc = "checkpointing" /\ Answered(s, t) =>
       RowOf(t) # None /\ Answer(s, t).kind = "saved"
  /\ exec[s][t].pc \in Working => held[s][t] <= exec[s][t].expiry
  /\ exec[s][t].pc = "leasing" /\ Holds(s, t) =>
       held[s][t] <= now + Leases(program, t)
  /\ call[s][t] # None =>
       call[s][t].request.lease_timeout = Leases(program, t)
  /\ exec[s][t].pc = "releasing" => program.runs # "overlap"

\* One execute at a time.
LeasePart(t) ==
  /\ \A s \in Run : HeldPart(s, t)
  /\ \A r, s \in Run : Unsaved(r, t) /\ Unsaved(s, t) => r = s

LEMMA LeasesIs ==
  ASSUME DefaultLease > 0, ShortLease > 0, NEW t
  PROVE  Leases(program, t) \in Nat /\ Leases(program, t) > 0
BY WorkflowsAssumption DEF Leases

LEMMA UnsavedStands ==
  ASSUME DefaultLease > 0, ShortLease > 0,
         WorkflowsInv, HistoryInv, InTurn, NEW s \in Run, NEW t \in Task,
         HeldPart(s, t), Holds(s, t)
  PROVE  /\ held[s][t] > now
         /\ Unsaved(s, t) => Left(t) > 0 /\ ~Evictable(EntryOf(t), now)
<1>1. /\ held[s][t] \in Nat /\ now \in Nat /\ Second \in Nat \ {0}
      /\ Leases(program, t) \in Nat /\ Leases(program, t) > 0
  BY LeasesIs, TtlAssumption DEF HistoryInv, WorkflowsInv, StateInv
<1>2. Ahead(s, t)
  BY DEF HeldPart
<1>3. held[s][t] > now
  BY <1>1, <1>2 DEF Ahead
<1>4. ASSUME Unsaved(s, t)
      PROVE  Left(t) > 0 /\ ~Evictable(EntryOf(t), now)
  <2>1. LeaseOf(s, t) /\ EntryOf(t).lease_timeout = Leases(program, t)
    BY <1>4 DEF HeldPart
  <2>2. /\ EntryOf(t).created_at \in Nat /\ EntryOf(t).lease_timeout \in Nat
        /\ EntryOf(t).created_at + EntryOf(t).lease_timeout = held[s][t]
    BY <2>1, EntryIs DEF LeaseOf
  <2>3. CASE held[s][t] - now >= Second
    BY <2>1, <2>3, LeaseStands
  <2>4. CASE held[s][t] - now = Leases(program, t)
    <3>1. EntryOf(t).created_at = now
      BY <1>1, <2>1, <2>2, <2>4
    <3>2. CacheTtl(EntryOf(t).lease_timeout) \in Nat \ {0}
      BY <2>2, TtlIs
    <3> QED
      BY <1>1, <2>2, <3>1, <3>2, <1>3 DEF Left, RemainingLease, Evictable
  <2> QED
    BY <1>2, <2>3, <2>4 DEF Ahead
<1> QED
  BY <1>3, <1>4

\* An execute that does not move keeps its lease while nobody touches it.
LEMMA HeldSame ==
  ASSUME program' = program, NEW s \in Run, NEW t \in Task, HeldPart(s, t),
         SameTask(s, t), now' = now, RowOf(t) # None => RowOf(t)' # None,
         Unsaved(s, t) => Untouched(t)
  PROVE  HeldPart(s, t)' /\ (Unsaved(s, t)' <=> Unsaved(s, t))
<1>1. /\ call'[s][t] = call[s][t] /\ held'[s][t] = held[s][t]
      /\ Leases(program, t)' = Leases(program, t)
  BY DEF SameTask, Leases
<1>2. CASE exec'[s][t] = exec[s][t]
  <2>1. /\ Holds(s, t)' = Holds(s, t) /\ Answered(s, t)' = Answered(s, t)
        /\ Answer(s, t)' = Answer(s, t) /\ Unsaved(s, t)' = Unsaved(s, t)
        /\ Ahead(s, t)' = Ahead(s, t)
    BY <1>1, <1>2 DEF Holds, Answered, Answer, Unsaved, Ahead
  <2>2. Unsaved(s, t) => /\ RowOf(t)' = RowOf(t) /\ EntryOf(t)' = EntryOf(t)
                         /\ LeaseOf(s, t)' = LeaseOf(s, t)
    BY <1>1 DEF Untouched, LeaseOf
  <2> QED
    BY <1>1, <1>2, <2>1, <2>2 DEF HeldPart
<1>3. CASE Enters(s, t)
  <2>1. /\ exec[s][t].pc = "off" /\ exec'[s][t].pc = "ready"
    BY <1>3 DEF Enters
  <2>2. ~Holds(s, t)' /\ ~Unsaved(s, t)' /\ ~Unsaved(s, t)
    BY <2>1 DEF Holds, Working, Unsaved
  <2> QED
    BY <1>1, <2>1, <2>2 DEF HeldPart, Working
<1> QED
  BY <1>2, <1>3 DEF SameTask

LEMMA LeaseByTask ==
  ASSUME WorkflowsInv, Plain(program), program' = program, ~disturbed',
         NEW r \in Run, NEW t \in Task, LeasePart(t), TaskMove(r, t), Rests(t),
         \A s \in Run \ {r} : SameTask(s, t)
  PROVE  LeasePart(t)'
<1>1. /\ Untouched(t) /\ now' = now /\ now \in Nat
      /\ Leases(program, t)' = Leases(program, t)
      /\ Leases(program, t) \in Nat
  <2>1. Leases(program, t) \in Nat
    BY WorkflowsAssumption DEF Leases
  <2> QED
    BY <2>1 DEF Rests, Leases, WorkflowsInv, StateInv
<1>2. \A s \in Run \ {r} :
        HeldPart(s, t)' /\ (Unsaved(s, t)' <=> Unsaved(s, t))
  BY <1>1, HeldSame DEF LeasePart, Untouched
<1>3. HeldPart(r, t)
  BY DEF LeasePart
<1>4. HeldPart(r, t)' /\ (Unsaved(r, t)' => Unsaved(r, t))
  <2> DEFINE Free == /\ ~Holds(r, t)' /\ ~Unsaved(r, t)'
                     /\ exec'[r][t].pc \notin Working
  <2>1. ASSUME Free, call'[r][t] = None, exec'[r][t].pc # "releasing"
        PROVE  HeldPart(r, t)'
    BY <2>1 DEF HeldPart, Working
  <2>2. ASSUME NEW rpc, Asked(r, t, rpc)
        PROVE  /\ ~Answered(r, t)'
               /\ call'[r][t].request.lease_timeout = Leases(program, t)
    BY <2>2 DEF Asked, Answered, TaskCall
  <2>3. CASE KeyCalls(r, t)
    <3>1. exec'[r][t].pc = "keying"
      BY <2>3 DEF KeyCalls
    <3>2. Free
      BY <3>1 DEF Holds, Working, Unsaved
    <3> QED
      BY <1>1, <2>2, <2>3, <3>1, <3>2 DEF HeldPart, KeyCalls, Working
  <2>4. CASE LeaseCalls(r, t)
    <3>1. exec'[r][t].pc = "leasing" /\ ~Answered(r, t)'
      BY <2>2, <2>4 DEF LeaseCalls
    <3>2. Free
      BY <3>1 DEF Holds, Working, Unsaved
    <3> QED
      BY <1>1, <2>2, <2>4, <3>1, <3>2 DEF HeldPart, LeaseCalls, Working
  <2>5. CASE KeyTold(r, t) \/ Lets(r, t) \/ GivesUp(r, t)
    <3>1. /\ exec'[r][t].pc \in {"ready", "threw", "returned"}
          /\ call'[r][t] = None
      BY <2>5 DEF KeyTold, Lets, GivesUp, Stops
    <3>2. Free
      BY <3>1 DEF Holds, Working, Unsaved
    <3> QED
      BY <2>1, <3>1, <3>2
  <2>6. CASE LeaseTold(r, t) /\ exec'[r][t].pc # "running"
    <3>1. /\ exec'[r][t].pc \in {"ready", "threw", "returned"}
          /\ call'[r][t] = None
      BY <2>6 DEF LeaseTold, Stops
    <3>2. Free
      BY <3>1 DEF Holds, Working, Unsaved
    <3> QED
      BY <2>1, <3>1, <3>2
  <2>7. CASE LeaseTold(r, t) /\ exec'[r][t].pc = "running"
    <3>1. /\ exec[r][t].pc = "leasing" /\ Answered(r, t)
          /\ Answer(r, t).kind = "granted" /\ call'[r][t] = None
          /\ exec'[r][t].expiry = now + Leases(program, t)
          /\ held'[r][t] = held[r][t]
      BY <2>7 DEF LeaseTold, Stops
    <3>2. Holds(r, t) /\ Unsaved(r, t)
      BY <3>1 DEF Holds, Unsaved
    <3>3. /\ Ahead(r, t)' /\ LeaseOf(r, t)' /\ RowOf(t)' = None
          /\ EntryOf(t)'.lease_timeout = Leases(program, t)
          /\ held[r][t] <= now + Leases(program, t)
      BY <1>1, <1>3, <3>1, <3>2 DEF HeldPart, Ahead, LeaseOf, Untouched
    <3> QED
      BY <1>1, <2>7, <3>1, <3>2, <3>3 DEF HeldPart
  <2>8. CASE Finishes(r, t)
    <3>1. /\ exec[r][t].pc = "running" /\ exec'[r][t].pc = "saving"
          /\ exec'[r][t].expiry = exec[r][t].expiry
          /\ held'[r][t] = held[r][t] /\ call'[r][t] = None
      BY <2>8 DEF Finishes
    <3>2. Holds(r, t) /\ Unsaved(r, t)
      BY <3>1 DEF Holds, Unsaved, Working
    <3>3. /\ Ahead(r, t)' /\ LeaseOf(r, t)' /\ RowOf(t)' = None
          /\ EntryOf(t)'.lease_timeout = Leases(program, t)
          /\ held[r][t] <= exec[r][t].expiry
      BY <1>1, <1>3, <3>1, <3>2 DEF HeldPart, Ahead, LeaseOf, Untouched, Working
    <3> QED
      BY <1>1, <3>1, <3>2, <3>3 DEF HeldPart
  <2>9. CASE Releases(r, t)
    <3>1. exec'[r][t].pc = "releasing"
      BY <2>9 DEF Releases
    <3>2. Free
      BY <3>1 DEF Holds, Working, Unsaved
    <3>3. program.runs # "overlap"
      BY <2>9 DEF Releases, Plain, HasInner
    <3> QED
      BY <1>1, <2>2, <2>9, <3>1, <3>2, <3>3 DEF HeldPart, Releases, Working
  <2>10. CASE SaveCalls(r, t)
    <3>1. /\ exec[r][t].pc = "saving" /\ exec'[r][t].pc = "checkpointing"
          /\ exec'[r][t].expiry = exec[r][t].expiry
          /\ held'[r][t] = held[r][t]
      BY <2>10 DEF SaveCalls, Stays
    <3>2. Holds(r, t) /\ Unsaved(r, t)
      BY <3>1 DEF Holds, Unsaved, Working
    <3>3. /\ Ahead(r, t)' /\ LeaseOf(r, t)' /\ RowOf(t)' = None
          /\ EntryOf(t)'.lease_timeout = Leases(program, t)
          /\ held[r][t] <= exec[r][t].expiry
      BY <1>1, <1>3, <3>1, <3>2 DEF HeldPart, Ahead, LeaseOf, Untouched, Working
    <3>4. /\ ~Answered(r, t)'
          /\ call'[r][t].request.lease_timeout = Leases(program, t)
      BY <2>2, <2>10 DEF SaveCalls
    <3> QED
      BY <1>1, <3>1, <3>2, <3>3, <3>4 DEF HeldPart
  <2>11. CASE SaveTold(r, t)
    <3>1. /\ exec[r][t].pc = "checkpointing" /\ Answered(r, t)
          /\ call'[r][t] = None
      BY <2>11 DEF SaveTold
    <3>2. Answer(r, t).kind = "saved"
      BY <1>3, <3>1 DEF HeldPart
    <3>3. exec'[r][t].pc \in {"threw", "returned"}
      BY <2>11, <3>2 DEF SaveTold
    <3>4. Free
      BY <3>3 DEF Holds, Working, Unsaved
    <3> QED
      BY <2>1, <3>1, <3>3, <3>4
  <2>12. ~Rejects(r, t)
    BY DEF Rejects
  <2> QED
    BY <2>3, <2>4, <2>5, <2>6, <2>7, <2>8, <2>9, <2>10, <2>11, <2>12 DEF TaskMove
<1> QED
  BY <1>2, <1>4 DEF LeasePart

\* An execute gets a lease when nobody has one, and its result is accepted.
LEMMA LeaseByServer ==
  ASSUME DefaultLease > 0, ShortLease > 0, WorkflowsInv, HistoryInv, InTurn,
         GoingInv, NestInv, RetryInv, TokensInv, QuietInv, program' = program,
         NEW r \in Run, NEW t \in Task, KeyPart(t), LeasePart(t), TaskView(t),
         CalmServer(r, t), exec' = exec, now' = now,
         \A s \in Run \ {r} : SameTask(s, t)
  PROVE  LeasePart(t)'
<1>1. PICK reply : Served(r, t, reply) /\ Told(r, t, reply)
  BY DEF CalmServer
<1>2. /\ t \in Activity /\ t \notin Flow /\ FlowOf(t) \in Flow
      /\ now \in Nat /\ exec[r][t].pc # "crashed"
      /\ Leases(program, t)' = Leases(program, t)
  <2>1. Leases(program, t)' = Leases(program, t)
    BY DEF Leases
  <2> QED
    BY <2>1, TaskIs DEF Activity, Alive, CalmServer, WorkflowsInv, StateInv
<1>3. /\ Pending(r, t) /\ ~Answered(r, t)
      /\ TaskAwaits(exec[r][t].pc, call[r][t].request.rpc)
  BY <1>2, WhatAwaits DEF CalmServer
<1>4. /\ TaskServed(r, t, reply)
      /\ held'[r][t] = IF reply.kind = "granted"
                       THEN now + call[r][t].request.lease_timeout
                       ELSE held[r][t]
      /\ call'[r][t] = [request |-> call[r][t].request, answer |-> reply]
      /\ Answer(r, t)' = reply
  BY <1>1, <1>2 DEF Served, Told, Answer, CalmServer
<1>5. call[r][t].request.lease_timeout = Leases(program, t)
  BY <1>3 DEF LeasePart, HeldPart, Pending
<1>6. RowOf(t) # None => RowOf(t)' # None
  BY RowStays
<1>7. \A s \in Run : HeldPart(s, t)
  BY DEF LeasePart
<1>8. ASSUME NEW s \in Run \ {r}, Unsaved(s, t) => Untouched(t)
      PROVE  HeldPart(s, t)' /\ (Unsaved(s, t)' <=> Unsaved(s, t))
  BY <1>6, <1>7, <1>8, HeldSame
<1>9. CASE exec[r][t].pc = "keying"
  <2>1. t \in program.generated
    BY <1>9 DEF KeyPart
  <2>2. \A s \in Run : ~Unsaved(s, t)
    <3> SUFFICES ASSUME NEW s \in Run, Unsaved(s, t) PROVE FALSE
      OBVIOUS
    <3>1. RowOf(t) = None
      BY <1>7 DEF HeldPart
    <3>2. exec[s][t].pc \in {"leasing"} \cup Working
      BY DEF Unsaved, Holds
    <3> QED
      BY <2>1, <3>1, <3>2 DEF KeyPart
  <2>3. HeldPart(r, t)' /\ ~Unsaved(r, t)'
    <3>1. ~Holds(r, t)' /\ ~Unsaved(r, t)'
      BY <1>9 DEF Holds, Working, Unsaved
    <3> QED
      BY <1>2, <1>4, <1>5, <1>9, <3>1 DEF HeldPart, Working
  <2> QED
    BY <1>8, <2>2, <2>3 DEF LeasePart
<1>10. CASE exec[r][t].pc = "leasing" /\ reply.kind # "granted"
  <2>1. Untouched(t)
    BY <1>3, <1>4, <1>10 DEF TaskAwaits, TaskServed
  <2>2. HeldPart(r, t)' /\ ~Unsaved(r, t)'
    <3>1. ~Holds(r, t)' /\ ~Unsaved(r, t)'
      BY <1>4, <1>10 DEF Holds, Working, Unsaved
    <3> QED
      BY <1>2, <1>4, <1>5, <1>10, <3>1 DEF HeldPart, Working
  <2> QED
    BY <1>8, <2>1, <2>2 DEF LeasePart
<1>11. CASE exec[r][t].pc = "leasing" /\ reply.kind = "granted"
  <2>1. /\ RowOf(t) = None /\ RowOf(t)' = None
        /\ EntryOf(t) = None \/ Left(t) <= 0
        /\ EntryOf(t)' # None /\ EntryOf(t)'.created_at = now
        /\ EntryOf(t)'.lease_timeout = Leases(program, t)
        /\ held'[r][t] = now + Leases(program, t)
    BY <1>3, <1>4, <1>5, <1>11 DEF TaskAwaits, TaskServed
  <2>2. \A s \in Run : ~Unsaved(s, t)
    <3> SUFFICES ASSUME NEW s \in Run, Unsaved(s, t) PROVE FALSE
      OBVIOUS
    <3>1. HeldPart(s, t) /\ Holds(s, t)
      BY <1>7 DEF Unsaved
    <3>2. Left(t) > 0 /\ EntryOf(t) # None
      BY <3>1, UnsavedStands DEF HeldPart, LeaseOf
    <3>3. Left(t) \in Int
      BY <1>2, <3>2, EntryIs DEF Left, RemainingLease
    <3> QED
      BY <2>1, <3>2, <3>3
  <2>3. HeldPart(r, t)'
    <3>1. Ahead(r, t)' /\ LeaseOf(r, t)' /\ held'[r][t] <= now + Leases(program, t)
      <4>1. Leases(program, t) \in Nat
        BY LeasesIs
      <4> QED
        BY <1>2, <2>1, <4>1 DEF Ahead, LeaseOf
    <3> QED
      BY <1>2, <1>4, <1>5, <1>11, <2>1, <3>1 DEF HeldPart, Working
  <2> QED
    BY <1>8, <2>2, <2>3 DEF LeasePart
<1>12. CASE exec[r][t].pc = "checkpointing"
  <2>1. Unsaved(r, t) /\ Holds(r, t)
    BY <1>3, <1>12 DEF Unsaved, Holds, Working
  <2>2. \A s \in Run \ {r} : ~Unsaved(s, t)
    BY <2>1 DEF LeasePart
  <2>3. Left(t) > 0 /\ EntryOf(t) # None
    BY <1>7, <2>1, UnsavedStands DEF HeldPart, LeaseOf
  <2>4. Left(t) \in Int
    BY <1>2, <2>3, EntryIs DEF Left, RemainingLease
  <2>5. TokenOf(t) # None
    <3>1. flow[r][FlowOf(t)].pc = "going"
      BY <1>12 DEF GoingInv, Busy
    <3> QED
      BY <1>2, <3>1 DEF TokensInv, TokenOf
  <2>6. reply \in Saved /\ reply.kind = "saved" /\ RowOf(t)' # None
    BY <1>3, <1>4, <1>12, <2>3, <2>4, <2>5
       DEF TaskAwaits, TaskServed, Saved
  <2>7. HeldPart(r, t)' /\ ~Unsaved(r, t)'
    <3>1. Answered(r, t)' /\ ~Unsaved(r, t)'
      <4>1. Answered(r, t)'
        <5>1. call[r][t].request \in TaskRequest
          BY <1>3 DEF Pending, WorkflowsInv, CallsInv, TaskCallOK
        <5>2. call'[r][t] # None
          BY <1>4, <2>6, <5>1, NoneIsNoAnswer
        <5> QED
          BY <1>4, <2>6, <5>2, NoneIsNoAnswer DEF Answered
      <4> QED
        BY <1>12, <4>1 DEF Unsaved
    <3>2. Ahead(r, t)' /\ held[r][t] <= exec[r][t].expiry
      BY <1>2, <1>4, <1>7, <1>12, <2>1, <2>6 DEF HeldPart, Ahead, Working
    <3> QED
      BY <1>2, <1>4, <1>5, <1>12, <2>6, <3>1, <3>2 DEF HeldPart, Working
  <2> QED
    BY <1>8, <2>2, <2>7 DEF LeasePart
<1>13. CASE exec[r][t].pc = "releasing"
  <2>1. program.runs # "overlap"
    BY <1>7, <1>13 DEF HeldPart
  <2>2. \A s \in Run : ~Unsaved(s, t)
    <3> SUFFICES ASSUME NEW s \in Run, Unsaved(s, t) PROVE FALSE
      OBVIOUS
    <3>1. exec[s][t].pc \in {"leasing"} \cup Working
      BY DEF Unsaved, Holds
    <3>2. flow[r][FlowOf(t)].pc = "going" /\ flow[s][FlowOf(t)].pc = "going"
      BY <1>13, <3>1 DEF GoingInv, Busy, Working
    <3>3. r = s
      BY <1>2, <2>1, <3>2, OneRunner DEF Open
    <3> QED
      BY <1>13, <3>1, <3>3 DEF Working
  <2>3. HeldPart(r, t)' /\ ~Unsaved(r, t)'
    <3>1. ~Holds(r, t)' /\ ~Unsaved(r, t)'
      BY <1>13 DEF Holds, Working, Unsaved
    <3> QED
      BY <1>2, <1>4, <1>5, <1>13, <2>1, <3>1 DEF HeldPart, Working
  <2> QED
    BY <1>8, <2>2, <2>3 DEF LeasePart
<1> QED
  BY <1>3, <1>9, <1>10, <1>11, <1>12, <1>13 DEF TaskAwaits

LEMMA LeasePartStart == Init => \A t \in Task : LeasePart(t)
BY DEF Init, LeasePart, HeldPart, Unsaved, Holds, Working, Answered, Activity

LEMMA LeasePartKept ==
  ASSUME DefaultLease > 0, ShortLease > 0, Plain(program), WorkflowsInv,
         HistoryInv, InTurn, GoingInv, NestInv, RetryInv, TokensInv, QuietInv,
         program' = program, ~disturbed', NEW t \in Task, KeyPart(t),
         LeasePart(t), TaskView(t)
  PROVE  LeasePart(t)'
<1>1. \A s \in Run : HeldPart(s, t)
  BY DEF LeasePart
<1>2. ASSUME now' = now, RowOf(t) # None => RowOf(t)' # None,
             \A s \in Run : SameTask(s, t),
             \A s \in Run : Unsaved(s, t) => Untouched(t)
      PROVE  LeasePart(t)'
  <2>1. \A s \in Run : HeldPart(s, t)' /\ (Unsaved(s, t)' <=> Unsaved(s, t))
    BY <1>1, <1>2, HeldSame
  <2> QED
    BY <2>1 DEF LeasePart
<1>3. ASSUME EvictMove
      PROVE  LeasePart(t)'
  <2>1. /\ now' = now /\ RowOf(t)' = RowOf(t)
        /\ \A s \in Run : SameTask(s, t)
        /\ EntryOf(t)' = EntryOf(t) \/ Evictable(EntryOf(t), now)
    BY <1>3 DEF EvictMove, history, SameTask
  <2>2. \A s \in Run : Unsaved(s, t) => ~Evictable(EntryOf(t), now)
    BY <1>1, UnsavedStands DEF Unsaved
  <2> QED
    BY <1>2, <2>1, <2>2 DEF Untouched
<1>4. ASSUME CalmTick
      PROVE  LeasePart(t)'
  <2>1. /\ exec' = exec /\ call' = call /\ held' = held /\ now' = now + 1
        /\ RowOf(t)' = RowOf(t) /\ EntryOf(t)' = EntryOf(t)
        /\ Leases(program, t)' = Leases(program, t)
    BY <1>4, PlacesStay DEF CalmTick, TickMove, RowOf, EntryOf, Leases
  <2>2. now \in Nat /\ Leases(program, t) \in Nat
    BY LeasesIs DEF WorkflowsInv, StateInv
  <2>3. ASSUME NEW s \in Run
        PROVE  HeldPart(s, t)' /\ (Unsaved(s, t)' <=> Unsaved(s, t))
    <3>1. /\ Holds(s, t)' = Holds(s, t) /\ Answered(s, t)' = Answered(s, t)
          /\ Answer(s, t)' = Answer(s, t) /\ Unsaved(s, t)' = Unsaved(s, t)
          /\ LeaseOf(s, t)' = LeaseOf(s, t)
      BY <2>1 DEF Holds, Answered, Answer, Unsaved, LeaseOf
    <3>2. Holds(s, t) => Ahead(s, t)'
      BY <1>4, <2>1 DEF CalmTick, Ahead
    <3>3. held[s][t] <= now + Leases(program, t) =>
            held[s][t] <= now' + Leases(program, t)
      BY <2>1, <2>2 DEF HistoryInv
    <3> QED
      BY <1>1, <2>1, <3>1, <3>2, <3>3 DEF HeldPart
  <2> QED
    BY <2>3 DEF LeasePart
<1>5. ASSUME NEW r \in Run, TaskMove(r, t), Rests(t),
             \A s \in Run \ {r} : SameTask(s, t)
      PROVE  LeasePart(t)'
  BY <1>5, LeaseByTask
<1>6. ASSUME NEW r \in Run, CalmServer(r, t), exec' = exec, now' = now,
             \A s \in Run \ {r} : SameTask(s, t)
      PROVE  LeasePart(t)'
  BY <1>6, LeaseByServer
<1> QED
  BY <1>2, <1>3, <1>4, <1>5, <1>6, RowStays DEF TaskView, Untouched

\* A task returns once: its result is there, or it is being saved.
DonePart(t) ==
  /\ finished[t] <= 1
  /\ finished[t] > 0 =>
       \/ RowOf(t) # None
       \/ \E s \in Run : exec[s][t].pc \in {"saving", "checkpointing"}

LEMMA DonePartStart == Init => \A t \in Task : DonePart(t)
BY DEF Init, DonePart

LEMMA DonePartKept ==
  ASSUME DefaultLease > 0, ShortLease > 0, WorkflowsInv, HistoryInv, InTurn,
         program' = program, ~disturbed', NEW t \in Task, LeasePart(t),
         DonePart(t), TaskView(t)
  PROVE  DonePart(t)'
<1>1. RowOf(t) # None => RowOf(t)' # None
  BY RowStays
<1>2. ASSUME finished'[t] = finished[t],
             \A s \in Run : exec'[s][t] = exec[s][t] \/ Enters(s, t)
      PROVE  DonePart(t)'
  BY <1>1, <1>2 DEF DonePart, Enters
<1>3. ASSUME NEW r \in Run, TaskMove(r, t),
             \A s \in Run \ {r} : SameTask(s, t)
      PROVE  DonePart(t)'
  <2>1. \A s \in Run \ {r} :
          exec[s][t].pc \in {"saving", "checkpointing"} =>
            exec'[s][t].pc \in {"saving", "checkpointing"}
    BY <1>3 DEF SameTask, Enters
  <2>2. CASE Finishes(r, t)
    <3>1. /\ exec[r][t].pc = "running" /\ exec'[r][t].pc = "saving"
          /\ finished'[t] = finished[t] + 1
      BY <2>2 DEF Finishes
    <3>2. Unsaved(r, t)
      BY <3>1 DEF Unsaved, Holds, Working
    <3>3. RowOf(t) = None
      BY <3>2 DEF LeasePart, HeldPart
    <3>4. ~(finished[t] > 0)
      <4> SUFFICES ASSUME NEW s \in Run,
                          exec[s][t].pc \in {"saving", "checkpointing"}
                   PROVE  FALSE
        BY <3>3 DEF DonePart
      <4>1. Unsaved(s, t)
        BY <3>3 DEF LeasePart, HeldPart, Unsaved, Holds, Working
      <4> QED
        BY <3>1, <3>2, <4>1 DEF LeasePart
    <3>5. finished[t] = 0
      BY <3>4 DEF HistoryInv
    <3> QED
      BY <3>1, <3>5 DEF DonePart
  <2>3. CASE SaveTold(r, t)
    <3>1. RowOf(t) # None /\ finished'[t] = finished[t]
      BY <2>3 DEF SaveTold, LeasePart, HeldPart, Stays, Stops
    <3> QED
      BY <1>1, <3>1 DEF DonePart
  <2>4. CASE GivesUp(r, t)
    <3>1. /\ exec[r][t].pc = "saving" /\ now >= exec[r][t].expiry
          /\ exec[r][t] \in ExecRecord
      BY <2>4 DEF GivesUp, WorkflowsInv, StateInv
    <3>2. Holds(r, t) /\ HeldPart(r, t)
      BY <3>1 DEF Holds, Working, LeasePart
    <3>3. held[r][t] > now /\ held[r][t] <= exec[r][t].expiry
      BY <3>1, <3>2, UnsavedStands DEF HeldPart, Working
    <3> QED
      BY <3>1, <3>3 DEF ExecRecord, HistoryInv, WorkflowsInv, StateInv
  <2>5. CASE SaveCalls(r, t)
    <3>1. exec'[r][t].pc = "checkpointing" /\ finished'[t] = finished[t]
      BY <2>5 DEF SaveCalls, Stays
    <3> QED
      BY <1>1, <2>1, <3>1 DEF DonePart
  <2>6. CASE \/ KeyCalls(r, t) \/ KeyTold(r, t) \/ LeaseCalls(r, t)
             \/ LeaseTold(r, t) \/ Releases(r, t) \/ Lets(r, t)
    <3>1. /\ exec[r][t].pc \notin {"saving", "checkpointing"}
          /\ finished'[t] = finished[t]
      BY <2>6 DEF KeyCalls, KeyTold, LeaseCalls, LeaseTold, Releases, Lets,
         Stays, Stops
    <3> QED
      BY <1>1, <2>1, <3>1 DEF DonePart
  <2>7. ~Rejects(r, t)
    BY DEF Rejects
  <2> QED
    BY <1>3, <2>2, <2>3, <2>4, <2>5, <2>6, <2>7 DEF TaskMove
<1>4. CASE EvictMove \/ CalmTick
  BY <1>2, <1>4 DEF EvictMove, CalmTick, TickMove, history
<1> QED
  BY <1>2, <1>3, <1>4 DEF TaskView, SameTask
-----------------------------------------------------------------------------
(* Undisturbed, a program of the tests does what the tests assert.         *)

\* A workflow function under way has the token of the store.
RunnerPart(s, v) ==
  /\ flow[s][v].pc = "starting" /\ Answered(s, v) =>
       /\ Answer(s, v).kind = "token"
       /\ Answer(s, v).fencing_token = stores[v].fencingToken
  /\ flow[s][v].pc \in Open \ {"starting"} =>
       flow[s][v].fencing_token = stores[v].fencingToken

\* A call carries it, and is not answered with an error; what is stored is a
\* result.
CallPart(s, t) ==
  /\ call[s][t] # None =>
       call[s][t].request.fencing_token = flow[s][FlowOf(t)].fencing_token
  /\ Answered(s, t) =>
       /\ Answer(s, t).kind # "error"
       /\ Answer(s, t).kind = "saved" => ~Answer(s, t).abort

ClosePart(s, v) ==
  flow[s][v].pc \in {"completing", "recovering"} /\ call[s][v] # None =>
    /\ call[s][v].request.fencing_token = flow[s][v].fencing_token
    /\ Answered(s, v) => Answer(s, v).kind # "error"

ValuePart(t) == RowOf(t) # None => RowOf(t).value # None

\* Only the first run of a program with a task that throws fails.
FailPart(s) ==
  \/ \E v \in Flow : flow[s][v].pc \in {"failed", "recovering"}
  \/ \E t \in Task : exec[s][t].pc \in {"releasing", "threw"}
  => s = 1 /\ program.throws # {}

PassInv ==
  program.generated = {} /\ program.runs # "overlap" =>
    /\ \A s \in Run, v \in Flow : RunnerPart(s, v) /\ ClosePart(s, v)
    /\ \A s \in Run, t \in Task : CallPart(s, t)
    /\ \A t \in Task : ValuePart(t)
    /\ \A s \in Run : FailPart(s)

CalmInv ==
  ~disturbed =>
    /\ QuietInv /\ TokensInv
    /\ \A t \in Task : KeyPart(t) /\ LeasePart(t) /\ DonePart(t)
    /\ PassInv

LEMMA PassStart ==
  ASSUME Init, InTurn
  PROVE  PassInv
<1>1. program \in Explored
  BY DEF Init
<1>2. ASSUME NEW t \in Task
      PROVE  ValuePart(t)
  <2>1. FlowOf(t) \in Flow /\ Place(t) \in Position
    BY <1>1, TaskIs, PlaceIs
  <2>2. stores[FlowOf(t)] = NewStores
    BY <2>1 DEF Init
  <2> QED
    BY <2>1, <2>2 DEF ValuePart, RowOf, NewStores
<1>3. \A s \in Run, v \in Flow : RunnerPart(s, v) /\ ClosePart(s, v)
  BY DEF Init, RunnerPart, ClosePart, Open
<1>4. \A s \in Run, t \in Task : CallPart(s, t)
  BY DEF Init, CallPart, Answered, Activity
<1>5. \A s \in Run : FailPart(s)
  BY DEF Init, FailPart
<1> QED
  BY <1>2, <1>3, <1>4, <1>5 DEF PassInv

\* Whoever starts a workflow again is the only one under way.
LEMMA RunnerKept ==
  ASSUME WorkflowsInv, GoingInv, NestInv, RetryInv, QuietInv, TokensInv,
         CalmMove, program.runs # "overlap", NEW s \in Run, NEW v \in Flow,
         RunnerPart(s, v)
  PROVE  RunnerPart(s, v)'
<1>1. v \in Activity /\ v \notin Task
  BY FlowIs DEF Activity, WorkflowsInv, StateInv
<1>2. ASSUME flow'[s][v].pc = flow[s][v].pc,
             flow'[s][v].fencing_token = flow[s][v].fencing_token,
             call'[s][v] = call[s][v],
             flow[s][v].pc \in Open =>
               stores'[v].fencingToken = stores[v].fencingToken
      PROVE  RunnerPart(s, v)'
  BY <1>2 DEF RunnerPart, Answered, Answer, Open
<1>3. ASSUME NEW r \in Run, NEW w \in Flow, FlowMove(r, w)
      PROVE  RunnerPart(s, v)'
  <2>1. stores' = stores
    BY <1>3 DEF FlowMove
  <2>2. CASE <<r, w>> # <<s, v>>
    BY <1>1, <1>2, <1>3, <2>1, <2>2 DEF FlowMove
  <2>3. CASE <<r, w>> = <<s, v>> /\ FlowOpens(r, w)
    BY <2>3 DEF FlowOpens, RunnerPart, Answered, Open
  <2>4. CASE <<r, w>> = <<s, v>> /\ FlowStarts(r, w)
    BY <2>1, <2>4 DEF FlowStarts, RunnerPart, TokensInv, Open
  <2>5. CASE /\ <<r, w>> = <<s, v>>
             /\ FlowStops(r, w) \/ FlowCloses(r, w)
    <3>1. /\ flow[s][v].pc \in Open \ {"starting"}
          /\ flow'[s][v].pc \notin {"going", "starting"}
      BY <2>5 DEF FlowStops, FlowCloses, Open
    <3>2. flow'[s][v].fencing_token = flow[s][v].fencing_token
      BY <1>3, <2>5, <3>1 DEF FlowMove
    <3> QED
      BY <2>1, <3>1, <3>2 DEF RunnerPart
  <2> QED
    BY <1>3, <2>2, <2>3, <2>4, <2>5 DEF FlowMove
<1>4. ASSUME NEW r \in Run, NEW a \in Activity, CalmServer(r, a)
      PROVE  RunnerPart(s, v)'
  <2>1. PICK reply : Served(r, a, reply) /\ Told(r, a, reply)
    BY <1>4 DEF CalmServer
  <2>2. flow' = flow /\ Pending(r, a) /\ Alive(r, a)
    BY <1>4 DEF CalmServer
  <2>3. CASE a # v
    <3>1. call'[s][v] = call[s][v]
      BY <1>1, <2>1, <2>3 DEF Told
    <3> QED
      BY <1>2, <2>1, <2>2, <2>3, <3>1, TokenServed
  <2>4. CASE a = v
    <3>1. FlowAwaits(flow[r][v].pc, call[r][v].request.rpc)
      BY <2>2, <2>4, WhatFlowAwaits DEF QuietInv, Pending
    <3>2. CASE r # s
      <4>1. flow[r][v].pc \in Open
        BY <3>1 DEF FlowAwaits, Open
      <4>2. flow[s][v].pc \notin Open
        BY <3>2, <4>1, OneRunner
      <4>3. call'[s][v] = call[s][v]
        BY <1>1, <2>1, <3>2 DEF Told
      <4> QED
        BY <1>2, <2>2, <4>2, <4>3
    <3>3. CASE r = s /\ flow[s][v].pc = "starting"
      <4>1. /\ reply.kind = "token"
            /\ reply.fencing_token = stores'[v].fencingToken
        BY <2>1, <2>4, <3>1, <3>3 DEF FlowAwaits, Served, FlowServed
      <4>2. Answer(s, v)' = reply
        BY <2>1, <2>2, <2>4, <3>3 DEF Told, Answer
      <4> QED
        BY <2>2, <3>3, <4>1, <4>2 DEF RunnerPart
    <3>4. CASE r = s /\ flow[s][v].pc # "starting"
      <4>1. stores'[v].fencingToken = stores[v].fencingToken
        BY <2>1, <2>4, <3>1, <3>4 DEF FlowAwaits, Served, FlowServed
      <4> QED
        BY <2>2, <3>4, <4>1 DEF RunnerPart
    <3> QED
      BY <3>2, <3>3, <3>4
  <2> QED
    BY <2>3, <2>4
<1>5. CASE \/ \E r \in Run, w \in Flow : StepMove(r, w)
           \/ \E r \in Run, t \in Task : TaskMove(r, t)
           \/ EvictMove \/ CalmTick \/ JobStarts \/ UNCHANGED vars
  <2>1. /\ stores'[v].fencingToken = stores[v].fencingToken
        /\ flow'[s][v].pc = flow[s][v].pc
        /\ flow'[s][v].fencing_token = flow[s][v].fencing_token
    BY <1>5 DEF StepMove, TaskMove, EvictMove, CalmTick, TickMove, JobStarts,
       vars
  <2>2. call'[s][v] = call[s][v]
    BY <1>1, <1>5 DEF StepMove, TaskMove, EvictMove, CalmTick, TickMove,
       JobStarts, vars
  <2> QED
    BY <1>2, <2>1, <2>2
<1> QED
  BY <1>3, <1>4, <1>5 DEF CalmMove

\* A complete is not refused.
LEMMA CloseKept ==
  ASSUME WorkflowsInv, QuietInv, TokensInv, CalmMove,
         NEW s \in Run, NEW v \in Flow, RunnerPart(s, v), ClosePart(s, v)
  PROVE  ClosePart(s, v)'
<1>1. v \in Activity /\ v \notin Task
  BY FlowIs DEF Activity, WorkflowsInv, StateInv
<1>2. ASSUME flow'[s][v].pc = flow[s][v].pc,
             flow'[s][v].fencing_token = flow[s][v].fencing_token,
             call'[s][v] = call[s][v]
      PROVE  ClosePart(s, v)'
  BY <1>2 DEF ClosePart, Answered, Answer
<1>3. ASSUME NEW r \in Run, NEW w \in Flow, FlowMove(r, w)
      PROVE  ClosePart(s, v)'
  <2>1. CASE <<r, w>> # <<s, v>>
    BY <1>1, <1>2, <1>3, <2>1 DEF FlowMove
  <2>2. CASE <<r, w>> = <<s, v>> /\ (FlowOpens(r, w) \/ FlowStarts(r, w))
    BY <2>2 DEF FlowOpens, FlowStarts, ClosePart
  <2>3. CASE /\ <<r, w>> = <<s, v>>
             /\ FlowStops(r, w) \/ FlowCloses(r, w)
    <3>1. /\ flow'[s][v].pc # "going"
          /\ call'[s][v] = None \/ CompleteCalled(s, v)
      BY <2>3 DEF FlowStops, FlowCloses
    <3>2. flow'[s][v].fencing_token = flow[s][v].fencing_token
      BY <1>3, <2>3, <3>1 DEF FlowMove
    <3> QED
      BY <3>1, <3>2 DEF ClosePart, CompleteCalled, Answered
  <2> QED
    BY <1>3, <2>1, <2>2, <2>3 DEF FlowMove
<1>4. ASSUME NEW r \in Run, NEW a \in Activity, CalmServer(r, a)
      PROVE  ClosePart(s, v)'
  <2>1. PICK reply : Served(r, a, reply) /\ Told(r, a, reply)
    BY <1>4 DEF CalmServer
  <2>2. flow' = flow /\ Pending(r, a) /\ Alive(r, a)
    BY <1>4 DEF CalmServer
  <2>3. CASE <<r, a>> # <<s, v>>
    <3>1. call'[s][v] = call[s][v]
      BY <1>1, <2>1, <2>3 DEF Told
    <3> QED
      BY <1>2, <2>2, <3>1
  <2>4. CASE <<r, a>> = <<s, v>>
    <3>1. SUFFICES ASSUME flow[s][v].pc \in {"completing", "recovering"}
                   PROVE  ClosePart(s, v)'
      BY <2>2 DEF ClosePart
    <3>2. call[s][v].request.rpc = "complete" /\ call[s][v] # None
      BY <2>2, <2>4, <3>1, WhatFlowAwaits DEF FlowAwaits, Pending
    <3>3. /\ call[s][v].request.fencing_token = flow[s][v].fencing_token
          /\ flow[s][v].fencing_token = stores[v].fencingToken
          /\ stores[v].fencingToken # None
      BY <3>1, <3>2 DEF ClosePart, RunnerPart, Open, TokensInv
    <3>4. flow[s][v].fencing_token \in Nat
      BY DEF WorkflowsInv, StateInv, FlowRecord
    <3>5. reply.kind # "error"
      BY <2>1, <2>4, <3>2, <3>3, <3>4 DEF Served, FlowServed
    <3>6. /\ Answer(s, v)' = reply
          /\ call'[s][v].request = call[s][v].request
      BY <2>1, <2>2, <2>4 DEF Told, Answer
    <3> QED
      BY <2>2, <3>3, <3>5, <3>6 DEF ClosePart
  <2> QED
    BY <2>3, <2>4
<1>5. CASE \/ \E r \in Run, w \in Flow : StepMove(r, w)
           \/ \E r \in Run, t \in Task : TaskMove(r, t)
           \/ EvictMove \/ CalmTick \/ JobStarts \/ UNCHANGED vars
  <2>1. /\ flow'[s][v].pc = flow[s][v].pc
        /\ flow'[s][v].fencing_token = flow[s][v].fencing_token
    BY <1>5 DEF StepMove, TaskMove, EvictMove, CalmTick, TickMove, JobStarts,
       vars
  <2>2. call'[s][v] = call[s][v]
    BY <1>1, <1>5 DEF StepMove, TaskMove, EvictMove, CalmTick, TickMove,
       JobStarts, vars
  <2> QED
    BY <1>2, <2>1, <2>2
<1> QED
  BY <1>3, <1>4, <1>5 DEF CalmMove

\* A call carries the token of its workflow, and is not refused.
LEMMA CallKept ==
  ASSUME WorkflowsInv, OwnInv, InTurn, GoingInv, QuietInv, TokensInv, CalmMove,
         program' = program, program.generated = {}, NEW s \in Run,
         NEW t \in Task, LeasePart(t)', RunnerPart(s, FlowOf(t)), ValuePart(t),
         CallPart(s, t)
  PROVE  CallPart(s, t)'
<1> DEFINE w == FlowOf(t)
<1>1. /\ t \in Activity /\ t \notin Flow /\ w \in Flow
      /\ FlowOf(t)' = FlowOf(t) /\ program \in Explored
  BY TaskIs, PlacesStay DEF Activity, WorkflowsInv, StateInv
<1>2. exec[s][t].pc # "crashed"
  BY <1>1 DEF QuietInv, WorkflowsInv, CrashInv
<1>3. call[s][t] # None => TaskAwaits(exec[s][t].pc, call[s][t].request.rpc)
  BY <1>2 DEF WorkflowsInv, CallsInv, TaskCallOK
<1>4. call[s][t] # None => flow[s][w].pc = "going"
  BY <1>3 DEF TaskAwaits, GoingInv, Busy
<1>5. ASSUME call'[s][t] = call[s][t],
             \/ call[s][t] = None
             \/ flow'[s][w].fencing_token = flow[s][w].fencing_token
      PROVE  CallPart(s, t)'
  BY <1>1, <1>5 DEF CallPart, Answered, Answer
<1>6. ASSUME NEW r \in Run, NEW v \in Flow, FlowMove(r, v)
      PROVE  CallPart(s, t)'
  <2>1. call'[s][t] = call[s][t]
    BY <1>1, <1>6 DEF FlowMove
  <2>2. CASE <<r, v>> # <<s, w>>
    <3>1. flow'[s][w] = flow[s][w]
      BY <1>1, <1>6, <2>2 DEF FlowMove
    <3> QED
      BY <1>5, <2>1, <3>1
  <2>3. CASE <<r, v>> = <<s, w>> /\ flow[s][w].pc = "going"
    <3>1. FlowStops(s, w)
      BY <1>6, <2>3 DEF FlowMove, FlowOpens, FlowStarts, FlowCloses
    <3>2. flow'[s][w].pc # "going"
      BY <3>1 DEF FlowStops
    <3>3. flow'[s][w].fencing_token = flow[s][w].fencing_token
      BY <1>6, <2>3, <3>2 DEF FlowMove
    <3> QED
      BY <1>5, <2>1, <3>3
  <2> QED
    BY <1>4, <1>5, <2>1, <2>2, <2>3
<1>7. ASSUME NEW r \in Run, NEW u \in Task, TaskMove(r, u)
      PROVE  CallPart(s, t)'
  <2>1. flow'[s][w].fencing_token = flow[s][w].fencing_token
    BY <1>1, <1>7 DEF TaskMove
  <2>2. CASE <<r, u>> # <<s, t>>
    BY <1>1, <1>5, <1>7, <2>1, <2>2 DEF TaskMove
  <2>3. CASE call'[s][t] = None
    BY <2>3 DEF CallPart, Answered
  <2>4. CASE \E rpc : Asked(s, t, rpc)
    BY <1>1, <2>1, <2>4 DEF Asked, TaskCall, RunnerOf, CallPart, Answered
  <2>5. CASE <<r, u>> = <<s, t>>
    <3>1. call'[s][t] = None \/ \E rpc : Asked(s, t, rpc)
      BY <1>7, <2>5 DEF TaskMove, KeyCalls, KeyTold, LeaseCalls, LeaseTold,
         Finishes, Releases, Lets, SaveCalls, SaveTold, GivesUp, Rejects
    <3> QED
      BY <2>3, <2>4, <3>1
  <2> QED
    BY <2>2, <2>5
<1>8. ASSUME NEW r \in Run, NEW a \in Activity, CalmServer(r, a)
      PROVE  CallPart(s, t)'
  <2>1. PICK reply : Served(r, a, reply) /\ Told(r, a, reply)
    BY <1>8 DEF CalmServer
  <2>2. flow' = flow /\ exec' = exec /\ Pending(r, a) /\ Alive(r, a)
    BY <1>8 DEF CalmServer
  <2>3. CASE <<r, a>> # <<s, t>>
    <3>1. call'[s][t] = call[s][t]
      BY <1>1, <2>1, <2>3 DEF Told
    <3> QED
      BY <1>5, <2>2, <3>1
  <2>4. CASE <<r, a>> = <<s, t>>
    <3> DEFINE q == call[s][t].request
    <3>1. /\ call[s][t] # None /\ call'[s][t] = [request |-> q, answer |-> reply]
          /\ Answer(s, t)' = reply /\ TaskServed(s, t, reply)
      BY <2>1, <2>2, <2>4 DEF Told, Served, Answer, Pending
    <3>2. /\ q.idempotency_key = t /\ exec[s][t].pc # "keying"
          /\ q.fencing_token = flow[s][w].fencing_token
      BY <1>1, <3>1, StepOfIs DEF OwnInv, RequestInv, CallPart
    <3>3. TokenOf(t) # None /\ TokenOf(t) = q.fencing_token
      BY <1>1, <1>4, <3>1, <3>2 DEF RunnerPart, TokensInv, TokenOf, Open
    <3>4. q.fencing_token \in Nat
      BY <1>1, <3>2 DEF WorkflowsInv, StateInv, FlowRecord
    <3>5. ASSUME RowOf(t) # None
          PROVE  RowOf(t).value # None /\ RowOf(t).idempotency_key = t
      <4>1. RowOf(t).value # None
        BY <3>5 DEF ValuePart
      <4>2. /\ Place(t) \in Position /\ Place(t) = StepOf(t) - 1
            /\ StepOf(t) \in DOMAIN program.steps[w]
            /\ program.steps[w][StepOf(t)] = {t}
        BY <1>1, PlaceIs, StepOfIs DEF Place
      <4>3. /\ RowOf(t).value = RowOf(t).idempotency_key
            /\ RowOf(t).value \in program.steps[w][StepOf(t)]
        BY <1>1, <3>5, <4>1, <4>2 DEF OwnInv, RowsInv, RowOf
      <4> QED
        BY <4>1, <4>2, <4>3
    <3>6. CASE exec[s][t].pc = "leasing"
      <4>1. reply.kind \in {"granted", "value", "wait"}
        BY <1>3, <3>1, <3>2, <3>3, <3>5, <3>6 DEF TaskAwaits, TaskServed
      <4> QED
        BY <1>1, <2>2, <3>1, <3>2, <4>1 DEF CallPart
    <3>7. CASE exec[s][t].pc = "checkpointing"
      <4>1. q.rpc = "checkpoint"
        BY <1>3, <3>1, <3>7 DEF TaskAwaits
      <4>2. Answered(s, t)' => reply.kind = "saved"
        BY <2>2, <3>1, <3>7, PlacesStay DEF LeasePart, HeldPart
      <4>3. reply.kind = "saved" => ~reply.abort
        BY <3>1, <3>3, <3>4, <4>1 DEF TaskServed
      <4> QED
        BY <1>1, <2>2, <3>1, <3>2, <4>2, <4>3 DEF CallPart
    <3>8. CASE exec[s][t].pc = "releasing"
      <4>1. reply.kind = "released"
        BY <1>3, <3>1, <3>8 DEF TaskAwaits, TaskServed
      <4> QED
        BY <1>1, <2>2, <3>1, <3>2, <4>1 DEF CallPart
    <3> QED
      BY <1>3, <3>1, <3>2, <3>6, <3>7, <3>8 DEF TaskAwaits
  <2> QED
    BY <2>3, <2>4
<1>9. CASE \/ \E r \in Run, v \in Flow : StepMove(r, v)
           \/ EvictMove \/ CalmTick \/ JobStarts \/ UNCHANGED vars
  <2>1. flow'[s][w].fencing_token = flow[s][w].fencing_token
    BY <1>1, <1>9 DEF StepMove, EvictMove, CalmTick, TickMove, JobStarts, vars
  <2>2. call'[s][t] = call[s][t]
    BY <1>1, <1>9 DEF StepMove, EvictMove, CalmTick, TickMove, JobStarts, vars
  <2> QED
    BY <1>5, <2>1, <2>2
<1> QED
  BY <1>6, <1>7, <1>8, <1>9 DEF CalmMove

\* What is stored is a result.
LEMMA ValueKept ==
  ASSUME WorkflowsInv, QuietInv, program' = program, program.generated = {},
         NEW t \in Task, KeyPart(t), TaskView(t), ValuePart(t)
  PROVE  ValuePart(t)'
<1>1. t # None /\ t \in Activity /\ t \notin Flow /\ FlowOf(t) \in Flow
  BY TaskIs, NoneAssumption DEF Activity, WorkflowsInv, StateInv
<1>2. ASSUME RowOf(t)' = RowOf(t)
      PROVE  ValuePart(t)'
  BY <1>2 DEF ValuePart
<1>3. ASSUME NEW r \in Run, CalmServer(r, t)
      PROVE  ValuePart(t)'
  <2>1. PICK reply : TaskServed(r, t, reply)
    BY <1>3 DEF CalmServer, Served
  <2>2. TaskAwaits(exec[r][t].pc, call[r][t].request.rpc)
    BY <1>1, <1>3, WhatAwaits DEF CalmServer, Alive
  <2>3. call[r][t].request.rpc # "key"
    BY <2>2 DEF TaskAwaits, KeyPart
  <2> QED
    BY <1>1, <1>2, <2>1, <2>3 DEF TaskServed, Untouched, ValuePart
<1>4. CASE Untouched(t) \/ EvictMove
  BY <1>2, <1>4 DEF Untouched, EvictMove
<1>5. CASE CalmTick
  BY <1>2, <1>5, PlacesStay DEF CalmTick, TickMove, RowOf
<1> QED
  BY <1>3, <1>4, <1>5 DEF TaskView, Rests

\* A run fails by a task that throws as the program says.
LEMMA FailKept ==
  ASSUME WorkflowsInv, TokensInv, CalmMove, program' = program, ~disturbed',
         NEW s \in Run, \A v \in Flow : ClosePart(s, v),
         \A t \in Task : CallPart(s, t), FailPart(s)
  PROVE  FailPart(s)'
<1> DEFINE Fails == s = 1 /\ program.throws # {}
<1>1. /\ \A v \in Flow : flow[s][v].pc \in {"failed", "recovering"} => Fails
      /\ \A t \in Task : exec[s][t].pc \in {"releasing", "threw"} => Fails
  BY DEF FailPart
<1>2. SUFFICES /\ \A v \in Flow :
                    flow'[s][v].pc \in {"failed", "recovering"} => Fails
               /\ \A t \in Task :
                    exec'[s][t].pc \in {"releasing", "threw"} => Fails
  BY PlacesStay DEF FailPart
<1> DEFINE Good == /\ \A v \in Flow :
                        flow'[s][v].pc \in {"failed", "recovering"} => Fails
                   /\ \A t \in Task :
                        exec'[s][t].pc \in {"releasing", "threw"} => Fails
<1>3. program \in Explored
  BY DEF WorkflowsInv, StateInv
<1> HIDE DEF Fails
<1>4. ASSUME NEW r \in Run, NEW w \in Flow, FlowMove(r, w)
      PROVE  Good
  <2>1. exec' = exec
    BY <1>4 DEF FlowMove
  <2>2. ASSUME NEW v \in Flow, flow'[s][v].pc \in {"failed", "recovering"}
        PROVE  Fails
    <3>1. CASE <<r, w>> # <<s, v>>
      BY <1>1, <1>4, <2>2, <3>1 DEF FlowMove
    <3>2. CASE <<r, w>> = <<s, v>> /\ FlowOpens(s, v)
      BY <2>2, <3>2 DEF FlowOpens
    <3>3. CASE <<r, w>> = <<s, v>> /\ FlowStarts(s, v)
      <4>1. Answer(s, v).kind = "token"
        BY <3>3 DEF FlowStarts, TokensInv
      <4> QED
        BY <2>2, <3>3, <4>1 DEF FlowStarts
    <3>4. CASE <<r, w>> = <<s, v>> /\ FlowStops(s, v)
      <4>1. \E t \in Current(s, v) : exec[s][t].pc = "threw"
        BY <2>2, <3>4 DEF FlowStops
      <4>2. Current(s, v) \subseteq Task
        <5>1. /\ flow[s][v].step \in Nat /\ flow[s][v].pc = "going"
              /\ flow[s][v].step <= Len(program.steps[v])
          BY <3>4 DEF FlowStops, WorkflowsInv, StateInv, StepsInv, FlowRecord
        <5>2. flow[s][v].step # 0 =>
                flow[s][v].step \in DOMAIN program.steps[v]
          BY <1>3, <5>1, StepsAre
        <5> QED
          BY <1>3, <5>2, StepIs DEF Current
      <4> QED
        BY <1>1, <4>1, <4>2
    <3>5. CASE <<r, w>> = <<s, v>> /\ FlowCloses(s, v)
      <4>1. Answer(s, v).kind # "error"
        BY <3>5 DEF FlowCloses, ClosePart, Answered
      <4> QED
        BY <2>2, <3>5, <4>1 DEF FlowCloses
    <3> QED
      BY <1>4, <3>1, <3>2, <3>3, <3>4, <3>5 DEF FlowMove
  <2> QED
    BY <1>1, <2>1, <2>2
<1>5. ASSUME NEW r \in Run, NEW u \in Task, TaskMove(r, u)
      PROVE  Good
  <2>1. \A v \in Flow : flow'[s][v].pc = flow[s][v].pc
    BY <1>5 DEF TaskMove
  <2>2. ASSUME NEW t \in Task, exec'[s][t].pc \in {"releasing", "threw"}
        PROVE  Fails
    <3>1. CASE <<r, u>> # <<s, t>>
      BY <1>1, <1>5, <2>2, <3>1 DEF TaskMove
    <3>2. Answered(s, t) => /\ Answer(s, t).kind # "error"
                            /\ Answer(s, t).kind = "saved" => ~Answer(s, t).abort
      BY DEF CallPart
    <3>3. CASE <<r, u>> = <<s, t>> /\ Releases(s, t)
      <4>1. \/ s = 1 /\ t \in program.throws
            \/ HasInner(t) /\ InnerIs(s, t, "failed")
        BY <3>3 DEF Releases
      <4>2. HasInner(t) => program.inner[t] \in Flow
        BY <1>3, ProgramIs DEF HasInner
      <4> QED
        BY <1>1, <4>1, <4>2 DEF InnerIs, Fails
    <3>4. CASE <<r, u>> = <<s, t>> /\ Lets(s, t)
      BY <1>1, <3>4 DEF Lets
    <3>5. CASE <<r, u>> = <<s, t>> /\ SaveTold(s, t)
      <4>1. Answer(s, t).kind # "error" => Answer(s, t).kind = "saved"
        <5>1. call[s][t] # None /\ call[s][t].answer # None
          BY <3>5 DEF SaveTold, Answered
        <5>2. TaskCallOK(s, t) /\ exec[s][t].pc = "checkpointing"
          BY <3>5, <5>1 DEF WorkflowsInv, CallsInv, SaveTold
        <5> QED
          BY <5>1, <5>2 DEF TaskCallOK, TaskAwaits, AnswerOK, Answer
      <4> QED
        BY <2>2, <3>2, <3>5, <4>1 DEF SaveTold
    <3>6. CASE /\ <<r, u>> = <<s, t>>
               /\ \/ KeyCalls(s, t) \/ KeyTold(s, t) \/ LeaseCalls(s, t)
                  \/ LeaseTold(s, t) \/ Finishes(s, t) \/ SaveCalls(s, t)
                  \/ GivesUp(s, t)
      BY <2>2, <3>2, <3>6 DEF KeyCalls, KeyTold, LeaseCalls, LeaseTold,
         Finishes, SaveCalls, GivesUp
    <3>7. ~Rejects(r, u)
      BY DEF Rejects
    <3> QED
      BY <1>5, <3>1, <3>3, <3>4, <3>5, <3>6, <3>7 DEF TaskMove
  <2> QED
    BY <1>1, <2>1, <2>2
<1>6. ASSUME NEW r \in Run, NEW w \in Flow, StepMove(r, w)
      PROVE  Good
  BY <1>1, <1>6 DEF StepMove, Enters
<1>7. CASE \/ \E r \in Run, a \in Activity : CalmServer(r, a)
           \/ EvictMove \/ CalmTick \/ JobStarts \/ UNCHANGED vars
  BY <1>1, <1>7 DEF CalmServer, EvictMove, CalmTick, TickMove, JobStarts, vars
<1> QED
  BY <1>2, <1>4, <1>5, <1>6, <1>7 DEF CalmMove

LEMMA CalmStart ==
  ASSUME Init, InTurn
  PROVE  CalmInv
<1>1. QuietInv
  BY DEF Init, QuietInv
<1> QED
  BY <1>1, TokensStart, KeyPartStart, LeasePartStart, DonePartStart, PassStart
     DEF CalmInv

LEMMA PassKept ==
  ASSUME WorkflowsInv, OwnInv, InTurn, GoingInv, NestInv, RetryInv, CalmMove,
         program' = program, ~disturbed', QuietInv, TokensInv,
         \A t \in Task : KeyPart(t) /\ TaskView(t) /\ LeasePart(t)', PassInv
  PROVE  PassInv'
<1> USE PlacesStay
<1>1. SUFFICES ASSUME program.generated = {}, program.runs # "overlap"
               PROVE  /\ \A s \in Run, v \in Flow :
                           RunnerPart(s, v)' /\ ClosePart(s, v)'
                      /\ \A s \in Run, t \in Task : CallPart(s, t)'
                      /\ \A t \in Task : ValuePart(t)'
                      /\ \A s \in Run : FailPart(s)'
  BY DEF PassInv
<1>2. /\ \A s \in Run, v \in Flow : RunnerPart(s, v) /\ ClosePart(s, v)
      /\ \A s \in Run, t \in Task : CallPart(s, t)
      /\ \A t \in Task : ValuePart(t)
      /\ \A s \in Run : FailPart(s)
  BY <1>1 DEF PassInv
<1>3. \A s \in Run, v \in Flow : RunnerPart(s, v)' /\ ClosePart(s, v)'
  BY <1>1, <1>2, RunnerKept, CloseKept
<1>4. \A s \in Run, t \in Task : CallPart(s, t)'
  <2> SUFFICES ASSUME NEW s \in Run, NEW t \in Task PROVE CallPart(s, t)'
    OBVIOUS
  <2>1. FlowOf(t) \in Flow
    BY TaskIs DEF WorkflowsInv, StateInv
  <2> QED
    BY <1>1, <1>2, <2>1, CallKept
<1>5. \A t \in Task : ValuePart(t)'
  BY <1>1, <1>2, ValueKept
<1>6. \A s \in Run : FailPart(s)'
  BY <1>2, FailKept
<1> QED
  BY <1>3, <1>4, <1>5, <1>6

LEMMA CalmKept ==
  ASSUME DefaultLease > 0, ShortLease > 0, WorkflowsInv, DueInv, OwnInv,
         HistoryInv, Plain(program), Straight, GoingInv, NestInv, RetryInv,
         [Next]_vars, program' = program, CalmInv
  PROVE  CalmInv'
<1>1. SUFFICES ASSUME ~disturbed'
               PROVE  /\ QuietInv' /\ TokensInv'
                      /\ \A t \in Task : KeyPart(t)' /\ LeasePart(t)'
                                         /\ DonePart(t)'
                      /\ PassInv'
  BY PlacesStay DEF CalmInv
<1>2. InTurn
  BY DEF Plain, InTurn
<1>3. ~disturbed => QuietInv
  BY DEF CalmInv
<1>4. ~disturbed /\ CalmMove
  BY <1>1, <1>2, <1>3, CalmMoves
<1>5. /\ QuietInv /\ TokensInv /\ PassInv
      /\ \A t \in Task : KeyPart(t) /\ LeasePart(t) /\ DonePart(t)
  BY <1>4 DEF CalmInv
<1>6. QuietInv' /\ TokensInv'
  BY <1>1, <1>2, <1>5, QuietKept, TokensKept
<1>7. \A t \in Task : TaskView(t)
  BY <1>1, <1>2, <1>5, TaskViewed
<1>8. \A t \in Task : KeyPart(t)'
  BY <1>2, <1>5, <1>7, KeyPartKept
<1>9. \A t \in Task : LeasePart(t)'
  BY <1>1, <1>2, <1>5, <1>7, LeasePartKept
<1>10. \A t \in Task : DonePart(t)'
  BY <1>1, <1>2, <1>5, <1>7, DonePartKept
<1>11. PassInv'
  BY <1>1, <1>2, <1>4, <1>5, <1>7, <1>9, PassKept
<1> QED
  BY <1>6, <1>8, <1>9, <1>10, <1>11

CalmInPlain == Plain(program) /\ ~crossed => CalmInv

LEMMA CalmHolds ==
  ASSUME DefaultLease > 0, ShortLease > 0
  PROVE  Spec => []CalmInPlain
<1>1. Init => CalmInPlain
  BY CalmStart DEF CalmInPlain, Plain, InTurn
<1>2. /\ WorkflowsInv /\ StageInv /\ DueInv /\ OwnInv /\ HistoryInv
      /\ TurnInv /\ CalmInPlain /\ [Next]_vars
      => CalmInPlain'
  <2> SUFFICES ASSUME WorkflowsInv, StageInv, DueInv, OwnInv, HistoryInv,
                      TurnInv, CalmInPlain, [Next]_vars
               PROVE  CalmInPlain'
    OBVIOUS
  <2>1. program' = program
    BY RowsMove
  <2>2. Plain(program)' <=> Plain(program)
    BY <2>1 DEF Plain, OneByOne
  <2>3. Plain(program) /\ ~crossed => GoingInv /\ NestInv /\ RetryInv
    BY DEF TurnInv, Plain, InTurn
  <2>4. ~crossed' => Straight /\ ~crossed
    BY StraightSoFar DEF Straight
  <2> QED
    BY <2>1, <2>2, <2>3, <2>4, CalmKept DEF CalmInPlain
<1> QED
  BY <1>1, <1>2, TypesHold, DueHolds, OwnHolds, HistoryHolds, TurnHolds, PTL
  DEF Spec

\* What the tests assert of a program that nothing disturbs: no task of it is
\* executed twice, and no run fails but the first of one with a task that
\* throws.  Executes are called in turn; leases last; no handler is left in
\* the middle of a call; and where runs overlap the program has no task that
\* may throw.
THEOREM UndisturbedScenariosPass ==
  ASSUME DefaultLease > 0, ShortLease > 0
  PROVE  Spec => [](Plain(program) => ScenariosPass)
<1>1. CalmInPlain /\ WorkflowsInv => (Plain(program) => ScenariosPass)
  <2> SUFFICES ASSUME CalmInv, WorkflowsInv, ~disturbed, ~crossed
               PROVE  /\ \A t \in Task : finished[t] <= 1
                      /\ program.generated = {} /\ program.runs # "overlap" =>
                           \A r \in Run : flow[r]["outer"].pc = "failed" =>
                             r = 1 /\ program.throws # {}
    BY DEF ScenariosPass, CalmInPlain
  <2>1. \A t \in Task : finished[t] <= 1
    BY DEF CalmInv, DonePart
  <2>2. ASSUME program.generated = {}, program.runs # "overlap",
               NEW r \in Run, flow[r]["outer"].pc = "failed"
        PROVE  r = 1 /\ program.throws # {}
    <3>1. FailPart(r) /\ "outer" \in Flow
      BY <2>2, ProgramIs DEF CalmInv, PassInv, WorkflowsInv, StateInv
    <3> QED
      BY <2>2, <3>1 DEF FailPart
  <2> QED
    BY <2>1, <2>2
<1>2. Spec => []CalmInPlain
  BY CalmHolds
<1> QED
  BY <1>1, <1>2, TypesHold, PTL
=============================================================================
