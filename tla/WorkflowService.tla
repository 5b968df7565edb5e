-------------------------- MODULE WorkflowService --------------------------
(***************************************************************************)
(* server/src/services/workflow_service.rs: starting and completing a      *)
(* workflow, and the job that deletes completed ones past their retention. *)
(***************************************************************************)
EXTENDS ServerState

(* create_workflow                                                         *)

\* Both statements of the join! run to completion; the result of the first
\* is discarded, so its failure is not noticed.
StartInsertRow(c) ==
  /\ at[c] = "start" /\ "row" \in todo[c]
  /\ workflow' = InsertWorkflow(workflow)
  /\ Joined(c, "row")
  /\ UNCHANGED <<fencingToken, checkpoints, leases, now, at, arg, reply, token,
                 lease, expireAt, sweep, bookkeeping>>

StartInsertRowFails(c) ==
  /\ at[c] = "start" /\ "row" \in todo[c]
  /\ Fault
  /\ Joined(c, "row")
  /\ UNCHANGED <<stores, at, arg, reply, token, lease, expireAt, sweep, drawn,
                 history>>

StartIncrement(c) ==
  /\ at[c] = "start" /\ "token" \in todo[c]
  /\ fencingToken' = IncrementToken(fencingToken)
  /\ token' = [token EXCEPT ![c] = fencingToken']
  /\ Joined(c, "token")
  /\ UNCHANGED <<workflow, checkpoints, leases, now, at, arg, reply, lease,
                 expireAt, sweep, bookkeeping>>

StartReturn(c) ==
  /\ at[c] = "start" /\ todo[c] = {}
  /\ Answer(c, [kind |-> "token", fencing_token |-> token[c]])
  /\ issued' = issued \cup {token[c]}
  /\ UNCHANGED <<stores, sweep, drawn, floor, faults>>

-----------------------------------------------------------------------------
(* finish_workflow                                                         *)

\* The comparison refuses a token newer than the stored one; an older one is
\* let through.
FinishRefused(c) == fencingToken < arg[c].fencing_token

FinishReadToken(c) ==
  /\ at[c] = "complete_read"
  /\ \/ /\ fencingToken = None
        /\ Answer(c, Error("fencing_token_not_found"))
     \/ /\ fencingToken # None /\ FinishRefused(c)
        /\ Answer(c, Error("fencing_token_expired"))
     \/ /\ fencingToken # None /\ ~FinishRefused(c)
        /\ at' = [at EXCEPT ![c] = "complete_update"]
        /\ expireAt' = [expireAt EXCEPT ![c] = now + arg[c].expire_after]
        /\ UNCHANGED <<arg, reply, todo, token, lease>>
  /\ UNCHANGED <<stores, sweep, bookkeeping>>

FinishUpdate(c) ==
  /\ at[c] = "complete_update"
  /\ workflow' = CompleteWorkflow(workflow, expireAt[c])
  /\ Answer(c, Done("completed"))
  /\ UNCHANGED <<fencingToken, checkpoints, leases, now, sweep, bookkeeping>>

-----------------------------------------------------------------------------
(* handle_workflow_cleanup, started by cron on every node.  Which node is  *)
(* the leader is asked once, at the start, so jobs of two nodes can        *)
(* overlap: any of them may start.                                         *)

CleanupStart(k) ==
  /\ sweep[k] = None
  /\ sweep' = [sweep EXCEPT ![k] =
                 [timestamp |-> now, todo |-> {"tokens", "checkpoints"}]]
  /\ UNCHANGED <<stores, frames, bookkeeping>>

\* DELETE ... WHERE workflow_id IN (SELECT id ... WHERE expired).  No token of
\* this id is left to compare with: the floors of its calls fall to zero.
CleanupTokens(k) ==
  /\ sweep[k] # None /\ "tokens" \in sweep[k].todo
  /\ sweep' = [sweep EXCEPT ![k].todo = @ \ {"tokens"}]
  /\ IF Expired(workflow, sweep[k].timestamp)
     THEN /\ fencingToken' = None
          /\ floor' = [c \in Call |-> 0]
     ELSE UNCHANGED <<fencingToken, floor>>
  /\ UNCHANGED <<workflow, checkpoints, leases, now, frames, drawn, issued,
                 faults>>

CleanupCheckpoints(k) ==
  /\ sweep[k] # None /\ "checkpoints" \in sweep[k].todo
  /\ sweep' = [sweep EXCEPT ![k].todo = @ \ {"checkpoints"}]
  /\ checkpoints' = IF Expired(workflow, sweep[k].timestamp)
                    THEN [p \in Position |-> None]
                    ELSE checkpoints
  /\ UNCHANGED <<workflow, fencingToken, leases, now, frames, bookkeeping>>

\* Slip: the workflow's own row does not wait for the other deletes.
CleanupWorkflowsEarly(k) ==
  /\ sweep[k] # None
  /\ sweep' = [sweep EXCEPT ![k] = None]
  /\ workflow' =
       IF Expired(workflow, sweep[k].timestamp) THEN None ELSE workflow
  /\ UNCHANGED <<fencingToken, checkpoints, leases, now, frames, bookkeeping>>

\* The workflow's own row goes last, and only if both deletes succeeded: a
\* job cut short leaves it for the next one to find.
CleanupWorkflows(k) ==
  /\ sweep[k] # None /\ sweep[k].todo = {}
  /\ sweep' = [sweep EXCEPT ![k] = None]
  /\ workflow' =
       IF Expired(workflow, sweep[k].timestamp) THEN None ELSE workflow
  /\ UNCHANGED <<fencingToken, checkpoints, leases, now, frames, bookkeeping>>

\* A delete fails; join! still runs the other one, or this one comes second.
CleanupFails(k) ==
  /\ sweep[k] # None
  /\ Fault
  /\ sweep' = [sweep EXCEPT ![k] = None]
  /\ UNCHANGED <<stores, frames, drawn, history>>

-----------------------------------------------------------------------------
WorkflowServiceStep(c) ==
  \/ StartInsertRow(c) \/ StartInsertRowFails(c) \/ StartIncrement(c)
  \/ StartReturn(c)
  \/ FinishReadToken(c) \/ FinishUpdate(c)

CleanupStep(k) ==
  \/ CleanupStart(k) \/ CleanupTokens(k) \/ CleanupCheckpoints(k)
  \/ CleanupWorkflows(k) \/ CleanupFails(k)
=============================================================================
