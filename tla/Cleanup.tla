------------------------------ MODULE Cleanup ------------------------------
(***************************************************************************)
(* The retention of a workflow that was completed and is not called again: *)
(* cron (server/src/cron) runs handle_workflow_cleanup on every node every *)
(* ten seconds, each of its deletes may fail, and nodes may restart.       *)
(***************************************************************************)
EXTENDS WorkflowService

\* Whatever the run of the workflow, or an earlier job, has left.
CompletedInit ==
  /\ \E t \in Retention : workflow = [status |-> Completed, expire_at |-> t]
  /\ fencingToken \in {1, None}
  /\ checkpoints \in [Position -> CheckpointRow \cup {None}]
  /\ leases = [p \in Position |-> None]
  /\ now = 0
  /\ FramesInit
  /\ BookkeepingInit

CleanupNext ==
  \/ \E k \in Sweep : CleanupStep(k)
  \/ Restart
  \/ Tick

\* Cron fires again and a job that was started goes on; time passes.
CleanupFairness ==
  /\ \A k \in Sweep :
       /\ WF_vars(CleanupStart(k))
       /\ WF_vars(CleanupTokens(k))
       /\ WF_vars(CleanupCheckpoints(k))
       /\ WF_vars(CleanupWorkflows(k))
  /\ WF_vars(Tick)

CleanupSpec == CompletedInit /\ [][CleanupNext]_vars /\ CleanupFairness

\* The tables hold something of the workflow.
DataLeft ==
  \/ workflow # None \/ fencingToken # None
  \/ \E p \in Position : checkpoints[p] # None

\* Nothing of a completed workflow stays for ever, although the deletes are
\* three statements without a transaction, any of which may fail, in jobs that
\* overlap.
EventuallyDeleted == <>[]~DataLeft
=============================================================================
