---------------------------- MODULE MCWorkflows ----------------------------
(* Workflows on the programs of the repository.                             *)
EXTENDS Workflows

AllPrograms ==
  {OneTask, FourTasks, Nested, NestedOnce, Expiry, SameWorkflow,
   DifferentWorkflow, HandlePayment, Joint}

OneFault == [p \in AllPrograms |-> IF p \in {Joint, Nested} THEN 0 ELSE 1]

TasksIn(p) ==
  UNION {UNION {p.steps[w][i] : i \in DOMAIN p.steps[w]} : w \in DOMAIN p.steps}

TaskNames == UNION {TasksIn(p) : p \in AllPrograms}
Keys == TaskNames \cup Uuid

\* Bound: runs that overlap meet a fault or a handler left in the middle, not
\* both.
FaultOrPieces == program.runs = "overlap" => ~(crossed /\ faults > 0)
=============================================================================
