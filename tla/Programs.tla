------------------------------ MODULE Programs ------------------------------
(***************************************************************************)
(* The workflows that the repository's tests, measurements and example     *)
(* run, as data: which tasks are executed in which order, which of them    *)
(* run a workflow of their own, which throw, and what is done at the end.  *)
(* Module Workflows runs them.  A task is named by its idempotency key.    *)
(***************************************************************************)
EXTENDS Naturals, Sequences, TLC

CONSTANTS
  DefaultLease,   \* leaseTimeout of an execute that gives none
  ShortLease      \* the one that one test gives

(* A program:                                                              *)
(*   steps         for each workflow, the tasks of each step; those of one *)
(*                 step are executed together                              *)
(*   inner         the workflow that a task runs, for the tasks that do    *)
(*   throws        tasks that throw in the first run                       *)
(*   short         tasks with the short lease                              *)
(*   generated     tasks whose key is generated                            *)
(*   ending        whether complete is called: "never", "atEnd", or        *)
(*                 "always", that is, after an error too                   *)
(*   runs          how a second run comes about: "none", "retry" when the  *)
(*                 one before has ended, or "overlap"                      *)
Sequentially(tasks) ==
  [steps |-> "outer" :> [i \in DOMAIN tasks |-> {tasks[i]}],
   inner |-> <<>>, throws |-> {}, short |-> {}, generated |-> {},
   ending |-> "atEnd", runs |-> "retry"]

\* bdd_tests, "Successful execution of a task with cached results": a task is
\* executed in two runs, none of which completes the workflow.
OneTask == [Sequentially(<<"input">>) EXCEPT !.ending = "never"]

\* bdd_tests, "Workflow Idempotency": the third of four tasks fails at first.
FourTasks ==
  [Sequentially(<<"task1", "task2", "task3", "task4">>)
     EXCEPT !.throws = {"task3"}, !.short = {"task3"}]

\* bdd_tests, "Workflow within a workflow": the tasks of the inner one, of
\* which the second fails at first, and the outer one.
InnerTasks == <<{"task5"}, {"task6"}, {"task7"}>>

Nested ==
  [Sequentially(<<"task1", "task2", "task3", "task4">>)
     EXCEPT !.steps = @ @@ "inner" :> InnerTasks,
            !.inner = "task2" :> "inner",
            !.throws = {"task6"}]

\* README, "Nested Workflows".
NestedOnce ==
  [Sequentially(<<"outer-task1">>)
     EXCEPT !.steps = @ @@ "inner" :> <<{"inner-task1"}>>,
            !.inner = "outer-task1" :> "inner"]

\* bdd_tests, "Persisting a task result with a TTL".
Expiry == [Sequentially(<<"task">>) EXCEPT !.runs = "none"]

\* overhead_tests/parallel-same-workflow.js: everyone runs one workflow id.
\* Two of its five tasks, which are alike.
SameWorkflow ==
  [Sequentially(<<"task1", "task2">>)
     EXCEPT !.runs = "overlap"]

\* overhead_tests/parallel-different-workflow.js: each id is run once, and
\* completed even if a task has failed.
DifferentWorkflow ==
  [Sequentially(<<"task1", "task2", "task3", "task4", "task5", "task6">>)
     EXCEPT !.ending = "always", !.runs = "none"]

\* The NestJS example: the payment is created under a generated key.
HandlePayment ==
  [Sequentially(<<"createPayment", "Save payment", "Get payment">>)
     EXCEPT !.generated = {"createPayment"}]

\* An application that awaits two calls of execute together (Promise.all).
Joint ==
  [Sequentially(<<>>) EXCEPT !.steps = "outer" :> <<{"task1", "task2"}>>]

Leases(program, t) == IF t \in program.short THEN ShortLease ELSE DefaultLease
=============================================================================
