---------------------------- MODULE ProjectPlan ----------------------------
(***************************************************************************)
(* The plan of a run: the list of file tasks the task scheduler obtained   *)
(* from the model, and the questions the graph asks of it                  *)
(* (core/orchestrator/state.py, FileTask and ProjectPlan).                 *)
(*                                                                         *)
(* A plan is a sequence of tasks, in the order of ProjectPlan.files.  Two  *)
(* tasks may have the same path and a dependency may name a path that no   *)
(* task has: nothing in the code rejects either.  The status of the tasks  *)
(* is kept apart, in a function fs with the domain of the plan.            *)
(***************************************************************************)
EXTENDS Naturals, Sequences

CONSTANT Paths                  \* the file paths a plan may mention

FileTask == [file_path : Paths, dependencies : SUBSET Paths]

FileStatus ==
  {"pending", "generating", "validating", "repairing", "failed", "done"}

\* The statuses a task has while _generate_file_node works on it.
InFlight == {"generating", "validating", "repairing"}

\* The statuses no code of the repository ever leaves.
Settled == {"failed", "done"}

DonePaths(plan, fs) ==
  {plan[i].file_path : i \in {j \in DOMAIN plan : fs[j] = "done"}}

\* Seeded faults: the dependencies are ignored; a failed task is taken again.
ReadyAtOnce(plan, fs) == {i \in DOMAIN plan : fs[i] = "pending"}
ReadyAgain(plan, fs) ==
  {i \in DOMAIN plan :
     /\ fs[i] \in {"pending", "failed"}
     /\ plan[i].dependencies \subseteq DonePaths(plan, fs)}

ReadyTasks(plan, fs) ==
  {i \in DOMAIN plan :
     /\ fs[i] = "pending"
     /\ plan[i].dependencies \subseteq DonePaths(plan, fs)}

\* ready_tasks[0]: the first ready task in plan order.
FirstReady(plan, fs) ==
  {i \in ReadyTasks(plan, fs) : \A j \in ReadyTasks(plan, fs) : i <= j}

AllDone(plan, fs) == \A i \in DOMAIN plan : fs[i] = "done"

HasFailures(plan, fs) == \E i \in DOMAIN plan : fs[i] = "failed"
=============================================================================
