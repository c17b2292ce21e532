--------------------------- MODULE PipelineProofs ---------------------------
(***************************************************************************)
(* Proofs about Pipeline, for all plans, limits and token costs.           *)
(*                                                                         *)
(* IInv is inductive.  Its proof follows the three kinds of steps of the   *)
(* graph: an agent that returns with no file in flight (AgentStep), a step *)
(* of generate_file that moves its task on (InFlightStep), and one that    *)
(* settles it and leaves the node (SettleStep).  The safety properties are *)
(* conjuncts of IInv; FileStep says what a step may do to the files, from  *)
(* which SettledForever and the implementation of FileBoard follow.        *)
(***************************************************************************)
EXTENDS Pipeline, TLAPS

\* A plan is not None, its tasks are numbered from 1, and the paths it names
\* are paths.
LEMMA PlanShape ==
  ASSUME NEW plan \in Plans
  PROVE  /\ plan # None
         /\ DOMAIN plan = 1..Len(plan) /\ Len(plan) \in Nat
         /\ 0 \notin DOMAIN plan
         /\ \A i \in DOMAIN plan :
              /\ plan[i].file_path \in Paths
              /\ plan[i].dependencies \subseteq Paths
  <1>1. plan # None /\ plan \in Seq(FileTask)
    BY PlansAssumption
  <1>2. DOMAIN plan = 1..Len(plan) /\ Len(plan) \in Nat
    BY <1>1
  <1>3. \A i \in DOMAIN plan : plan[i] \in FileTask
    BY <1>1
  <1>4. \A i \in DOMAIN plan : /\ plan[i].file_path \in Paths
                               /\ plan[i].dependencies \subseteq Paths
    BY <1>3 DEF FileTask
  <1> QED BY <1>1, <1>2, <1>4

\* create_initial_state establishes the invariant.
LEMMA InitIInv == Init => IInv
  <1> SUFFICES ASSUME Init PROVE IInv
    OBVIOUS
  <1> USE PlansAssumption, LimitsAssumption DEF Init
  <1>1. TypeOK
    <2>1. Tasks = {}
      BY DEF Tasks
    <2>2. /\ file_status \in [Tasks -> FileStatus]
          /\ repair_attempts \in [Tasks -> Nat]
          /\ generated_files \in Seq(Paths)
      BY <2>1
    <2>3. disk \in [Paths -> Tasks \cup {0}]
      BY <2>1
    <2>4. /\ steps \in 0..RECURSION_LIMIT
          /\ attempts \in 0..MAX_FILE_RETRIES
          /\ tokens_used \in 0..(MAX_TOKENS + 1)
      OBVIOUS
    <2> QED
      BY <2>1, <2>2, <2>3, <2>4
      DEF TypeOK, Nodes, Stopped, GenerateSteps, Status, RunStatus
  <1>2. /\ LoopInv /\ PhaseInv /\ OneFileInFlight /\ DependenciesFirst
        /\ OnlyDoneFilesOnDisk /\ CompletedMeansAllDone /\ IterationsBounded
    BY DEF LoopInv, PhaseInv, OneFileInFlight, DependenciesFirst, Tasks,
           OnlyDoneFilesOnDisk, CompletedMeansAllDone, IterationsBounded, Nodes
  <1> QED BY <1>1, <1>2 DEF IInv

\* Changing the status of a task that is not done loses no done path.
LEMMA DonePathsGrow ==
  ASSUME NEW plan, NEW fs \in [DOMAIN plan -> FileStatus],
         NEW i \in DOMAIN plan, fs[i] # "done", NEW v
  PROVE  DonePaths(plan, fs) \subseteq DonePaths(plan, [fs EXCEPT ![i] = v])
  BY DEF DonePaths

\* A node that finds no task in flight, and leaves the plan, the loop and the
\* disk alone, preserves the invariant if what it returns is well typed, says
\* "done" only of a finished plan and routes within the iteration bound.
LEMMA AgentStep ==
  ASSUME IInv, node \in Nodes, step = "pick",
         UNCHANGED <<planVars, loopVars, disk, generated_files,
                     validation_errors, inputVars>>,
         NEW st \in Status, NEW next \in (Nodes \ {"architect"}) \cup {"end"},
         Leave(st, next),
         st = "done" =>
           project_plan # None /\ AllDone(project_plan, file_status),
         next = "planner" => project_plan = None,
         next \in {"planner", "generate_file", "tester"} =>
           iteration_count' < MAX_ITERATIONS,
         iteration_count' \in Nat, iteration_count' <= MAX_ITERATIONS,
         project_blueprint' \in {"none", "compatible", "incompatible"},
         tokens_used' \in 0..(MAX_TOKENS + 1),
         current_file_index' \in Nat,
         test_results' \in {None, 0, 1},
         tester_errors' \in Nat,
         pytest_failed' \in BOOLEAN, reviewed' \in BOOLEAN
  PROVE  IInv'
  <1> USE LimitsAssumption
  <1>1. /\ UNCHANGED <<project_plan, file_status, repair_attempts, step,
                       current, attempts, disk>>
        /\ Tasks' = Tasks
    BY DEF planVars, loopVars, Tasks
  <1>2. /\ steps' \in 0..RECURSION_LIMIT
        /\ node' \in (Nodes \ {"architect"}) \cup Stopped
        /\ node' \in Nodes => node' = next /\ steps' < RECURSION_LIMIT
    BY DEF Leave, Goto, IInv, TypeOK, PhaseInv, Nodes, Stopped
  <1>3. /\ status' = st
        /\ run_status' = DeriveRunStatus(st, project_plan, file_status)
        /\ run_status' \in RunStatus
        /\ run_status' = "completed" => st = "done"
    BY <1>1 DEF Leave, DeriveRunStatus, RunStatus
  <1>4. TypeOK'
    BY <1>1, <1>2, <1>3 DEF IInv, TypeOK, inputVars
  <1>5. LoopInv'
    BY <1>1 DEF LoopInv
  <1>6. PhaseInv'
    BY <1>1, <1>2, <1>3 DEF PhaseInv, Nodes, Stopped, AllDone
  <1>7. OneFileInFlight'
    BY <1>1 DEF IInv, OneFileInFlight, AtGenerate
  <1>8. DependenciesFirst' /\ OnlyDoneFilesOnDisk'
    BY <1>1 DEF IInv, DependenciesFirst, OnlyDoneFilesOnDisk, DonePaths
  <1>9. CompletedMeansAllDone' /\ IterationsBounded'
    BY <1>1, <1>3 DEF CompletedMeansAllDone, IterationsBounded, AllDone
  <1> QED
    BY <1>4, <1>5, <1>6, <1>7, <1>8, <1>9 DEF IInv

\* Moving one unsettled task whose dependencies are done to another status:
\* the plan is unfinished, so the run is neither done nor shown as completed.
LEMMA TaskStep ==
  ASSUME IInv, NEW i \in Tasks, NEW v \in FileStatus,
         file_status[i] \notin Settled,
         project_plan[i].dependencies
           \subseteq DonePaths(project_plan, file_status),
         file_status' = [file_status EXCEPT ![i] = v],
         UNCHANGED project_plan
  PROVE  /\ project_plan # None /\ Tasks = DOMAIN project_plan
         /\ i # 0
         /\ Tasks' = Tasks
         /\ file_status \in [Tasks -> FileStatus]
         /\ file_status' \in [Tasks -> FileStatus]
         /\ status # "done" /\ run_status # "completed"
         /\ DependenciesFirst'
  <1>1. /\ project_plan # None /\ Tasks = DOMAIN project_plan
        /\ i # 0
        /\ file_status \in [Tasks -> FileStatus]
    BY PlanShape DEF IInv, TypeOK, Tasks
  <1>2. Tasks' = Tasks /\ file_status' \in [Tasks -> FileStatus]
    BY <1>1 DEF Tasks
  <1>3. status # "done" /\ run_status # "completed"
    BY <1>1 DEF IInv, PhaseInv, CompletedMeansAllDone, AllDone, Settled
  <1>4. DonePaths(project_plan, file_status)
          \subseteq DonePaths(project_plan, file_status')
    BY <1>1, DonePathsGrow DEF Settled
  <1>5. DependenciesFirst'
    BY <1>1, <1>2, <1>4 DEF IInv, DependenciesFirst
  <1> QED BY <1>1, <1>2, <1>3, <1>5

\* Within generate_file the current task is in flight, and its dependencies
\* are done.
LEMMA CurrentTask ==
  ASSUME IInv, node = "generate_file", step # "pick"
  PROVE  /\ current \in Tasks
         /\ file_status[current] \in InFlight
         /\ file_status[current] \notin Settled
         /\ \A i \in Tasks : i # current => file_status[i] \notin InFlight
         /\ project_plan[current].dependencies
              \subseteq DonePaths(project_plan, file_status)
  <1>1. current \in Tasks
    BY DEF IInv, LoopInv
  <1>2. /\ file_status[current] \in InFlight
        /\ \A i \in Tasks : i # current => file_status[i] \notin InFlight
    BY <1>1 DEF IInv, OneFileInFlight
  <1>3. file_status[current] \notin Settled /\ file_status[current] # "pending"
    BY <1>2 DEF InFlight, Settled
  <1> QED BY <1>1, <1>2, <1>3 DEF IInv, DependenciesFirst

\* A step inside generate_file that puts the task of the loop in flight, or
\* moves it on, and leaves what is settled alone.
LEMMA InFlightStep ==
  ASSUME IInv, node = "generate_file",
         NEW i \in Tasks, file_status[i] \notin Settled,
         \A j \in Tasks \ {i} : file_status[j] \notin InFlight,
         project_plan[i].dependencies
           \subseteq DonePaths(project_plan, file_status),
         NEW v \in InFlight,
         file_status' = [file_status EXCEPT ![i] = v],
         current' = i, step' \in GenerateSteps \ {"pick"},
         attempts' \in 0..MAX_FILE_RETRIES,
         repair_attempts' \in [Tasks -> Nat],
         status' \in {status, "failed"},
         tokens_used' \in 0..(MAX_TOKENS + 1),
         UNCHANGED <<node, steps, run_status, project_blueprint, project_plan,
                     fileVars, testVars, reviewed, inputVars>>
  PROVE  IInv'
  <1>1. v \in FileStatus /\ v \notin Settled /\ v # "done"
    BY DEF InFlight, FileStatus, Settled
  <1>2. /\ project_plan # None /\ i # 0
        /\ Tasks' = Tasks
        /\ file_status \in [Tasks -> FileStatus]
        /\ file_status' \in [Tasks -> FileStatus]
        /\ status # "done" /\ run_status # "completed"
        /\ DependenciesFirst'
    BY <1>1, TaskStep
  <1>3. TypeOK'
    BY <1>2 DEF IInv, TypeOK, fileVars, testVars, inputVars, Status
  <1>4. LoopInv' /\ PhaseInv'
    BY <1>2 DEF IInv, LoopInv, PhaseInv, testVars
  <1>5. OneFileInFlight'
    BY <1>2 DEF OneFileInFlight, AtGenerate
  <1>6. OnlyDoneFilesOnDisk'
    BY <1>2 DEF IInv, TypeOK, OnlyDoneFilesOnDisk, fileVars, Settled
  <1>7. CompletedMeansAllDone' /\ IterationsBounded'
    BY <1>2 DEF IInv, CompletedMeansAllDone, IterationsBounded, testVars
  <1> QED BY <1>2, <1>3, <1>4, <1>5, <1>6, <1>7 DEF IInv

\* A step that settles the current task and leaves generate_file, by a return
\* or by an exception; only a task that is done may reach the disk.
LEMMA SettleStep ==
  ASSUME IInv, node = "generate_file", step # "pick", NEW v \in Settled,
         file_status' = [file_status EXCEPT ![current] = v],
         step' = "pick", current' = 0, attempts' = 0,
         status' \in {status, "failed"}, run_status' \in {run_status, "failed"},
         node' \in {"generate_file", "tester", "aborted"},
         steps' \in 0..RECURSION_LIMIT,
         node' # "aborted" => steps' < RECURSION_LIMIT,
         tokens_used' \in 0..(MAX_TOKENS + 1),
         generated_files' \in Seq(Paths),
         current_file_index' \in Nat,
         validation_errors' \subseteq Paths,
         \/ disk' = disk
         \/ /\ v = "done"
            /\ disk' = [disk EXCEPT ![project_plan[current].file_path] = current],
         UNCHANGED <<project_blueprint, project_plan, repair_attempts, testVars,
                     reviewed, inputVars>>
  PROVE  IInv'
  <1> USE LimitsAssumption
  <1>1. /\ current \in Tasks
        /\ file_status[current] \notin Settled
        /\ \A i \in Tasks : i # current => file_status[i] \notin InFlight
        /\ project_plan[current].dependencies
             \subseteq DonePaths(project_plan, file_status)
    BY CurrentTask
  <1>2. v \in FileStatus /\ v \notin InFlight
    BY DEF FileStatus, Settled, InFlight
  <1>3. /\ project_plan # None /\ Tasks = DOMAIN project_plan
        /\ Tasks' = Tasks
        /\ file_status \in [Tasks -> FileStatus]
        /\ file_status' \in [Tasks -> FileStatus]
        /\ status # "done" /\ run_status # "completed"
        /\ DependenciesFirst'
    BY <1>1, <1>2, TaskStep
  <1>4. project_plan[current].file_path \in Paths
    BY <1>1, <1>3, PlanShape DEF IInv, TypeOK
  <1>5. disk \in [Paths -> Tasks \cup {0}] /\ disk' \in [Paths -> Tasks \cup {0}]
    BY <1>1, <1>4 DEF IInv, TypeOK
  <1>6. TypeOK'
    BY <1>3, <1>5 DEF IInv, TypeOK, Nodes, Stopped, Status, RunStatus,
                      GenerateSteps, testVars, inputVars
  <1>7. LoopInv' /\ PhaseInv'
    BY <1>1, <1>3 DEF IInv, LoopInv, PhaseInv, Nodes, testVars
  <1>8. OneFileInFlight'
    BY <1>1, <1>2, <1>3 DEF OneFileInFlight
  <1>9. OnlyDoneFilesOnDisk'
    <2> SUFFICES ASSUME NEW p \in Paths, disk'[p] # 0
                 PROVE  /\ file_status'[disk'[p]] = "done"
                        /\ project_plan[disk'[p]].file_path = p
      BY DEF OnlyDoneFilesOnDisk
    <2>1. CASE disk'[p] = disk[p]
      <3>1. /\ disk[p] \in Tasks
            /\ file_status[disk[p]] = "done"
            /\ project_plan[disk[p]].file_path = p
        BY <2>1, <1>5 DEF IInv, OnlyDoneFilesOnDisk
      <3>2. disk[p] # current
        BY <3>1, <1>1 DEF Settled
      <3> QED BY <2>1, <3>1, <3>2, <1>3
    <2>2. CASE disk'[p] # disk[p]
      <3>1. /\ v = "done" /\ p = project_plan[current].file_path
            /\ disk'[p] = current
        BY <2>2, <1>4, <1>5
      <3> QED BY <3>1, <1>1, <1>3
    <2> QED BY <2>1, <2>2
  <1>10. CompletedMeansAllDone' /\ IterationsBounded'
    BY <1>3 DEF IInv, CompletedMeansAllDone, IterationsBounded, testVars
  <1> QED BY <1>3, <1>6, <1>7, <1>8, <1>9, <1>10 DEF IInv

\* Where generate_file goes next.
LEMMA RouteFilesRange ==
  ASSUME NEW plan, NEW fs
  PROVE  RouteFiles(plan, fs) \in {"generate_file", "tester"}
  BY DEF RouteFiles

\* What leaving generate_file does to the position of the run, whether the
\* recursion limit stops it or not.
LEMMA LeaveGenerate ==
  ASSUME IInv, node = "generate_file",
         NEW next \in {"generate_file", "tester"}, Goto(next)
  PROVE  /\ node' \in {"generate_file", "tester", "aborted"}
         /\ steps' \in 0..RECURSION_LIMIT
         /\ node' # "aborted" => steps' < RECURSION_LIMIT
  BY LimitsAssumption DEF IInv, TypeOK, PhaseInv, Goto, Nodes

\* The tokens counted stay in their saturated range.
LEMMA SpendRange ==
  ASSUME IInv, NEW cost \in TokenCosts
  PROVE  Spend(cost) \in 0..(MAX_TOKENS + 1)
  BY LimitsAssumption DEF IInv, TypeOK, Spend

\* Failing the current task preserves the invariant, whether its log can be
\* written or raises.
LEMMA FailTaskStep ==
  ASSUME IInv, node = "generate_file", step # "pick",
         NEW st \in {status, "failed"},
         NEW errors \in SUBSET Paths, FailTask(st, errors),
         tokens_used' \in 0..(MAX_TOKENS + 1)
  PROVE  IInv'
  <1>2. PICK call \in ArtifactCalls :
          IF call = "raised"
            THEN /\ Abort
                 /\ status' = st
                 /\ UNCHANGED <<run_status, validation_errors>>
            ELSE /\ validation_errors' = validation_errors \cup errors
                 /\ Leave("failed", RouteFiles(project_plan, file_status'))
    BY DEF FailTask
  <1>3. CASE call = "raised"
    <2>1. /\ node' = "aborted" /\ steps' = steps /\ status' = st
          /\ UNCHANGED <<run_status, validation_errors>>
      BY <1>2, <1>3 DEF Abort
    <2> QED BY <2>1, SettleStep
      DEF FailTask, SettleCurrent, IInv, TypeOK, Settled
  <1>4. CASE call # "raised"
    <2>1. /\ status' = "failed" /\ run_status' = "failed"
          /\ Goto(RouteFiles(project_plan, file_status'))
          /\ validation_errors' = validation_errors \cup errors
      BY <1>2, <1>4 DEF Leave, DeriveRunStatus
    <2>2. /\ node' \in {"generate_file", "tester", "aborted"}
          /\ steps' \in 0..RECURSION_LIMIT
          /\ node' # "aborted" => steps' < RECURSION_LIMIT
      BY <2>1, RouteFilesRange, LeaveGenerate
    <2> QED BY <2>1, <2>2, SettleStep
      DEF FailTask, SettleCurrent, IInv, TypeOK, Settled
  <1> QED BY <1>3, <1>4

\* Finishing the current task preserves the invariant, wherever the writes of
\* its content, its status and its log stop.
LEMMA CompleteTaskStep ==
  ASSUME IInv, node = "generate_file", step # "pick",
         NEW st \in {status, "failed"}, CompleteTask(st),
         tokens_used' \in 0..(MAX_TOKENS + 1)
  PROVE  IInv'
  <1> DEFINE path == project_plan[current].file_path
             onDisk == [disk EXCEPT ![path] = current]
  <1>1. current \in Tasks
    BY CurrentTask
  <1>2. path \in Paths
    BY <1>1, PlanShape DEF IInv, TypeOK, Tasks
  <1>3. PICK call \in ArtifactCalls :
          IF call = "raised"
            THEN /\ Abort
                 /\ disk' \in {disk, onDisk}
                 /\ UNCHANGED <<generated_files, current_file_index>>
            ELSE /\ disk' = IF call = "written" THEN onDisk ELSE disk
                 /\ generated_files' = Append(generated_files, path)
                 /\ current_file_index' = current_file_index + 1
                 /\ Goto(RouteFiles(project_plan, file_status'))
    BY DEF CompleteTask
  <1>4. /\ disk' = disk \/ disk' = onDisk
        /\ generated_files' \in Seq(Paths) /\ current_file_index' \in Nat
    <2>1. generated_files \in Seq(Paths) /\ current_file_index \in Nat
      BY DEF IInv, TypeOK
    <2>2. Append(generated_files, path) \in Seq(Paths)
      BY <2>1, <1>2
    <2>3. CASE call = "raised"
      BY <1>3, <2>1, <2>3
    <2>4. CASE call # "raised"
      <3>1. /\ disk' = IF call = "written" THEN onDisk ELSE disk
            /\ generated_files' = Append(generated_files, path)
            /\ current_file_index' = current_file_index + 1
        BY <1>3, <2>4
      <3>2. generated_files' \in Seq(Paths)
        BY <3>1, <2>2
      <3> QED BY <3>1, <3>2, <2>1
    <2> QED BY <2>3, <2>4
  <1>5. /\ node' \in {"generate_file", "tester", "aborted"}
        /\ steps' \in 0..RECURSION_LIMIT
        /\ node' # "aborted" => steps' < RECURSION_LIMIT
    <2>1. CASE call = "raised"
      BY <1>3, <2>1 DEF Abort, IInv, TypeOK
    <2>2. CASE call # "raised"
      BY <1>3, <2>2, RouteFilesRange, LeaveGenerate
    <2> QED BY <2>1, <2>2
  <1> QED
    BY <1>4, <1>5, SettleStep
    DEF CompleteTask, SettleCurrent, IInv, TypeOK, Settled

\* Every step of the graph preserves the invariant: one case per action.
LEMMA NextIInv == IInv /\ [Next]_vars => IInv'
  <1> SUFFICES ASSUME IInv, [Next]_vars PROVE IInv'
    OBVIOUS
  <1> USE LimitsAssumption
  <1>a. /\ node \in Nodes \ {"generate_file"} => step = "pick"
        /\ status \in Status
        /\ iteration_count \in Nat /\ iteration_count <= MAX_ITERATIONS
        /\ status = "done" =>
             project_plan # None /\ AllDone(project_plan, file_status)
        /\ \A cost \in TokenCosts : Spend(cost) \in 0..(MAX_TOKENS + 1)
    BY SpendRange DEF IInv, TypeOK, LoopInv, PhaseInv, IterationsBounded, Nodes
  <1>b. \A spent : Charge(spent, status) \in {status, "failed"}
    BY DEF Charge
  <1>1. CASE ArchitectFails
    BY <1>1, <1>a, AgentStep
    DEF ArchitectFails, planVars, loopVars, fileVars, testVars, IInv, TypeOK,
        PhaseInv, Nodes, Status
  <1>2. CASE ArchitectDesigns
    <2>1. PICK verdict \in {"compatible", "incompatible"} :
            /\ project_blueprint' = verdict
            /\ UNCHANGED planVars
            /\ Leave(IF verdict = "compatible" THEN "planning" ELSE "failed",
                     "planner")
      BY <1>2 DEF ArchitectDesigns
    <2> DEFINE st == IF verdict = "compatible" THEN "planning" ELSE "failed"
    <2>2. st \in Status /\ st # "done"
      BY DEF Status
    <2> QED
      BY <1>2, <1>a, <2>1, <2>2, AgentStep
      DEF ArchitectDesigns, loopVars, fileVars, testVars, IInv, TypeOK,
          PhaseInv, Nodes
  <1>3. CASE PlannerFails
    BY <1>3, <1>a, AgentStep
    DEF PlannerFails, planVars, loopVars, fileVars, testVars, IInv, TypeOK,
        PhaseInv, Nodes, Status
  <1>4. CASE PlannerDecomposes
    <2>1. PICK plan \in Plans :
            /\ project_plan' = plan
            /\ file_status' = [i \in DOMAIN plan |-> "pending"]
            /\ repair_attempts' = [i \in DOMAIN plan |-> 0]
      BY <1>4 DEF PlannerDecomposes
    <2>2. /\ node = "planner" /\ project_plan = None /\ Tasks = {}
          /\ step = "pick" /\ current = 0
      BY <1>4, <1>a DEF PlannerDecomposes, IInv, TypeOK, PhaseInv, Tasks, Nodes
    <2>3. /\ Tasks' = DOMAIN plan /\ project_plan' # None
          /\ 0 \notin DOMAIN plan
      BY <2>1, PlanShape DEF Tasks
    <2>4. /\ status' = "planning" /\ run_status' = "running"
          /\ steps' \in 0..RECURSION_LIMIT
          /\ node' \in {"generate_file", "aborted"}
          /\ node' = "generate_file" => steps' < RECURSION_LIMIT
      BY <1>4, <2>2
      DEF PlannerDecomposes, Leave, Goto, DeriveRunStatus, IInv, TypeOK,
          PhaseInv, Nodes
    <2>5. /\ file_status' \in [Tasks' -> FileStatus]
          /\ repair_attempts' \in [Tasks' -> Nat]
          /\ \A i \in Tasks' : file_status'[i] = "pending"
      BY <2>1, <2>3 DEF FileStatus
    <2>6. /\ tokens_used' \in 0..(MAX_TOKENS + 1)
          /\ UNCHANGED <<project_blueprint, step, current, attempts, disk,
                         current_file_index, generated_files,
                         validation_errors, testVars, reviewed, inputVars>>
      BY <1>4, <1>a DEF PlannerDecomposes, loopVars, fileVars
    <2>7. disk \in [Paths -> {0}]
      BY <2>2 DEF IInv, TypeOK
    <2>8. TypeOK'
      <3>1. disk' \in [Paths -> Tasks' \cup {0}] /\ current' \in Tasks' \cup {0}
        BY <2>2, <2>6, <2>7
      <3>2. project_plan' \in Plans \cup {None}
        BY <2>1
      <3> QED
        BY <2>4, <2>5, <2>6, <3>1, <3>2
        DEF IInv, TypeOK, testVars, inputVars, Status, RunStatus, Nodes,
            Stopped
    <2>9. LoopInv' /\ PhaseInv'
      BY <2>2, <2>4, <2>6 DEF IInv, LoopInv, PhaseInv, testVars, Nodes
    <2>10. OneFileInFlight' /\ DependenciesFirst'
      BY <2>2, <2>5, <2>6
      DEF OneFileInFlight, DependenciesFirst, AtGenerate, InFlight
    <2>11. OnlyDoneFilesOnDisk'
      BY <2>6, <2>7 DEF OnlyDoneFilesOnDisk
    <2>12. CompletedMeansAllDone' /\ IterationsBounded'
      BY <2>4, <2>6 DEF IInv, CompletedMeansAllDone, IterationsBounded, testVars
    <2> QED BY <2>8, <2>9, <2>10, <2>11, <2>12 DEF IInv
  <1>5. CASE NoPlan
    <2>1. RouteFiles(project_plan, file_status) = "tester"
      BY <1>5 DEF NoPlan, RouteFiles
    <2> QED
      BY <1>5, <1>a, <2>1, AgentStep
      DEF NoPlan, AtGenerate, planVars, loopVars, fileVars, testVars, IInv,
          TypeOK, PhaseInv, Nodes, Status
  <1>6. CASE WorkspaceUnusable
    BY <1>6
    DEF WorkspaceUnusable, AtGenerate, Abort, agentVars, planVars, loopVars,
        fileVars, testVars, inputVars, IInv, TypeOK, LoopInv, PhaseInv,
        OneFileInFlight,
        DependenciesFirst, OnlyDoneFilesOnDisk, CompletedMeansAllDone,
        IterationsBounded, Tasks, Nodes, Stopped, DonePaths, AllDone
  <1>7. CASE NothingReady
    <2> DEFINE next == RouteFiles(project_plan, file_status)
    <2>1. PICK st \in Status :
            /\ Leave(st, next)
            /\ st = "done" =>
                 project_plan # None /\ AllDone(project_plan, file_status)
      BY <1>7, <1>a DEF NothingReady, Status
    <2>2. current_file_index' \in Nat
      BY <1>7, PlanShape DEF NothingReady, IInv, TypeOK
    <2> QED
      BY <1>7, <1>a, <2>1, <2>2, RouteFilesRange, AgentStep
      DEF NothingReady, AtGenerate, planVars, loopVars, testVars, IInv,
          TypeOK, PhaseInv, Nodes
  <1>8. CASE PickTask
    <2>1. PICK i \in FirstReady(project_plan, file_status) :
            /\ current' = i
            /\ file_status' = [file_status EXCEPT ![i] = "generating"]
      BY <1>8 DEF PickTask
    <2>2. /\ i \in Tasks /\ file_status[i] = "pending"
          /\ project_plan[i].dependencies
               \subseteq DonePaths(project_plan, file_status)
      BY <1>8, <2>1 DEF PickTask, FirstReady, ReadyTasks, Tasks
    <2>3. \A j \in Tasks : file_status[j] \notin InFlight
      BY <1>8 DEF PickTask, IInv, OneFileInFlight, AtGenerate
    <2>4. file_status[i] \notin Settled /\ "generating" \in InFlight
      BY <2>2 DEF Settled, InFlight
    <2>5. /\ node = "generate_file" /\ step' = "generate" /\ attempts' = 0
          /\ UNCHANGED <<node, steps, status, run_status, project_blueprint,
                         tokens_used, project_plan, repair_attempts, fileVars,
                         testVars, reviewed, inputVars>>
      BY <1>8 DEF PickTask, AtGenerate, agentVars
    <2>6. /\ attempts' \in 0..MAX_FILE_RETRIES
          /\ repair_attempts' \in [Tasks -> Nat]
          /\ tokens_used' \in 0..(MAX_TOKENS + 1)
          /\ step' \in GenerateSteps \ {"pick"}
      BY <2>5 DEF IInv, TypeOK, GenerateSteps
    <2> QED
      BY <2>1, <2>2, <2>3, <2>4, <2>5, <2>6, InFlightStep
  <1>9. CASE ProviderRetry
    BY <1>9
    DEF ProviderRetry, AtGenerate, agentVars, planVars, fileVars, testVars,
        inputVars, IInv, TypeOK, LoopInv, PhaseInv, OneFileInFlight,
        DependenciesFirst,
        OnlyDoneFilesOnDisk, CompletedMeansAllDone, IterationsBounded, Tasks,
        DonePaths, AllDone
  <1>10. CASE ProviderGivesUp
    BY <1>10, FailTaskStep DEF ProviderGivesUp, AtGenerate, IInv, TypeOK
  <1>11. CASE ProviderAnswers
    <2>1. /\ tokens_used' \in 0..(MAX_TOKENS + 1)
          /\ status' \in {status, "failed"}
      BY <1>11, <1>a, <1>b DEF ProviderAnswers
    <2> QED
      BY <1>11, <2>1, CurrentTask, InFlightStep
      DEF ProviderAnswers, AtGenerate, GenerateSteps, InFlight, IInv, TypeOK
  <1>12. CASE ContentValid
    BY <1>12, CompleteTaskStep DEF ContentValid, AtGenerate, IInv, TypeOK
  <1>13. CASE ContentInvalid
    <2>1. /\ node = "generate_file" /\ step' = "repair" /\ step # "pick"
          /\ file_status' = [file_status EXCEPT ![current] = "repairing"]
          /\ repair_attempts' = [repair_attempts EXCEPT ![current] = @ + 1]
          /\ UNCHANGED <<node, steps, status, run_status, project_blueprint,
                         tokens_used, project_plan, current, attempts,
                         fileVars, testVars, reviewed, inputVars>>
      BY <1>13 DEF ContentInvalid, AtGenerate, agentVars
    <2>2. current \in Tasks
      BY <2>1, CurrentTask
    <2>3. /\ attempts' \in 0..MAX_FILE_RETRIES
          /\ repair_attempts' \in [Tasks -> Nat]
          /\ tokens_used' \in 0..(MAX_TOKENS + 1)
          /\ step' \in GenerateSteps \ {"pick"}
      BY <2>1, <2>2 DEF IInv, TypeOK, GenerateSteps
    <2> QED
      BY <2>1, <2>2, <2>3, CurrentTask, InFlightStep DEF InFlight
  <1>c. node = "generate_file" /\ step # "pick" => project_plan[current].file_path \in Paths
    BY CurrentTask, PlanShape DEF IInv, TypeOK, Tasks
  <1>14. CASE RepairUnavailable
    BY <1>14, <1>c, FailTaskStep DEF RepairUnavailable, AtGenerate, IInv, TypeOK
  <1>15. CASE RepairAnswers
    <2>1. PICK cost \in TokenCosts :
            /\ tokens_used' = Spend(cost)
            /\ \/ CompleteTask(Charge(Spend(cost), status))
               \/ FailTask(Charge(Spend(cost), status),
                           {project_plan[current].file_path})
      BY <1>15 DEF RepairAnswers
    <2>2. /\ node = "generate_file" /\ step # "pick"
          /\ Charge(Spend(cost), status) \in {status, "failed"}
      BY <1>15, <1>b DEF RepairAnswers, AtGenerate
    <2> QED BY <2>1, <2>2, <1>a, <1>c, CompleteTaskStep, FailTaskStep
  <1>16. CASE TesterHasNoCode
    BY <1>16, <1>a, AgentStep
    DEF TesterHasNoCode, TestRound, RouteTests, planVars, loopVars, fileVars,
        IInv, TypeOK, PhaseInv, Nodes
  <1>17. CASE TesterReports
    <2>1. PICK run \in SandboxRuns,
               report \in [total : {0, 1}, failed : {0, 1}] :
            /\ TestRound(MergeSandbox(report, run.exit_code))
            /\ pytest_failed' = run.pytest_failed
      BY <1>17 DEF TesterReports
    <2>2. MergeSandbox(report, run.exit_code) \in {0, 1}
      BY DEF MergeSandbox, SandboxRuns
    <2>3. run.pytest_failed \in BOOLEAN
      BY DEF SandboxRuns
    <2>4. PICK cost \in TokenCosts :
            /\ tokens_used' = Spend(cost)
            /\ Leave(Charge(Spend(cost), status),
                     RouteTests(test_results', iteration_count'))
      BY <1>17 DEF TesterReports
    <2>5. Charge(Spend(cost), status) \in {status, "failed"}
      BY <1>b
    <2> QED
      BY <1>17, <1>a, <2>1, <2>2, <2>3, <2>4, <2>5, AgentStep
      DEF TesterReports, TestRound, RouteTests, planVars, loopVars, fileVars,
          IInv, TypeOK, PhaseInv, Nodes, Status
  <1>18. CASE TesterRaises
    <2>1. pytest_failed' \in BOOLEAN
      BY <1>18 DEF TesterRaises, SandboxRuns
    <2> QED
      BY <1>18, <1>a, <2>1, AgentStep
      DEF TesterRaises, RouteTests, planVars, loopVars, fileVars, IInv,
          TypeOK, PhaseInv, Nodes, Status
  <1>19. CASE ReviewerHasNoCode
    BY <1>19, <1>a, AgentStep
    DEF ReviewerHasNoCode, RouteReview, planVars, loopVars, fileVars, testVars,
        IInv, TypeOK, PhaseInv, Nodes
  <1>20. CASE ReviewerReports
    <2>1. PICK cost \in TokenCosts, critical \in BOOLEAN :
            LET st == IF critical THEN "waiting_approval"
                                  ELSE Charge(Spend(cost), status)
            IN tokens_used' = Spend(cost) /\ Leave(st, RouteReview(st))
      BY <1>20 DEF ReviewerReports
    <2> DEFINE st == IF critical THEN "waiting_approval"
                                 ELSE Charge(Spend(cost), status)
    <2>2. /\ st \in Status
          /\ st = "done" =>
               project_plan # None /\ AllDone(project_plan, file_status)
      BY <1>a, <1>b DEF Status
    <2> QED
      BY <1>20, <1>a, <2>1, <2>2, AgentStep
      DEF ReviewerReports, RouteReview, planVars, loopVars, fileVars, testVars,
          IInv, TypeOK, PhaseInv, Nodes
  <1>21. CASE ReviewerRaises
    BY <1>21, <1>a, AgentStep
    DEF ReviewerRaises, RouteReview, planVars, loopVars, fileVars, testVars,
        IInv, TypeOK, PhaseInv, Nodes, Status
  <1>22. CASE DocumentationHasNoCode
    BY <1>22, <1>a, AgentStep
    DEF DocumentationHasNoCode, planVars, loopVars, fileVars, testVars,
        IInv, TypeOK, PhaseInv, Nodes
  <1>23. CASE DocumentationWrites
    <2>1. PICK cost \in TokenCosts :
            /\ tokens_used' = Spend(cost)
            /\ Leave(Charge(Spend(cost), "documenting"), "end")
      BY <1>23 DEF DocumentationWrites
    <2>2. Charge(Spend(cost), "documenting") \in {"documenting", "failed"}
      BY DEF Charge
    <2> QED
      BY <1>23, <1>a, <2>1, <2>2, AgentStep
      DEF DocumentationWrites, planVars, loopVars, fileVars, testVars, IInv,
          TypeOK, PhaseInv, Nodes, Status
  <1>24. CASE DocumentationRaises
    BY <1>24, <1>a, AgentStep
    DEF DocumentationRaises, planVars, loopVars, fileVars, testVars, IInv,
        TypeOK, PhaseInv, Nodes, Status
  <1>25. CASE Finished \/ UNCHANGED vars
    <2>1. UNCHANGED <<node, step, steps, status, run_status, project_blueprint,
                      project_plan, file_status, repair_attempts, current,
                      attempts, current_file_index, generated_files,
                      validation_errors, disk, iteration_count, test_results,
                      tokens_used, tester_errors, pytest_failed, reviewed,
                      workspace_path, generated_code>>
      BY <1>25
      DEF Finished, vars, agentVars, planVars, loopVars, fileVars, testVars,
          inputVars
    <2>2. TypeOK' /\ LoopInv' /\ PhaseInv'
      BY <2>1 DEF IInv, TypeOK, LoopInv, PhaseInv, Tasks, AllDone
    <2>3. OneFileInFlight' /\ DependenciesFirst'
      BY <2>1
      DEF IInv, OneFileInFlight, DependenciesFirst, Tasks, DonePaths, AtGenerate
    <2>4. /\ OnlyDoneFilesOnDisk' /\ CompletedMeansAllDone'
          /\ IterationsBounded'
      BY <2>1
      DEF IInv, OnlyDoneFilesOnDisk, CompletedMeansAllDone, IterationsBounded,
          AllDone
    <2> QED BY <2>2, <2>3, <2>4 DEF IInv
  <1>26. CASE ValidatorRaises \/ RepairedRaises
    <2>1. /\ AtGenerate(step) /\ step # "pick"
          /\ node' = "aborted"
          /\ status' \in {status, "failed"}
          /\ tokens_used' \in 0..(MAX_TOKENS + 1)
          /\ UNCHANGED <<steps, run_status, project_blueprint, planVars,
                         loopVars, fileVars, testVars, reviewed, inputVars>>
      BY <1>26, <1>a, <1>b
      DEF ValidatorRaises, RepairedRaises, AtGenerate, Abort, agentVars, IInv,
          TypeOK
    <2>2. TypeOK'
      BY <2>1
      DEF planVars, loopVars, fileVars, testVars, inputVars, IInv, TypeOK,
          Tasks, Nodes, Stopped, Status
    <2>3. LoopInv' /\ PhaseInv' /\ OneFileInFlight'
      BY <2>1
      DEF planVars, loopVars, testVars, IInv, LoopInv, PhaseInv,
          OneFileInFlight, AtGenerate, Tasks, Nodes, AllDone
    <2>4. /\ DependenciesFirst' /\ OnlyDoneFilesOnDisk'
          /\ CompletedMeansAllDone' /\ IterationsBounded'
      BY <2>1
      DEF planVars, fileVars, testVars, IInv, DependenciesFirst,
          OnlyDoneFilesOnDisk, CompletedMeansAllDone, IterationsBounded,
          Tasks, DonePaths, AllDone
    <2> QED BY <2>2, <2>3, <2>4 DEF IInv
  <1> QED
    BY <1>1, <1>2, <1>3, <1>4, <1>5, <1>6, <1>7, <1>8, <1>9, <1>10, <1>11,
       <1>12, <1>13, <1>14, <1>15, <1>16, <1>17, <1>18, <1>19, <1>20, <1>21,
       <1>22, <1>23, <1>24, <1>25, <1>26
    DEF Next, GenerateFile

-----------------------------------------------------------------------------
\* The inductive invariant holds in every state of every run, whatever the
\* plans, the limits and the answers of the agents.
THEOREM Invariance == Spec => []IInv
  <1> QED BY InitIInv, NextIInv, PTL DEF Spec

\* Every variable keeps the values the code can give it (the type invariant).
THEOREM TypeCorrect == Spec => []TypeOK
  <1>1. IInv => TypeOK
    BY DEF IInv
  <1> QED BY <1>1, Invariance, PTL

\* The loop of graph.py works on one file at a time.
THEOREM OneFileAtATime == Spec => []OneFileInFlight
  <1>1. IInv => OneFileInFlight
    BY DEF IInv
  <1> QED BY <1>1, Invariance, PTL

\* The loop works on no file before the files it depends on are done.
THEOREM FileOrder == Spec => []DependenciesFirst
  <1>1. IInv => DependenciesFirst
    BY DEF IInv
  <1> QED BY <1>1, Invariance, PTL

\* Content that was not accepted never reaches the workspace, also when the
\* node raises half way.
THEOREM DiskSafety == Spec => []OnlyDoneFilesOnDisk
  <1>1. IInv => OnlyDoneFilesOnDisk
    BY DEF IInv
  <1> QED BY <1>1, Invariance, PTL

\* A run is shown as completed only while every file of its plan is done.
THEOREM CompletedIsTrue == Spec => []CompletedMeansAllDone
  <1>1. IInv => CompletedMeansAllDone
    BY DEF IInv
  <1> QED BY <1>1, Invariance, PTL

\* The retries of the coder are bounded, also when the tester raises.
THEOREM RetriesBounded == Spec => []IterationsBounded
  <1>1. IInv => IterationsBounded
    BY DEF IInv
  <1> QED BY <1>1, Invariance, PTL

-----------------------------------------------------------------------------
\* What a step does to the files: nothing, or it chooses the plan, or it moves
\* one task that is not settled and whose dependencies are done.
LEMMA FileStep ==
  ASSUME IInv, [Next]_vars
  PROVE  \/ UNCHANGED <<project_plan, file_status>>
         \/ /\ project_plan = None
            /\ project_plan' \in Plans
            /\ file_status' = [i \in DOMAIN project_plan' |-> "pending"]
            /\ run_status' # "completed"
         \/ /\ UNCHANGED project_plan
            /\ run_status' \in {run_status, "failed"}
            /\ \E i \in Tasks, v \in InFlight \cup Settled :
                 /\ file_status[i] \notin Settled
                 /\ project_plan[i].dependencies
                      \subseteq DonePaths(project_plan, file_status)
                 /\ file_status' = [file_status EXCEPT ![i] = v]
  <1> DEFINE Move ==
        /\ UNCHANGED project_plan
        /\ run_status' \in {run_status, "failed"}
        /\ \E i \in Tasks, v \in InFlight \cup Settled :
             /\ file_status[i] \notin Settled
             /\ project_plan[i].dependencies
                  \subseteq DonePaths(project_plan, file_status)
             /\ file_status' = [file_status EXCEPT ![i] = v]
  <1>1. CASE UNCHANGED <<project_plan, file_status>>
    BY <1>1
  <1>2. CASE PlannerDecomposes
    <2>1. project_plan = None
      BY <1>2 DEF PlannerDecomposes, IInv, PhaseInv
    <2>2. run_status' # "completed"
      BY <1>2 DEF PlannerDecomposes, Leave, DeriveRunStatus
    <2> QED BY <1>2, <2>1, <2>2 DEF PlannerDecomposes
  <1>3. CASE PickTask
    <2>1. PICK i \in FirstReady(project_plan, file_status) :
            file_status' = [file_status EXCEPT ![i] = "generating"]
      BY <1>3 DEF PickTask
    <2>2. /\ i \in Tasks /\ file_status[i] \notin Settled
          /\ project_plan[i].dependencies
               \subseteq DonePaths(project_plan, file_status)
      BY <1>3 DEF PickTask, FirstReady, ReadyTasks, Tasks, Settled
    <2>3. "generating" \in InFlight
      BY DEF InFlight
    <2> QED BY <1>3, <2>1, <2>2, <2>3 DEF PickTask, agentVars
  <1>4. ASSUME node = "generate_file", step # "pick", UNCHANGED project_plan,
               run_status' \in {run_status, "failed"},
               NEW v \in {"validating", "repairing", "failed", "done"},
               file_status' = [file_status EXCEPT ![current] = v]
        PROVE  Move
    <2>1. v \in InFlight \cup Settled
      BY DEF InFlight, Settled
    <2> QED BY <1>4, <2>1, CurrentTask
  <1>5. CASE ProviderAnswers
    BY <1>5, <1>4 DEF ProviderAnswers, AtGenerate
  <1>6. CASE ContentInvalid
    BY <1>6, <1>4 DEF ContentInvalid, AtGenerate, agentVars
  <1>7. ASSUME node = "generate_file", step # "pick", NEW st, CompleteTask(st)
        PROVE  Move
    BY <1>7, <1>4 DEF CompleteTask, SettleCurrent
  <1>8. ASSUME node = "generate_file", step # "pick",
               NEW st, NEW errors, FailTask(st, errors)
        PROVE  Move
    <2>1. run_status' \in {run_status, "failed"}
      BY <1>8 DEF FailTask, Leave, DeriveRunStatus
    <2> QED BY <1>8, <2>1, <1>4 DEF FailTask, SettleCurrent
  <1>9. CASE ProviderGivesUp \/ ContentValid \/ RepairUnavailable
             \/ RepairAnswers
    <2> HIDE DEF Move
    <2>1. Move
      BY <1>9, <1>7, <1>8
      DEF ProviderGivesUp, ContentValid, RepairUnavailable, RepairAnswers,
          AtGenerate
    <2> QED BY <2>1 DEF Move
  <1> QED
    BY <1>1, <1>2, <1>3, <1>5, <1>6, <1>9
    DEF Next, GenerateFile, ArchitectFails, ArchitectDesigns, PlannerFails,
        NoPlan, WorkspaceUnusable, NothingReady, ProviderRetry,
        ValidatorRaises, RepairedRaises, TesterHasNoCode, TesterReports,
        TesterRaises, ReviewerHasNoCode, ReviewerReports, ReviewerRaises,
        DocumentationHasNoCode, DocumentationWrites, DocumentationRaises,
        Finished, vars, planVars

\* A file that is done or failed keeps its status for the rest of the run.
THEOREM SettledForever == Spec => SettledIsFinal
  <1>1. IInv /\ [Next]_vars =>
          [\A i \in Tasks : file_status[i] \in Settled =>
             file_status'[i] = file_status[i]]_vars
    <2> SUFFICES ASSUME IInv, [Next]_vars,
                        NEW i \in Tasks, file_status[i] \in Settled
                 PROVE  file_status'[i] = file_status[i]
      OBVIOUS
    <2>1. project_plan # None /\ file_status \in [Tasks -> FileStatus]
      BY DEF Tasks, IInv, TypeOK
    <2> QED BY <2>1, FileStep
  <1> QED BY <1>1, Invariance, PTL DEF Spec, SettledIsFinal

-----------------------------------------------------------------------------
(* The run implements the board of files.                                  *)

\* The board shows a file as settled exactly when the run has settled it, so
\* both have the same done paths.
LEMMA SameDonePaths ==
  ASSUME NEW plan, NEW fs \in [DOMAIN plan -> FileStatus]
  PROVE  DonePaths(plan, [i \in DOMAIN plan |-> IF fs[i] \in Settled
                                                  THEN fs[i] ELSE "open"])
           = DonePaths(plan, fs)
  BY DEF DonePaths, Settled

\* Every step of the graph is a step of the board or leaves it as it is.
LEMMA BoardStep == IInv /\ IInv' /\ [Next]_vars
                     => [Board!BoardNext]_(Board!boardVars)
  <1> SUFFICES ASSUME IInv, IInv', [Next]_vars
               PROVE  [Board!BoardNext]_(Board!boardVars)
    OBVIOUS
  <1> DEFINE Shown(fs) == [i \in Tasks |-> IF fs[i] \in Settled
                                             THEN fs[i] ELSE "open"]
             shown == Shown(file_status)
             completed == run_status = "completed"
  <1>0. /\ file_status \in [Tasks -> FileStatus]
        /\ completed => project_plan # None
                        /\ AllDone(project_plan, file_status)
        /\ completed' => project_plan' # None
                         /\ AllDone(project_plan', file_status')
    BY DEF IInv, TypeOK, CompletedMeansAllDone
  <1>1. CASE UNCHANGED <<project_plan, file_status>>
    <2>1. UNCHANGED <<project_plan, shown>>
      BY <1>1 DEF Tasks
    <2>2. CASE completed = completed'
      BY <2>1, <2>2 DEF Board!boardVars
    <2>3. CASE completed /\ ~completed'
      BY <2>1, <2>3 DEF Board!BoardNext, Board!Retract
    <2>4. CASE ~completed /\ completed'
      <3>1. project_plan # None /\ AllDone(project_plan, file_status)
        BY <1>0, <1>1, <2>4
      <3>2. \A i \in DOMAIN project_plan : shown[i] = "done"
        BY <3>1 DEF Tasks, AllDone, Settled
      <3> QED
        BY <2>1, <2>4, <3>1, <3>2
        DEF Board!BoardNext, Board!Announce, Board!AllDone
    <2> QED BY <2>2, <2>3, <2>4
  <1>2. CASE /\ project_plan = None
             /\ project_plan' \in Plans
             /\ file_status' = [i \in DOMAIN project_plan' |-> "pending"]
             /\ run_status' # "completed"
    <2>1. ~completed /\ ~completed'
      BY <1>0, <1>2
    <2>2. Tasks' = DOMAIN project_plan'
      BY <1>2, PlanShape DEF Tasks
    <2>3. shown' = [i \in DOMAIN project_plan' |-> "open"]
      BY <1>2, <2>2 DEF Settled
    <2> QED
      BY <1>2, <2>1, <2>3 DEF Board!BoardNext, Board!ChoosePlan
  <1>3. CASE /\ UNCHANGED project_plan
             /\ run_status' \in {run_status, "failed"}
             /\ \E i \in Tasks, v \in InFlight \cup Settled :
                  /\ file_status[i] \notin Settled
                  /\ project_plan[i].dependencies
                       \subseteq DonePaths(project_plan, file_status)
                  /\ file_status' = [file_status EXCEPT ![i] = v]
    <2>1. PICK i \in Tasks, v \in InFlight \cup Settled :
            /\ file_status[i] \notin Settled
            /\ project_plan[i].dependencies
                 \subseteq DonePaths(project_plan, file_status)
            /\ file_status' = [file_status EXCEPT ![i] = v]
      BY <1>3
    <2>2. project_plan # None /\ Tasks = DOMAIN project_plan /\ Tasks' = Tasks
      BY <1>3, <2>1 DEF Tasks
    <2>3. ~completed /\ ~completed'
      BY <1>0, <1>3, <2>1, <2>2 DEF AllDone, Settled
    <2>4. CASE v \in InFlight
      <3>1. v \notin Settled
        BY <2>4 DEF InFlight, Settled
      <3>2. shown' = shown
        BY <1>0, <2>1, <2>2, <3>1
      <3> QED BY <1>3, <2>3, <3>2 DEF Board!boardVars
    <2>5. CASE v \in Settled
      <3>1. shown[i] = "open" /\ shown' = [shown EXCEPT ![i] = v]
        BY <1>0, <2>1, <2>2, <2>5
      <3>2. DonePaths(project_plan, shown)
              = DonePaths(project_plan, file_status)
        BY <1>0, <2>2, SameDonePaths
      <3>3. Board!DonePaths(project_plan, shown)
              = DonePaths(project_plan, shown)
        BY DEF Board!DonePaths, DonePaths
      <3>4. Board!Settle(i, v)
        BY <1>3, <2>1, <2>3, <3>1, <3>2, <3>3 DEF Board!Settle
      <3> QED
        BY <2>2, <2>5, <3>4 DEF Board!BoardNext, Settled
    <2> QED BY <2>1, <2>4, <2>5
  <1> QED BY <1>1, <1>2, <1>3, FileStep

\* Every run of the graph is a run of the abstract file board.
THEOREM RunImplementsBoard == Spec => BoardSpec
  <1>1. Init => Board!BoardInit
    BY DEF Init, Board!BoardInit, Tasks
  <1> QED
    BY <1>1, BoardStep, Invariance, PTL
    DEF Spec, BoardSpec, Board!BoardSpec
=============================================================================
