----------------------- MODULE PipelineProgressProofs -----------------------
(***************************************************************************)
(* Further proofs about Pipeline: that a run is finite, and what its end   *)
(* can look like.                                                          *)
(*                                                                         *)
(* WorkRank is a natural number that every step of a run decreases: it is  *)
(* what Termination rests on, without the fairness.  EndInv is inductive   *)
(* relative to IInv and says which ends a run can have: it is what the     *)
(* conditions of graph.py leave over when they are put together.           *)
(***************************************************************************)
EXTENDS PipelineStatusProofs

-----------------------------------------------------------------------------
(* A run is finite.                                                        *)

\* The most steps of the model the node that runs can still take: the file it
\* picks may cost MAX_FILE_RETRIES + 1 calls of the coder, two validations and
\* a repair; every other node is one step.
NodeRank ==
  CASE node \in Stopped        -> 0
    [] node = "generate_file"  ->
         (CASE step = "pick"     -> MAX_FILE_RETRIES + 4
            [] step = "generate" -> MAX_FILE_RETRIES - attempts + 3
            [] step = "validate" -> 2
            [] OTHER             -> 1)
    [] OTHER                   -> 1

\* What is left of a node is worth less than a graph step.
WorkRank == (RECURSION_LIMIT - steps) * (MAX_FILE_RETRIES + 5) + NodeRank

\* The longest run, counted in steps of the model.
WorkBound == RECURSION_LIMIT * (MAX_FILE_RETRIES + 5) + 1

\* Every step that changes anything uses up some of a bounded amount of work,
\* whatever the models answer and however often the tester raises: a run is
\* finite even if no fairness drives it (graph.py, and LangGraph's limit).
WorkIsUsedUp == [][WorkRank' < WorkRank]_vars

\* What a step of a running graph does to the position of the run.
LEMMA PositionStep ==
  ASSUME IInv, node \notin Stopped, Next
  PROVE  \/ \E next : Goto(next)
         \/ Abort
         \/ /\ node = "generate_file" /\ node' = node /\ steps' = steps
            /\ \/ step = "pick" /\ step' = "generate" /\ attempts' = 0
               \/ /\ step = "generate" /\ step' = "generate"
                  /\ attempts < MAX_FILE_RETRIES /\ attempts' = attempts + 1
               \/ step = "generate" /\ step' = "validate"
               \/ step = "validate" /\ step' = "repair"
  <1>1. ASSUME NEW st, NEW errors, FailTask(st, errors)
        PROVE  Abort \/ \E next : Goto(next)
    BY <1>1 DEF FailTask, Leave
  <1>2. ASSUME NEW st, CompleteTask(st)
        PROVE  Abort \/ \E next : Goto(next)
    BY <1>2 DEF CompleteTask
  <1>3. CASE ProviderGivesUp \/ ContentValid \/ RepairUnavailable
             \/ RepairAnswers
    BY <1>1, <1>2, <1>3
    DEF ProviderGivesUp, ContentValid, RepairUnavailable, RepairAnswers
  <1>4. CASE WorkspaceUnusable \/ ValidatorRaises \/ RepairedRaises
    BY <1>4 DEF WorkspaceUnusable, ValidatorRaises, RepairedRaises
  <1>5. CASE PickTask \/ ProviderRetry \/ ProviderAnswers \/ ContentInvalid
    BY <1>5
    DEF PickTask, ProviderRetry, ProviderAnswers, ContentInvalid, AtGenerate
  <1>6. CASE ArchitectFails \/ ArchitectDesigns \/ PlannerFails
             \/ PlannerDecomposes \/ NoPlan \/ NothingReady
    BY <1>6
    DEF ArchitectFails, ArchitectDesigns, PlannerFails, PlannerDecomposes,
        NoPlan, NothingReady, Leave
  <1>7. CASE TesterHasNoCode \/ TesterReports \/ TesterRaises
             \/ ReviewerHasNoCode \/ ReviewerReports \/ ReviewerRaises
    BY <1>7
    DEF TesterHasNoCode, TesterReports, TesterRaises, ReviewerHasNoCode,
        ReviewerReports, ReviewerRaises, Leave
  <1>8. CASE DocumentationHasNoCode \/ DocumentationWrites
             \/ DocumentationRaises
    BY <1>8
    DEF DocumentationHasNoCode, DocumentationWrites, DocumentationRaises,
        Leave
  <1> QED
    BY <1>3, <1>4, <1>5, <1>6, <1>7, <1>8 DEF Next, GenerateFile, Finished

\* The work left in a node is a small natural number, and positive while the
\* graph runs.
LEMMA NodeRankRange ==
  IInv => /\ NodeRank \in 0..(MAX_FILE_RETRIES + 4)
          /\ node \notin Stopped => NodeRank > 0
  <1> SUFFICES ASSUME IInv
               PROVE  /\ NodeRank \in 0..(MAX_FILE_RETRIES + 4)
                      /\ node \notin Stopped => NodeRank > 0
    OBVIOUS
  <1>1. /\ attempts \in 0..MAX_FILE_RETRIES /\ MAX_FILE_RETRIES \in Nat
        /\ step \in GenerateSteps
    BY LimitsAssumption DEF IInv, TypeOK
  <1>2. CASE node \in Stopped
    BY <1>1, <1>2 DEF NodeRank
  <1>3. CASE node = "generate_file"
    BY <1>1, <1>3 DEF NodeRank, Stopped, GenerateSteps
  <1>4. CASE node \notin Stopped /\ node # "generate_file"
    <2>1. NodeRank = 1
      BY <1>4 DEF NodeRank
    <2> QED BY <1>1, <2>1
  <1> QED BY <1>2, <1>3, <1>4 DEF Stopped

\* One graph step less is worth more than a whole node.
LEMMA StepIsWorthMore ==
  ASSUME NEW left \in Nat, NEW unit \in Nat, NEW w, NEW v,
         w \in 0..(unit - 1), v \in Nat, v > 0
  PROVE  left * unit + w < (left + 1) * unit + v
  <1>1. (left + 1) * unit = left * unit + unit
    OBVIOUS
  <1>2. left * unit \in Nat
    OBVIOUS
  <1> QED BY <1>1, <1>2

\* The work left is a natural number within the bound.
LEMMA WorkRankRange ==
  ASSUME IInv
  PROVE  WorkRank \in Nat
  <1>1. NodeRank \in Nat
    BY NodeRankRange
  <1>2. /\ RECURSION_LIMIT - steps \in Nat
        /\ MAX_FILE_RETRIES + 5 \in Nat
    BY LimitsAssumption DEF IInv, TypeOK
  <1>3. (RECURSION_LIMIT - steps) * (MAX_FILE_RETRIES + 5) \in Nat
    BY <1>2
  <1> QED BY <1>1, <1>3 DEF WorkRank

\* Every step of a running graph uses up some work.
LEMMA WorkStep ==
  ASSUME IInv, IInv', node \notin Stopped, Next
  PROVE  WorkRank' < WorkRank
  <1> DEFINE unit == MAX_FILE_RETRIES + 5
             left == RECURSION_LIMIT - steps
  <1>0. /\ unit \in Nat /\ left \in Nat /\ steps \in Nat
        /\ steps' \in Nat /\ steps' <= RECURSION_LIMIT
        /\ RECURSION_LIMIT \in Nat
        /\ NodeRank \in 0..(unit - 1) /\ NodeRank > 0
        /\ NodeRank' \in 0..(unit - 1)
    <2>1. NodeRank' \in 0..(MAX_FILE_RETRIES + 4)
      <3>1. (IInv => NodeRank \in 0..(MAX_FILE_RETRIES + 4))'
        BY NodeRankRange, PTL
      <3> QED BY <3>1
    <2>2. /\ MAX_FILE_RETRIES \in Nat /\ RECURSION_LIMIT \in Nat
          /\ steps \in 0..RECURSION_LIMIT /\ steps' \in 0..RECURSION_LIMIT
      BY LimitsAssumption DEF IInv, TypeOK
    <2> QED BY <2>1, <2>2, NodeRankRange
  <1>1. CASE \E next : Goto(next)
    <2>1. steps' = steps + 1
      BY <1>1 DEF Goto
    <2>2. PICK k \in Nat : k = RECURSION_LIMIT - steps' /\ left = k + 1
      BY <1>0, <2>1
    <2>3. PICK w \in 0..(unit - 1), v \in Nat :
            w = NodeRank' /\ v = NodeRank /\ v > 0
      BY <1>0
    <2>4. k * unit + w < (k + 1) * unit + v
      BY <1>0, <2>3, StepIsWorthMore
    <2> QED BY <2>2, <2>3, <2>4 DEF WorkRank
  <1>2. ASSUME steps' = steps, NodeRank' < NodeRank
        PROVE  WorkRank' < WorkRank
    <2>1. PICK base \in Nat, w \in Nat, v \in Nat :
            base = left * unit /\ w = NodeRank' /\ v = NodeRank /\ w < v
      BY <1>0, <1>2
    <2>2. base + w < base + v
      BY <2>1
    <2> QED BY <1>2, <2>1, <2>2 DEF WorkRank
  <1>3. CASE Abort
    <2>1. NodeRank' = 0
      BY <1>3 DEF Abort, NodeRank, Stopped
    <2> QED BY <1>0, <1>2, <1>3, <2>1 DEF Abort
  <1>4. CASE /\ node = "generate_file" /\ node' = node /\ steps' = steps
             /\ \/ step = "pick" /\ step' = "generate" /\ attempts' = 0
                \/ /\ step = "generate" /\ step' = "generate"
                   /\ attempts < MAX_FILE_RETRIES /\ attempts' = attempts + 1
                \/ step = "generate" /\ step' = "validate"
                \/ step = "validate" /\ step' = "repair"
    <2>1. attempts \in 0..MAX_FILE_RETRIES /\ MAX_FILE_RETRIES \in Nat
      BY LimitsAssumption DEF IInv, TypeOK
    <2>2. NodeRank' < NodeRank
      BY <1>4, <2>1 DEF NodeRank, Stopped
    <2> QED BY <1>2, <1>4, <2>2
  <1> QED BY <1>1, <1>3, <1>4, PositionStep

\* A run makes at most WorkBound steps: it starts with that much work, never
\* has less than none, and every step uses some of it up.
THEOREM RunsAreFinite == Spec => /\ WorkRank <= WorkBound
                                 /\ [](WorkRank \in Nat)
                                 /\ WorkIsUsedUp
  <1>1. Init => WorkRank <= WorkBound
    <2> SUFFICES ASSUME Init PROVE WorkRank <= WorkBound
      OBVIOUS
    <2>1. node = "architect" /\ steps = 0
      BY DEF Init
    <2>2. NodeRank = 1
      BY <2>1 DEF NodeRank, Stopped
    <2>3. RECURSION_LIMIT - steps = RECURSION_LIMIT
      BY <2>1, LimitsAssumption
    <2>4. RECURSION_LIMIT * (MAX_FILE_RETRIES + 5) \in Nat
      BY LimitsAssumption
    <2> QED BY <2>2, <2>3, <2>4 DEF WorkRank, WorkBound
  <1>2. IInv => WorkRank \in Nat
    BY WorkRankRange
  <1>3. IInv /\ IInv' /\ [Next]_vars => [WorkRank' < WorkRank]_vars
    BY WorkStep, StoppedStays
  <1> QED BY <1>1, <1>2, <1>3, Invariance, PTL DEF Spec, WorkIsUsedUp

-----------------------------------------------------------------------------
(* What the end of a run can look like.                                    *)

\* The nodes behind the test rounds.
AfterTests == {"reviewer", "documentation", "end"}

\* A report comes from a counted round, and only a round sends a finished plan
\* back to generate_file, where its end is noticed; the round that follows is
\* the second.
FinishedAfterTests ==
  /\ test_results # None => iteration_count > 0
  /\ /\ project_plan # None /\ project_plan # <<>>
     /\ AllDone(project_plan, file_status)
     /\ node = "generate_file" \/ status = "done"
     => iteration_count > 0
  /\ status = "done" /\ project_plan # <<>> /\ node \in AfterTests
     => iteration_count + tester_errors >= 2

\* Behind the test rounds the two statuses agree: what the success path of
\* generate_file left behind is repaired by then.
StatusesAgree ==
  node \in AfterTests =>
    run_status = DeriveRunStatus(status, project_plan, file_status)

\* A file that has not been validated has not been repaired.
RepairsCounted ==
  \A i \in Tasks :
    repair_attempts[i] <=
      IF file_status[i] \in {"pending", "generating", "validating"} THEN 0 ELSE 1

\* The status of the task in flight says where generate_file is with it.
FileFollowsStep ==
  /\ step = "generate" => file_status[current] = "generating"
  /\ step = "validate" => file_status[current] = "validating"
  /\ step = "repair"   => file_status[current] = "repairing"

EndInv ==
  /\ FinishedAfterTests
  /\ StatusesAgree
  /\ FileFollowsStep
  /\ RepairsCounted

\* No run is ever shown as a partial success: "done", from which it would be
\* derived, is only set when every file is done (graph.py 56, 145).
NeverPartial == run_status # "partial_success"

\* generate_file asks for one repair of a file, whatever MAX_REPAIR_ATTEMPTS
\* allows: a repaired file that is still invalid fails (graph.py 196-222).
OneRepairPerFile == \A i \in Tasks : repair_attempts[i] <= 1

\* A run with files that passes its first test round is never shown as
\* completed: the end of the plan is noticed by a generate_file that finds
\* nothing to do, and only a round that failed leads back there (graph.py 145).
CompletedNeedsTwoRounds ==
  node \in AfterTests /\ run_status = "completed" /\ project_plan # <<>>
  => iteration_count + tester_errors >= 2

\* create_initial_state establishes the invariant.
LEMMA InitEndInv == Init => EndInv
  BY LimitsAssumption
  DEF Init, EndInv, FinishedAfterTests, StatusesAgree, FileFollowsStep,
      RepairsCounted, AfterTests, Tasks

\* Nothing EndInv speaks of changes in a stutter.
LEMMA StutterEndInv ==
  ASSUME EndInv, UNCHANGED vars
  PROVE  EndInv'
  <1>1. UNCHANGED <<node, status, run_status, project_plan, file_status,
                    repair_attempts, step, current, iteration_count,
                    test_results, tester_errors>>
    BY DEF vars, agentVars, planVars, loopVars, testVars
  <1> QED
    BY <1>1
    DEF EndInv, FinishedAfterTests, StatusesAgree, FileFollowsStep,
        RepairsCounted, AfterTests, Tasks, AllDone

\* Leaving a node derives the public status; the loop is left for the tester.
LEMMA AgreeStep ==
  ASSUME IInv, StatusesAgree, node \notin Stopped, Next
  PROVE  StatusesAgree'
  <1>1. ASSUME NEW st, NEW next, Leave(st, next)
        PROVE  StatusesAgree'
    BY <1>1 DEF Leave, StatusesAgree
  <1>2. ASSUME node' \in {"generate_file", "tester", "aborted"}
        PROVE  StatusesAgree'
    BY <1>2 DEF StatusesAgree, AfterTests
  <1>3. ASSUME NEW st, NEW errors, FailTask(st, errors)
        PROVE  StatusesAgree'
    BY <1>1, <1>2, <1>3 DEF FailTask, Abort
  <1>4. ASSUME NEW st, CompleteTask(st)
        PROVE  StatusesAgree'
    BY <1>2, <1>4, RouteFilesRange DEF CompleteTask, Abort, Goto
  <1>5. CASE ProviderGivesUp \/ ContentValid \/ RepairUnavailable
             \/ RepairAnswers
    BY <1>3, <1>4, <1>5
    DEF ProviderGivesUp, ContentValid, RepairUnavailable, RepairAnswers
  <1>6. CASE PickTask \/ ProviderRetry \/ ProviderAnswers \/ ContentInvalid
             \/ WorkspaceUnusable \/ ValidatorRaises \/ RepairedRaises
    BY <1>2, <1>6
    DEF PickTask, ProviderRetry, ProviderAnswers, ContentInvalid,
        WorkspaceUnusable, ValidatorRaises, RepairedRaises, AtGenerate, Abort
  <1>7. CASE ArchitectFails \/ ArchitectDesigns \/ PlannerFails
             \/ PlannerDecomposes \/ NoPlan \/ NothingReady
    BY <1>1, <1>7
    DEF ArchitectFails, ArchitectDesigns, PlannerFails, PlannerDecomposes,
        NoPlan, NothingReady
  <1>8. CASE TesterHasNoCode \/ TesterReports \/ TesterRaises
             \/ ReviewerHasNoCode \/ ReviewerReports \/ ReviewerRaises
    BY <1>1, <1>8
    DEF TesterHasNoCode, TesterReports, TesterRaises, ReviewerHasNoCode,
        ReviewerReports, ReviewerRaises
  <1>9. CASE DocumentationHasNoCode \/ DocumentationWrites
             \/ DocumentationRaises
    BY <1>1, <1>9
    DEF DocumentationHasNoCode, DocumentationWrites, DocumentationRaises
  <1> QED
    BY <1>5, <1>6, <1>7, <1>8, <1>9 DEF Next, GenerateFile, Finished, Stopped

\* The status of the task in flight is moved on together with the step.
LEMMA FollowStep ==
  ASSUME IInv, FileFollowsStep, node \notin Stopped, Next
  PROVE  FileFollowsStep'
  <1>0. file_status \in [Tasks -> FileStatus]
    BY DEF IInv, TypeOK
  <1>1. CASE step' = "pick"
    BY <1>1 DEF FileFollowsStep
  <1>2. CASE UNCHANGED <<step, current, file_status>>
    BY <1>2 DEF FileFollowsStep
  <1>3. CASE PickTask
    <2>1. current' \in Tasks /\ file_status' = [file_status EXCEPT ![current'] = "generating"]
      BY <1>3 DEF PickTask, FirstReady, ReadyTasks, Tasks
    <2> QED BY <1>0, <1>3, <2>1 DEF PickTask, FileFollowsStep
  <1>4. CASE ProviderAnswers \/ ContentInvalid
    <2>1. current \in Tasks
      BY <1>4, CurrentTask DEF ProviderAnswers, ContentInvalid, AtGenerate
    <2> QED
      BY <1>0, <1>4, <2>1 DEF ProviderAnswers, ContentInvalid, FileFollowsStep
  <1>5. CASE ProviderGivesUp \/ ContentValid \/ RepairUnavailable
             \/ RepairAnswers
    BY <1>1, <1>5
    DEF ProviderGivesUp, ContentValid, RepairUnavailable, RepairAnswers,
        CompleteTask, FailTask, SettleCurrent
  <1>6. CASE PlannerDecomposes
    <2>1. step' = "pick"
      BY <1>6 DEF PlannerDecomposes, loopVars, IInv, LoopInv
    <2> QED BY <1>1, <2>1
  <1> QED
    BY <1>2, <1>3, <1>4, <1>5, <1>6
    DEF Next, GenerateFile, Finished, ArchitectFails, ArchitectDesigns,
        PlannerFails, NoPlan, WorkspaceUnusable, NothingReady, ProviderRetry,
        ValidatorRaises, RepairedRaises, TesterHasNoCode, TesterReports,
        TesterRaises, ReviewerHasNoCode, ReviewerReports, ReviewerRaises,
        DocumentationHasNoCode, DocumentationWrites, DocumentationRaises,
        vars, planVars, loopVars

\* The repair counter of a file is increased once, on its way from the
\* validation to the repair, from which the file only goes to its end.
LEMMA RepairsStep ==
  ASSUME IInv, FileFollowsStep, RepairsCounted, node \notin Stopped, Next
  PROVE  RepairsCounted'
  <1>0. /\ file_status \in [Tasks -> FileStatus]
        /\ repair_attempts \in [Tasks -> Nat]
    BY DEF IInv, TypeOK
  <1>1. CASE UNCHANGED planVars
    BY <1>1 DEF RepairsCounted, planVars, Tasks
  <1>2. CASE PlannerDecomposes
    <2>1. PICK plan \in Plans :
            /\ project_plan' = plan
            /\ file_status' = [i \in DOMAIN plan |-> "pending"]
            /\ repair_attempts' = [i \in DOMAIN plan |-> 0]
      BY <1>2 DEF PlannerDecomposes
    <2>2. Tasks' = DOMAIN plan
      BY <2>1, PlanShape DEF Tasks
    <2> QED BY <2>1, <2>2 DEF RepairsCounted
  <1>3. ASSUME UNCHANGED project_plan, NEW i \in Tasks,
               NEW v, file_status' = [file_status EXCEPT ![i] = v],
               \/ /\ UNCHANGED repair_attempts
                  /\ \/ v \notin {"pending", "generating", "validating"}
                     \/ file_status[i] \in {"pending", "generating", "validating"}
               \/ /\ v = "repairing" /\ file_status[i] = "validating"
                  /\ repair_attempts' = [repair_attempts EXCEPT ![i] = @ + 1]
        PROVE  RepairsCounted'
    <2>1. Tasks' = Tasks
      BY <1>3 DEF Tasks
    <2> SUFFICES ASSUME NEW j \in Tasks
                 PROVE  repair_attempts'[j] <=
                          IF file_status'[j]
                               \in {"pending", "generating", "validating"}
                            THEN 0 ELSE 1
      BY <2>1 DEF RepairsCounted
    <2>2. CASE j # i
      BY <1>0, <1>3, <2>2 DEF RepairsCounted
    <2>3. CASE j = i
      BY <1>0, <1>3, <2>3 DEF RepairsCounted
    <2> QED BY <2>2, <2>3
  <1>4. CASE PickTask
    <2>1. PICK i \in FirstReady(project_plan, file_status) :
            file_status' = [file_status EXCEPT ![i] = "generating"]
      BY <1>4 DEF PickTask
    <2>2. i \in Tasks /\ file_status[i] = "pending"
      BY <1>4, <2>1 DEF PickTask, FirstReady, ReadyTasks, Tasks
    <2> QED BY <1>3, <1>4, <2>1, <2>2 DEF PickTask
  <1>5. ASSUME node = "generate_file", step # "pick", UNCHANGED project_plan,
               UNCHANGED repair_attempts, NEW v \in {"failed", "done"},
               file_status' = [file_status EXCEPT ![current] = v]
        PROVE  RepairsCounted'
    BY <1>3, <1>5, CurrentTask
  <1>6. ASSUME node = "generate_file", step # "pick", NEW st,
               CompleteTask(st) \/ \E errors : FailTask(st, errors)
        PROVE  RepairsCounted'
    BY <1>5, <1>6 DEF CompleteTask, FailTask, SettleCurrent
  <1>7. CASE ProviderGivesUp \/ ContentValid \/ RepairUnavailable
             \/ RepairAnswers
    BY <1>6, <1>7
    DEF ProviderGivesUp, ContentValid, RepairUnavailable, RepairAnswers,
        AtGenerate
  <1>8. CASE ProviderAnswers
    BY <1>3, <1>8, CurrentTask DEF ProviderAnswers, AtGenerate, FileFollowsStep
  <1>9. CASE ContentInvalid
    BY <1>3, <1>9, CurrentTask DEF ContentInvalid, AtGenerate, FileFollowsStep
  <1> QED
    BY <1>1, <1>2, <1>4, <1>7, <1>8, <1>9
    DEF Next, GenerateFile, Finished, ArchitectFails, ArchitectDesigns,
        PlannerFails, NoPlan, WorkspaceUnusable, NothingReady, ProviderRetry,
        ValidatorRaises, RepairedRaises, TesterHasNoCode, TesterReports,
        TesterRaises, ReviewerHasNoCode, ReviewerReports, ReviewerRaises,
        DocumentationHasNoCode, DocumentationWrites, DocumentationRaises, vars

\* A plan is found finished after a test round, and the round after that is
\* at least the second.
LEMMA FinishedStep ==
  ASSUME IInv, FinishedAfterTests, node \notin Stopped, Next
  PROVE  FinishedAfterTests'
  <1> DEFINE finished == /\ project_plan # None /\ project_plan # <<>>
                         /\ AllDone(project_plan, file_status)
  <1>0. /\ iteration_count \in Nat /\ tester_errors \in Nat
        /\ status = "done" => project_plan # None
                              /\ AllDone(project_plan, file_status)
    BY DEF IInv, TypeOK, PhaseInv
  <1>1. CASE ArchitectFails \/ ArchitectDesigns \/ PlannerFails \/ NoPlan
    <2>1. /\ status' # "done" /\ project_plan' = None
          /\ UNCHANGED <<test_results, iteration_count>>
      BY <1>1
      DEF ArchitectFails, ArchitectDesigns, PlannerFails, NoPlan, Leave,
          planVars, testVars, IInv, PhaseInv
    <2> QED BY <2>1 DEF FinishedAfterTests
  <1>2. CASE PlannerDecomposes
    <2>1. PICK plan \in Plans :
            /\ project_plan' = plan
            /\ file_status' = [i \in DOMAIN plan |-> "pending"]
      BY <1>2 DEF PlannerDecomposes
    <2>2. plan # <<>> => ~AllDone(plan, file_status')
      <3>1. plan # <<>> => 1 \in DOMAIN plan
        BY PlansAssumption
      <3> QED BY <2>1, <3>1 DEF AllDone
    <2>3. /\ status' # "done"
          /\ UNCHANGED <<test_results, iteration_count>>
      BY <1>2 DEF PlannerDecomposes, Leave, testVars
    <2> QED BY <2>1, <2>2, <2>3 DEF FinishedAfterTests
  <1>3. CASE NothingReady
    <2>1. /\ node = "generate_file" /\ node' \in {"tester", "aborted"}
          /\ UNCHANGED <<project_plan, file_status, testVars>>
      BY <1>3
      DEF NothingReady, AtGenerate, Leave, Goto, RouteFiles, planVars
    <2>2. finished' => finished
      BY <2>1 DEF AllDone
    <2> QED BY <2>1, <2>2 DEF FinishedAfterTests, testVars, AfterTests
  <1>4. ASSUME node = "generate_file", status # "done",
               status' \in {status, "failed"}, UNCHANGED <<project_plan, testVars>>,
               \/ node' \notin {"generate_file"}
               \/ ~AllDone(project_plan, file_status')
        PROVE  FinishedAfterTests'
    BY <1>4 DEF FinishedAfterTests, testVars
  <1>5. ASSUME node = "generate_file", step # "pick"
        PROVE  status # "done"
    BY <1>0, <1>5, CurrentTask DEF AllDone, Settled, Tasks
  <1>6. CASE WorkspaceUnusable \/ ValidatorRaises \/ RepairedRaises
    <2>1. /\ node' = "aborted" /\ status' \in {status, "failed"}
          /\ UNCHANGED <<project_plan, file_status, testVars>>
      BY <1>6
      DEF WorkspaceUnusable, ValidatorRaises, RepairedRaises, Abort, Charge,
          agentVars, planVars
    <2> QED BY <1>0, <2>1 DEF FinishedAfterTests, AfterTests, testVars, AllDone
  <1>7. CASE PickTask
    <2>1. PICK i \in FirstReady(project_plan, file_status) :
            file_status' = [file_status EXCEPT ![i] = "generating"]
      BY <1>7 DEF PickTask
    <2>2. i \in DOMAIN project_plan /\ file_status[i] = "pending"
      BY <2>1 DEF FirstReady, ReadyTasks
    <2>3. file_status \in [DOMAIN project_plan -> FileStatus]
      BY <1>7 DEF PickTask, IInv, TypeOK, Tasks
    <2>4. status # "done" /\ ~AllDone(project_plan, file_status')
      BY <1>0, <2>1, <2>2, <2>3 DEF AllDone
    <2> QED BY <1>4, <1>7, <2>4 DEF PickTask, AtGenerate, agentVars
  <1>8. CASE ProviderRetry
    <2>1. ~AllDone(project_plan, file_status')
      BY <1>8, CurrentTask
      DEF ProviderRetry, AtGenerate, planVars, AllDone, Settled, Tasks
    <2> QED
      BY <1>4, <1>5, <1>8, <2>1
      DEF ProviderRetry, AtGenerate, agentVars, planVars
  <1>9. CASE ProviderAnswers \/ ContentInvalid
    <2>1. /\ current \in DOMAIN project_plan
          /\ file_status \in [DOMAIN project_plan -> FileStatus]
      BY <1>9, CurrentTask
      DEF ProviderAnswers, ContentInvalid, AtGenerate, IInv, TypeOK, Tasks
    <2>2. ~AllDone(project_plan, file_status')
      BY <1>9, <2>1 DEF ProviderAnswers, ContentInvalid, AllDone
    <2> QED
      BY <1>4, <1>5, <1>9, <2>2
      DEF ProviderAnswers, ContentInvalid, AtGenerate, agentVars, Charge
  <1>10. ASSUME NEW plan, NEW fs, RouteFiles(plan, fs) = "generate_file"
         PROVE  ~AllDone(plan, fs)
    BY <1>10 DEF RouteFiles
  <1>11. ASSUME node = "generate_file", step # "pick",
                NEW st \in {status, "failed"},
                CompleteTask(st) \/ \E errors : FailTask(st, errors)
         PROVE  FinishedAfterTests'
    <2>1. /\ status' \in {status, "failed"}
          /\ UNCHANGED <<project_plan, testVars>>
          /\ \/ node' # "generate_file"
             \/ RouteFiles(project_plan, file_status') = "generate_file"
      BY <1>11 DEF CompleteTask, FailTask, Abort, Leave, Goto
    <2> QED BY <1>4, <1>5, <1>10, <1>11, <2>1
  <1>12. CASE ProviderGivesUp \/ ContentValid \/ RepairUnavailable
              \/ RepairAnswers
    <2>1. \A cost : Charge(Spend(cost), status) \in {status, "failed"}
      BY DEF Charge
    <2> QED
      BY <1>11, <1>12, <2>1
      DEF ProviderGivesUp, ContentValid, RepairUnavailable, RepairAnswers,
          AtGenerate
  <1>13. CASE TesterHasNoCode \/ TesterReports \/ TesterRaises
    <2>1. /\ node = "tester"
          /\ UNCHANGED <<project_plan, file_status>>
          /\ status' \in {status, "failed"}
          /\ node' \in {RouteTests(test_results', iteration_count'), "aborted"}
          /\ \/ /\ iteration_count' = iteration_count + 1
                /\ UNCHANGED tester_errors
             \/ /\ tester_errors' = tester_errors + 1
                /\ UNCHANGED <<iteration_count, test_results>>
      BY <1>13
      DEF TesterHasNoCode, TesterReports, TesterRaises, TestRound, Leave, Goto,
          Charge, planVars
    <2>2. test_results' # None => iteration_count' > 0
      BY <1>0, <2>1 DEF FinishedAfterTests
    <2>3. node' = "generate_file" => test_results' # None
      BY <2>1 DEF RouteTests
    <2>4. status' = "done" /\ project_plan # <<>> =>
            iteration_count' > 0 /\ iteration_count' + tester_errors' >= 2
      BY <1>0, <2>1 DEF FinishedAfterTests
    <2> QED BY <2>1, <2>2, <2>3, <2>4 DEF FinishedAfterTests
  <1>14. CASE ReviewerHasNoCode \/ ReviewerReports \/ ReviewerRaises
              \/ DocumentationHasNoCode \/ DocumentationWrites
              \/ DocumentationRaises
    <2>1. /\ node \in AfterTests /\ node' # "generate_file"
          /\ UNCHANGED <<project_plan, file_status, testVars>>
          /\ status' = "done" => status = "done"
      BY <1>14
      DEF ReviewerHasNoCode, ReviewerReports, ReviewerRaises,
          DocumentationHasNoCode, DocumentationWrites, DocumentationRaises,
          Leave, Goto, RouteReview, Charge, planVars, AfterTests
    <2> QED BY <1>0, <2>1 DEF FinishedAfterTests, testVars, AllDone
  <1> QED
    BY <1>1, <1>2, <1>3, <1>6, <1>7, <1>8, <1>9, <1>12, <1>13, <1>14
    DEF Next, GenerateFile, Finished

-----------------------------------------------------------------------------
\* The invariant of the ends holds in every state of every run.
THEOREM EndInvariance == Spec => []EndInv
  <1>1. IInv /\ EndInv /\ [Next]_vars => EndInv'
    <2> SUFFICES ASSUME IInv, EndInv, [Next]_vars PROVE EndInv'
      OBVIOUS
    <2>1. CASE UNCHANGED vars
      BY <2>1, StutterEndInv
    <2>2. CASE node \in Stopped
      BY <2>1, <2>2, StoppedStays
    <2>3. CASE node \notin Stopped /\ Next
      BY <2>3, FinishedStep, AgreeStep, FollowStep, RepairsStep DEF EndInv
    <2> QED BY <2>1, <2>2, <2>3
  <1> QED BY <1>1, InitEndInv, Invariance, PTL DEF Spec

\* A run with files that passes its first test round is not shown as
\* completed.
THEOREM FirstRoundNeverCompletes == Spec => []CompletedNeedsTwoRounds
  <1>1. IInv /\ EndInv => CompletedNeedsTwoRounds
    <2> SUFFICES ASSUME IInv, EndInv, node \in AfterTests,
                        run_status = "completed", project_plan # <<>>
                 PROVE  iteration_count + tester_errors >= 2
      BY DEF CompletedNeedsTwoRounds
    <2>1. status = "done"
      BY DEF EndInv, StatusesAgree, DeriveRunStatus
    <2> QED BY <2>1 DEF EndInv, FinishedAfterTests
  <1> QED BY <1>1, EndInvariance, Invariance, PTL

\* The loop asks for at most one repair of a file.
THEOREM OneRepair == Spec => []OneRepairPerFile
  <1>1. IInv /\ EndInv => OneRepairPerFile
    <2> SUFFICES ASSUME IInv, EndInv, NEW i \in Tasks
                 PROVE  repair_attempts[i] <= 1
      BY DEF OneRepairPerFile
    <2>1. repair_attempts[i] \in Nat
      BY DEF IInv, TypeOK
    <2> QED BY <2>1 DEF EndInv, RepairsCounted
  <1> QED BY <1>1, EndInvariance, Invariance, PTL

\* No run is ever shown as a partial success.
THEOREM PartialSuccessUnreachable == Spec => []NeverPartial
  <1>1. Init => NeverPartial
    BY DEF Init, NeverPartial
  <1>2. IInv' /\ NeverPartial /\ [Next]_vars => NeverPartial'
    <2> SUFFICES ASSUME IInv', NeverPartial, [Next]_vars PROVE NeverPartial'
      OBVIOUS
    <2>1. ~(status' = "done" /\ HasFailures(project_plan', file_status'))
      BY DEF IInv, PhaseInv, AllDone, HasFailures
    <2>2. ASSUME NEW st, NEW next, Leave(st, next)
          PROVE  NeverPartial'
      BY <2>1, <2>2 DEF Leave, DeriveRunStatus, NeverPartial
    <2>3. CASE UNCHANGED run_status
      BY <2>3 DEF NeverPartial
    <2>4. ASSUME NEW st, NEW errors, FailTask(st, errors)
          PROVE  NeverPartial'
      BY <2>2, <2>3, <2>4 DEF FailTask
    <2>5. ASSUME NEW st, CompleteTask(st)
          PROVE  NeverPartial'
      BY <2>3, <2>5 DEF CompleteTask
    <2>6. CASE GenerateFile
      BY <2>2, <2>3, <2>4, <2>5, <2>6
      DEF GenerateFile, NoPlan, WorkspaceUnusable, NothingReady, PickTask,
          ProviderRetry, ProviderGivesUp, ProviderAnswers, ContentValid,
          ContentInvalid, ValidatorRaises, RepairUnavailable, RepairAnswers,
          RepairedRaises, agentVars
    <2>7. CASE ArchitectFails \/ ArchitectDesigns \/ PlannerFails
               \/ PlannerDecomposes
      BY <2>2, <2>7
      DEF ArchitectFails, ArchitectDesigns, PlannerFails, PlannerDecomposes
    <2>8. CASE TesterHasNoCode \/ TesterReports \/ TesterRaises
               \/ ReviewerHasNoCode \/ ReviewerReports \/ ReviewerRaises
      BY <2>2, <2>8
      DEF TesterHasNoCode, TesterReports, TesterRaises, ReviewerHasNoCode,
          ReviewerReports, ReviewerRaises
    <2>9. CASE DocumentationHasNoCode \/ DocumentationWrites
               \/ DocumentationRaises
      BY <2>2, <2>9
      DEF DocumentationHasNoCode, DocumentationWrites, DocumentationRaises
    <2> QED
      BY <2>3, <2>6, <2>7, <2>8, <2>9 DEF Next, Finished, vars, agentVars
  <1> QED BY <1>1, <1>2, Invariance, PTL DEF Spec
=============================================================================
