------------------------------ MODULE Pipeline ------------------------------
(***************************************************************************)
(* One run of the agent graph (core/orchestrator/graph.py): architect,     *)
(* planner, the file generation loop, tester, reviewer, documentation.     *)
(*                                                                         *)
(* A node other than generate_file awaits one model call (and one sandbox  *)
(* call) and nothing else runs on the state meanwhile, so it is one        *)
(* action.  generate_file is split at its awaits: the state of the run is  *)
(* the AgentState dictionary, but the FileTask objects are shared and are  *)
(* seen half way by an exception that leaves the node.                     *)
(*                                                                         *)
(* What a model answers, whether a provider fails, what the validators say *)
(* and whether the disk accepts a write are nondeterministic.  Prompts,    *)
(* messages and file contents are left out; a file on disk is named by the *)
(* task that wrote it.                                                     *)
(***************************************************************************)
EXTENDS Integers, Sequences, FiniteSets, ProjectPlan

CONSTANTS
  Plans,                 \* the plans the task scheduler may obtain
  None,                  \* Python's None, for project_plan and test_results
  MAX_ITERATIONS,        \* test rounds after which the coder is not retried
  MAX_REPAIR_ATTEMPTS,
  MAX_FILE_RETRIES,      \* provider retries for one file
  MAX_TOKENS,            \* token budget of the run
  TokenCosts,            \* the tokens one model call may report
  RECURSION_LIMIT,       \* graph steps LangGraph allows before it raises
  CodeInState            \* may the state carry generated_code?  {FALSE} for
                         \* the compiled graph, whose schema has no such key

ASSUME PlansAssumption ==
  /\ Plans \subseteq Seq(FileTask)
  /\ None \notin Plans
  /\ None \notin Nat

ASSUME LimitsAssumption ==
  /\ MAX_ITERATIONS \in Nat \ {0}
  /\ MAX_REPAIR_ATTEMPTS \in Nat
  /\ MAX_FILE_RETRIES \in Nat
  /\ MAX_TOKENS \in Nat
  /\ TokenCosts \subseteq Nat
  /\ RECURSION_LIMIT \in Nat \ {0}
  /\ CodeInState \subseteq BOOLEAN

VARIABLES
  workspace_path,        \* is AgentState.workspace_path set?
  generated_code,        \* is there code under the key generated_code?
  node,                  \* the graph node that runs, "end", or "aborted"
  step,                  \* where generate_file is: see GenerateSteps
  steps,                 \* graph steps taken, compared with RECURSION_LIMIT
  status,                \* AgentState.status
  run_status,            \* AgentState.run_status, the public status
  project_blueprint,     \* "none", "compatible" or "incompatible"
  project_plan,          \* None or the list of file tasks
  file_status,           \* FileTask.status of each task
  repair_attempts,       \* FileTask.repair_attempts of each task
  current,               \* the task generate_file works on, 0 for none; it and
                         \* step stay where an exception of the validator left
  attempts,              \* failed provider calls for the current task
  current_file_index,    \* AgentState.current_file_index
  generated_files,       \* AgentState.generated_files
  validation_errors,     \* paths with an entry in validation_errors
  disk,                  \* path -> task whose content is on disk, 0 for none
  iteration_count,       \* AgentState.iteration_count
  test_results,          \* None, or the failed count of the last report
  tokens_used,           \* AgentState.tokens_used, saturated: see Spend
  \* History variables: no code reads them.
  tester_errors,         \* times the tester caught an exception
  pytest_failed,         \* did pytest report a failure when it last ran?
  reviewed               \* did the reviewer send code to a model?

inputVars == <<workspace_path, generated_code>>
agentVars == <<status, run_status, project_blueprint, tokens_used>>
planVars  == <<project_plan, file_status, repair_attempts>>
loopVars  == <<step, current, attempts>>
fileVars  == <<current_file_index, generated_files, validation_errors, disk>>
testVars  == <<iteration_count, test_results, tester_errors, pytest_failed>>

vars == <<node, steps, agentVars, planVars, loopVars, fileVars, testVars,
          reviewed, inputVars>>

Nodes == {"architect", "planner", "generate_file", "tester", "reviewer",
          "documentation"}

Stopped == {"end", "aborted"}

GenerateSteps == {"pick", "generate", "validate", "repair"}

Status == {"planning", "documenting", "done", "failed", "waiting_approval"}

RunStatus == {"pending", "running", "waiting_approval", "partial_success",
              "failed", "completed"}

-----------------------------------------------------------------------------
(* Helpers of the graph and of BaseAgent.                                  *)

\* Seeded fault: a documented run counts as completed, whatever its files.
FinishedIsCompleted(st, plan, fs) ==
  CASE st \in {"failed", "waiting_approval"} -> st
    [] st \in {"done", "documenting"}        -> "completed"
    [] OTHER                                 -> "running"

DeriveRunStatus(st, plan, fs) ==
  CASE st = "failed"           -> "failed"
    [] st = "waiting_approval" -> "waiting_approval"
    [] st = "done"             -> IF plan # None /\ HasFailures(plan, fs)
                                    THEN "partial_success" ELSE "completed"
    [] OTHER                   -> "running"

\* tokens_used only grows and is only compared with the budget: every amount
\* above the budget is represented by MAX_TOKENS + 1.
Spend(cost) ==
  IF tokens_used + cost > MAX_TOKENS THEN MAX_TOKENS + 1
                                     ELSE tokens_used + cost

\* Seeded faults: an overrun is only logged; it gets a status of its own.
ChargeLogsOnly(spent, st) == st
ChargeExceeded(spent, st) ==
  IF spent > MAX_TOKENS THEN "budget_exceeded" ELSE st

\* _update_tokens: the status st becomes "failed" when the run has spent
\* more than its budget.  cost_usd is never increased by any caller.
Charge(spent, st) == IF spent > MAX_TOKENS THEN "failed" ELSE st

\* A node returned and the graph goes on to another one, or to "end".
Goto(next) ==
  /\ steps' = steps + 1
  /\ node' = IF next # "end" /\ steps + 1 >= RECURSION_LIMIT
               THEN "aborted" ELSE next

\* Seeded fault: derive_run_status runs before the status is assigned.
LeaveDerivedEarly(st, next) ==
  /\ status' = st
  /\ run_status' = DeriveRunStatus(status, project_plan', file_status')
  /\ Goto(next)

\* A node returned with status st after derive_run_status.
Leave(st, next) ==
  /\ status' = st
  /\ run_status' = DeriveRunStatus(st, project_plan', file_status')
  /\ Goto(next)

\* An exception left the node: the graph invocation raises.
Abort == node' = "aborted" /\ UNCHANGED steps

\* Seeded fault: one file per test round.
RouteFilesOnce(plan, fs) == "tester"

RouteFiles(plan, fs) ==
  IF /\ plan # None
     /\ ~AllDone(plan, fs)
     /\ ~HasFailures(plan, fs)
     /\ ReadyTasks(plan, fs) # {}
    THEN "generate_file" ELSE "tester"

\* Seeded fault: one test round too many.
RouteTestsAgain(failed, iteration) ==
  IF failed # None /\ failed > 0 /\ iteration <= MAX_ITERATIONS
    THEN "generate_file" ELSE "reviewer"

RouteTests(failed, iteration) ==
  IF failed # None /\ failed > 0 /\ iteration < MAX_ITERATIONS
    THEN "generate_file" ELSE "reviewer"

\* Seeded fault: documentation is written before a decision is made.
RouteReviewOnward(st) == "documentation"

RouteReview(st) == IF st = "waiting_approval" THEN "end" ELSE "documentation"

-----------------------------------------------------------------------------
(* create_initial_state, and the entry point of the graph.                 *)

Init ==
  /\ workspace_path \in BOOLEAN /\ generated_code \in CodeInState
  /\ node = "architect" /\ steps = 0
  /\ status = "planning" /\ run_status = "pending"
  /\ project_blueprint = "none"
  /\ project_plan = None
  /\ file_status = <<>> /\ repair_attempts = <<>>
  /\ step = "pick" /\ current = 0 /\ attempts = 0
  /\ current_file_index = 0
  /\ generated_files = <<>>
  /\ validation_errors = {}
  /\ disk = [p \in Paths |-> 0]
  /\ iteration_count = 0
  /\ test_results = None
  /\ tokens_used = 0
  /\ tester_errors = 0 /\ pytest_failed = FALSE /\ reviewed = FALSE

-----------------------------------------------------------------------------
(* _architect_node.                                                        *)

\* No request, no provider, or an answer that is not a blueprint.
ArchitectFails ==
  /\ node = "architect"
  /\ Leave("failed", "planner")
  /\ UNCHANGED <<project_blueprint, tokens_used, planVars, loopVars, fileVars,
                 testVars, reviewed, inputVars>>

\* The agent sets "planning" after it charged the tokens, and the validator
\* runs on what the agent returned; a rejected blueprint stays in the state.
ArchitectDesigns ==
  /\ node = "architect"
  /\ \E cost \in TokenCosts : tokens_used' = Spend(cost)
  /\ \E verdict \in {"compatible", "incompatible"} :
       /\ project_blueprint' = verdict
       /\ UNCHANGED planVars
       /\ Leave(IF verdict = "compatible" THEN "planning" ELSE "failed",
                "planner")
  /\ UNCHANGED <<loopVars, fileVars, testVars, reviewed, inputVars>>

-----------------------------------------------------------------------------
(* _planner_node: PlannerAgent around TaskScheduler.                       *)

PlannerFails ==
  /\ node = "planner"
  /\ UNCHANGED planVars
  /\ Leave("failed", "generate_file")
  /\ UNCHANGED <<project_blueprint, tokens_used, loopVars, fileVars, testVars,
                 reviewed, inputVars>>

\* The scheduler, too, sets "planning" after it charged the tokens.
PlannerDecomposes ==
  /\ node = "planner"
  /\ project_blueprint # "none"
  /\ \E cost \in TokenCosts : tokens_used' = Spend(cost)
  /\ \E plan \in Plans :
       /\ project_plan' = plan
       /\ file_status' = [i \in DOMAIN plan |-> "pending"]
       /\ repair_attempts' = [i \in DOMAIN plan |-> 0]
  /\ Leave("planning", "generate_file")
  /\ UNCHANGED <<project_blueprint, loopVars, fileVars, testVars,
                 reviewed, inputVars>>

-----------------------------------------------------------------------------
(* _generate_file_node.                                                    *)

AtGenerate(s) == node = "generate_file" /\ step = s

NoPlan ==
  /\ AtGenerate("pick")
  /\ project_plan = None
  /\ UNCHANGED planVars
  /\ Leave("failed", RouteFiles(project_plan, file_status))
  /\ UNCHANGED <<project_blueprint, tokens_used, loopVars, fileVars, testVars,
                 reviewed, inputVars>>

\* ArtifactManager creates its directories first, outside any try.
WorkspaceUnusable ==
  /\ AtGenerate("pick")
  /\ project_plan # None
  /\ workspace_path
  /\ Abort
  /\ UNCHANGED <<agentVars, planVars, loopVars, fileVars, testVars,
                 reviewed, inputVars>>

NothingReady ==
  /\ AtGenerate("pick")
  /\ project_plan # None
  /\ ReadyTasks(project_plan, file_status) = {}
  /\ UNCHANGED planVars
  /\ IF AllDone(project_plan, file_status)
       THEN /\ current_file_index' = Len(project_plan)
            /\ Leave("done", RouteFiles(project_plan, file_status))
       ELSE /\ UNCHANGED current_file_index
            /\ Leave(IF HasFailures(project_plan, file_status)
                       THEN "failed" ELSE status,
                     RouteFiles(project_plan, file_status))
  /\ UNCHANGED <<project_blueprint, tokens_used, loopVars, generated_files,
                 validation_errors, disk, testVars, reviewed, inputVars>>

PickTask ==
  /\ AtGenerate("pick")
  /\ project_plan # None
  /\ \E i \in FirstReady(project_plan, file_status) :
       /\ current' = i
       /\ file_status' = [file_status EXCEPT ![i] = "generating"]
  /\ step' = "generate" /\ attempts' = 0
  /\ UNCHANGED <<node, steps, agentVars, project_plan, repair_attempts,
                 fileVars, testVars, reviewed, inputVars>>

\* The calls of ArtifactManager on a failed or a finished task: they do
\* nothing without a workspace, and any of them may raise.
ArtifactCalls == IF workspace_path THEN {"written", "raised"} ELSE {"skipped"}

\* Seeded fault: a task that was repaired keeps the status "repairing".
SettleUnlessRepaired(result) ==
  /\ file_status' =
       IF file_status[current] = "repairing" THEN file_status
       ELSE [file_status EXCEPT ![current] = result]
  /\ step' = "pick" /\ current' = 0 /\ attempts' = 0

\* The work on the current task ends with this result.
SettleCurrent(result) ==
  /\ file_status' = [file_status EXCEPT ![current] = result]
  /\ step' = "pick" /\ current' = 0 /\ attempts' = 0

\* The current task cannot be produced.  The log is written after the task
\* is marked and before the state of the run is.
FailTask(st, errors) ==
  /\ SettleCurrent("failed")
  /\ \E call \in ArtifactCalls :
       IF call = "raised"
         THEN /\ Abort
              /\ status' = st
              /\ UNCHANGED <<run_status, validation_errors>>
         ELSE /\ validation_errors' = validation_errors \cup errors
              /\ Leave("failed", RouteFiles(project_plan, file_status'))
  /\ UNCHANGED <<project_blueprint, project_plan, repair_attempts,
                 current_file_index, generated_files, disk, testVars,
                 reviewed, inputVars>>

\* The current task has valid content.  It is marked done before anything is
\* written; the success path leaves without derive_run_status.
CompleteTask(st) ==
  LET path == project_plan[current].file_path
      onDisk == [disk EXCEPT ![path] = current]
  IN /\ SettleCurrent("done")
     /\ status' = st
     /\ \E call \in ArtifactCalls :
          IF call = "raised"
            THEN /\ Abort
                 /\ disk' \in {disk, onDisk}
                 /\ UNCHANGED <<generated_files, current_file_index>>
            ELSE /\ disk' = IF call = "written" THEN onDisk ELSE disk
                 /\ generated_files' = Append(generated_files, path)
                 /\ current_file_index' = current_file_index + 1
                 /\ Goto(RouteFiles(project_plan, file_status'))
     /\ UNCHANGED <<run_status, project_blueprint, project_plan,
                    repair_attempts, validation_errors, testVars,
                    reviewed, inputVars>>

\* Seeded fault: the retries start over before they are exhausted.
ProviderRetryRestarts ==
  /\ AtGenerate("generate")
  /\ attempts' = (attempts + 1) % MAX_FILE_RETRIES
  /\ UNCHANGED <<node, steps, step, current, agentVars, planVars, fileVars,
                 testVars, reviewed, inputVars>>

\* CoderAgent.generate_file returned None and another attempt is left.
ProviderRetry ==
  /\ AtGenerate("generate")
  /\ attempts < MAX_FILE_RETRIES
  /\ attempts' = attempts + 1
  /\ UNCHANGED <<node, steps, step, current, agentVars, planVars, fileVars,
                 testVars, reviewed, inputVars>>

ProviderGivesUp ==
  /\ AtGenerate("generate")
  /\ attempts = MAX_FILE_RETRIES
  /\ FailTask(status, {})
  /\ UNCHANGED tokens_used

\* The coder answered; the node goes on to validate whatever the budget says.
ProviderAnswers ==
  /\ AtGenerate("generate")
  /\ \E cost \in TokenCosts :
       /\ tokens_used' = Spend(cost)
       /\ status' = Charge(Spend(cost), status)
  /\ file_status' = [file_status EXCEPT ![current] = "validating"]
  /\ step' = "validate"
  /\ UNCHANGED <<node, steps, run_status, project_blueprint, project_plan,
                 repair_attempts, current, attempts, fileVars, testVars,
                 reviewed, inputVars>>

ContentValid ==
  /\ AtGenerate("validate")
  /\ CompleteTask(status)
  /\ UNCHANGED tokens_used

ContentInvalid ==
  /\ AtGenerate("validate")
  /\ file_status' = [file_status EXCEPT ![current] = "repairing"]
  /\ repair_attempts' = [repair_attempts EXCEPT ![current] = @ + 1]
  /\ step' = "repair"
  /\ UNCHANGED <<node, steps, agentVars, project_plan, current, attempts,
                 fileVars, testVars, reviewed, inputVars>>

\* validate raised: ast.parse on text it does not refuse with a SyntaxError, or
\* the temporary file for node and go.  The task stays in flight for good.
ValidatorRaises ==
  /\ AtGenerate("validate")
  /\ Abort
  /\ UNCHANGED <<agentVars, planVars, loopVars, fileVars, testVars, reviewed,
                 inputVars>>

\* The repair call raised, or the task has no repair attempt left.
RepairUnavailable ==
  /\ AtGenerate("repair")
  /\ FailTask(status, {project_plan[current].file_path})
  /\ UNCHANGED tokens_used

\* The one repair the node asks for came back, valid or not.
RepairAnswers ==
  /\ AtGenerate("repair")
  /\ repair_attempts[current] <= MAX_REPAIR_ATTEMPTS
  /\ \E cost \in TokenCosts :
       /\ tokens_used' = Spend(cost)
       /\ \/ CompleteTask(Charge(Spend(cost), status))
          \/ FailTask(Charge(Spend(cost), status),
                      {project_plan[current].file_path})

\* validate raised on what the repair brought.
RepairedRaises ==
  /\ AtGenerate("repair")
  /\ repair_attempts[current] <= MAX_REPAIR_ATTEMPTS
  /\ \E cost \in TokenCosts :
       /\ tokens_used' = Spend(cost)
       /\ status' = Charge(Spend(cost), status)
  /\ Abort
  /\ UNCHANGED <<run_status, project_blueprint, planVars, loopVars, fileVars,
                 testVars, reviewed, inputVars>>

-----------------------------------------------------------------------------
(* _tester_node.                                                           *)

TestRound(failed) ==
  /\ test_results' = failed
  /\ iteration_count' = iteration_count + 1
  /\ UNCHANGED tester_errors

\* What execute_in_sandbox reports for PYTEST_COMMAND, which ends in
\* "|| true": 0 whenever the shell ran, whatever pytest found; 1 when the
\* container could not be used; -1 on a timeout or an error of the tool.
SandboxRuns ==
  IF workspace_path
    THEN [exit_code : {0}, pytest_failed : BOOLEAN]
         \cup [exit_code : {1, -1}, pytest_failed : {FALSE}]
    ELSE [exit_code : {-1}, pytest_failed : {FALSE}]

\* The report of the model, overruled by an exit code that is not negative.
MergeSandbox(report, exit_code) ==
  CASE exit_code = 0 -> 0
    [] exit_code > 0 -> report.total
    [] OTHER         -> report.failed

TesterHasNoCode ==
  /\ node = "tester"
  /\ ~generated_code /\ ~workspace_path
  /\ TestRound(1)
  /\ UNCHANGED planVars
  /\ Leave(status, RouteTests(test_results', iteration_count'))
  /\ UNCHANGED <<project_blueprint, tokens_used, loopVars, fileVars,
                 pytest_failed, reviewed, inputVars>>

TesterReports ==
  /\ node = "tester"
  /\ generated_code \/ workspace_path
  /\ UNCHANGED planVars
  /\ \E run \in SandboxRuns, report \in [total : {0, 1}, failed : {0, 1}] :
       /\ TestRound(MergeSandbox(report, run.exit_code))
       /\ pytest_failed' = run.pytest_failed
  /\ \E cost \in TokenCosts :
       /\ tokens_used' = Spend(cost)
       /\ Leave(Charge(Spend(cost), status),
                RouteTests(test_results', iteration_count'))
  /\ UNCHANGED <<project_blueprint, loopVars, fileVars, reviewed, inputVars>>

\* The model call failed.  The round is not counted and the report of the
\* round before stays in the state.
TesterRaises ==
  /\ node = "tester"
  /\ generated_code \/ workspace_path
  /\ tester_errors' = tester_errors + 1
  /\ \E run \in SandboxRuns : pytest_failed' = run.pytest_failed
  /\ UNCHANGED planVars
  /\ Leave("failed", RouteTests(test_results, iteration_count))
  /\ UNCHANGED <<project_blueprint, tokens_used, loopVars, fileVars,
                 iteration_count, test_results, reviewed, inputVars>>

-----------------------------------------------------------------------------
(* _reviewer_node.                                                         *)

ReviewerHasNoCode ==
  /\ node = "reviewer"
  /\ ~generated_code
  /\ UNCHANGED planVars
  /\ Leave(status, RouteReview(status))
  /\ UNCHANGED <<project_blueprint, tokens_used, loopVars, fileVars, testVars,
                 reviewed, inputVars>>

ReviewerReports ==
  /\ node = "reviewer"
  /\ generated_code
  /\ reviewed' = TRUE
  /\ UNCHANGED planVars
  /\ \E cost \in TokenCosts, critical \in BOOLEAN :
       LET st == IF critical THEN "waiting_approval"
                             ELSE Charge(Spend(cost), status)
       IN tokens_used' = Spend(cost) /\ Leave(st, RouteReview(st))
  /\ UNCHANGED <<project_blueprint, loopVars, fileVars, testVars, inputVars>>

ReviewerRaises ==
  /\ node = "reviewer"
  /\ generated_code
  /\ UNCHANGED planVars
  /\ Leave("failed", RouteReview("failed"))
  /\ UNCHANGED <<project_blueprint, tokens_used, loopVars, fileVars, testVars,
                 reviewed, inputVars>>

-----------------------------------------------------------------------------
(* _documentation_node.  Publishing the pull request never changes what is *)
(* modelled here: its exceptions are caught.                               *)

DocumentationHasNoCode ==
  /\ node = "documentation"
  /\ ~generated_code
  /\ UNCHANGED planVars
  /\ Leave(status, "end")
  /\ UNCHANGED <<project_blueprint, tokens_used, loopVars, fileVars, testVars,
                 reviewed, inputVars>>

DocumentationWrites ==
  /\ node = "documentation"
  /\ generated_code
  /\ UNCHANGED planVars
  /\ \E cost \in TokenCosts :
       /\ tokens_used' = Spend(cost)
       /\ Leave(Charge(Spend(cost), "documenting"), "end")
  /\ UNCHANGED <<project_blueprint, loopVars, fileVars, testVars,
                 reviewed, inputVars>>

DocumentationRaises ==
  /\ node = "documentation"
  /\ generated_code
  /\ UNCHANGED planVars
  /\ Leave("failed", "end")
  /\ UNCHANGED <<project_blueprint, tokens_used, loopVars, fileVars, testVars,
                 reviewed, inputVars>>

-----------------------------------------------------------------------------
\* The graph invocation returned or raised.
Finished == node \in Stopped /\ UNCHANGED vars

GenerateFile ==
  \/ NoPlan \/ WorkspaceUnusable \/ NothingReady \/ PickTask
  \/ ProviderRetry \/ ProviderGivesUp \/ ProviderAnswers
  \/ ContentValid \/ ContentInvalid \/ ValidatorRaises
  \/ RepairUnavailable \/ RepairAnswers \/ RepairedRaises

Next ==
  \/ ArchitectFails \/ ArchitectDesigns
  \/ PlannerFails \/ PlannerDecomposes
  \/ GenerateFile
  \/ TesterHasNoCode \/ TesterReports \/ TesterRaises
  \/ ReviewerHasNoCode \/ ReviewerReports \/ ReviewerRaises
  \/ DocumentationHasNoCode \/ DocumentationWrites \/ DocumentationRaises
  \/ Finished

Spec == Init /\ [][Next]_vars

\* The event loop drives the run until it returns: every await of a node
\* is a call with a timeout.
FairSpec == Spec /\ WF_vars(Next)
-----------------------------------------------------------------------------
(* Properties.                                                             *)

Tasks == IF project_plan = None THEN {} ELSE DOMAIN project_plan

\* Every variable has the values the code can give it.
TypeOK ==
  /\ workspace_path \in BOOLEAN /\ generated_code \in BOOLEAN
  /\ node \in Nodes \cup Stopped
  /\ step \in GenerateSteps
  /\ steps \in 0..RECURSION_LIMIT
  /\ status \in Status /\ run_status \in RunStatus
  /\ project_blueprint \in {"none", "compatible", "incompatible"}
  /\ project_plan \in Plans \cup {None}
  /\ file_status \in [Tasks -> FileStatus]
  /\ repair_attempts \in [Tasks -> Nat]
  /\ current \in Tasks \cup {0}
  /\ attempts \in 0..MAX_FILE_RETRIES
  /\ current_file_index \in Nat
  /\ generated_files \in Seq(Paths)
  /\ validation_errors \subseteq Paths
  /\ disk \in [Paths -> Tasks \cup {0}]
  /\ iteration_count \in Nat
  /\ test_results \in {None, 0, 1}
  /\ tokens_used \in 0..(MAX_TOKENS + 1)
  /\ tester_errors \in Nat
  /\ pytest_failed \in BOOLEAN /\ reviewed \in BOOLEAN

\* The graph works on one file at a time, the first one in plan order that is
\* neither settled nor blocked: a task is in flight exactly while
\* generate_file is past its pick step, or when an exception of the validator
\* left that node there (graph.py, _generate_file_node).
OneFileInFlight ==
  \A i \in Tasks : file_status[i] \in InFlight
                     <=> /\ node \in {"generate_file", "aborted"}
                         /\ step # "pick" /\ i = current

\* No file is generated, validated, repaired or finished unless every path it
\* depends on belongs to a done task: ContextBuilder inlines that task's
\* content in the prompt (state.py, get_ready_tasks).
DependenciesFirst ==
  \A i \in Tasks : file_status[i] # "pending" =>
    project_plan[i].dependencies \subseteq DonePaths(project_plan, file_status)

\* While the graph runs, generated_files lists exactly the paths of the done
\* tasks, and each of them is on disk when the run has a workspace (graph.py
\* 224-236, the success path).
GeneratedFilesAreDone ==
  node # "aborted" =>
    LET listed == {generated_files[k] : k \in DOMAIN generated_files}
        done   == DonePaths(project_plan, file_status)
    IN project_plan # None =>
         /\ listed = done
         /\ workspace_path => done = {p \in Paths : disk[p] # 0}

\* A file that reaches the disk is one of a done task, with that task's path:
\* rejected content is never written, even if the node raises half way.
OnlyDoneFilesOnDisk ==
  \A p \in Paths : disk[p] # 0 =>
    /\ file_status[disk[p]] = "done"
    /\ project_plan[disk[p]].file_path = p

\* The public status is "completed" only while every file of the plan is
\* done: no order of failures, budget overruns and test retries shows a run
\* with a failed, blocked or unstarted file as completed (derive_run_status).
CompletedMeansAllDone ==
  run_status = "completed" =>
    project_plan # None /\ AllDone(project_plan, file_status)

\* The two statuses disagree in one situation only: generate_file left by its
\* success path, which skips derive_run_status, after the budget was spent;
\* the run is failed inside and still shown as running (graph.py 245).
StaleHidesOnlyBudget ==
  \/ run_status = DeriveRunStatus(status, project_plan, file_status)
  \/ status = "failed" /\ run_status = "running" /\ tokens_used > MAX_TOKENS
  \/ node \in {"architect", "aborted"}

\* From the failure of a file to the end of the graph the run is shown as
\* failed, through test retries that generate other files and through every
\* later agent; only a review or a documentation that sees code moves it.
FailedFileIsShown ==
  /\ project_plan # None /\ HasFailures(project_plan, file_status)
  /\ \/ node \in {"generate_file", "tester", "reviewer"}
     \/ node \in {"documentation", "end"} /\ ~generated_code
  => run_status = "failed"

\* A budget overrun cannot be forgotten by the end of a run that works in a
\* workspace: the planner and a later "done" may overwrite the failure, but the
\* tester's own model call charges the run again (_update_tokens).  Without a
\* workspace the tester calls no model and the overrun may well be forgotten.
OverBudgetEndsFailed ==
  node = "end" /\ workspace_path /\ ~generated_code /\ tokens_used > MAX_TOKENS
  => status = "failed"

\* Once a critical finding asks for approval nothing else runs in this
\* invocation, and nothing but a review can ask for it (_should_continue).
ApprovalStopsRun ==
  status = "waiting_approval" \/ run_status = "waiting_approval" =>
    /\ node = "end" /\ reviewed
    /\ status = run_status

\* The loop is not left while a file could still be generated, unless a file
\* has failed (_should_continue_file_generation).
NoReadyFileSkipped ==
  /\ node \in {"tester", "reviewer", "documentation", "end"}
  /\ project_plan # None /\ ~HasFailures(project_plan, file_status)
  => ReadyTasks(project_plan, file_status) = {}

\* A settled file is never touched again, not even by the retries that a
\* failing test round starts (the loop goes back to generate_file, which
\* only takes pending tasks).
SettledIsFinal ==
  [][\A i \in Tasks : file_status[i] \in Settled =>
       file_status'[i] = file_status[i]]_vars

\* Test rounds that produced a report are bounded, whatever the reports say
\* and whatever the tester raises in between (_should_retry_coder).
IterationsBounded == iteration_count <= MAX_ITERATIONS

\* The graph needs at most one step per file, two per counted test round and
\* two per round in which the tester raised, and four more: only a long plan
\* or a tester that keeps raising can hit LangGraph's recursion limit.
StepsBounded ==
  steps <= Cardinality(Tasks) + 2 * (MAX_ITERATIONS + tester_errors) + 4

\* A run that is driven returns or raises.
Termination == <>(node \in Stopped)

\* The run implements the board of files: whatever the agents answer, a task
\* is settled once, after its dependencies are done, and the run is announced
\* as completed only when all are done.
Board == INSTANCE FileBoard WITH
  plan      <- project_plan,
  outcome   <- [i \in Tasks |-> IF file_status[i] \in Settled
                                  THEN file_status[i] ELSE "open"],
  completed <- run_status = "completed"

BoardSpec == Board!BoardSpec

-----------------------------------------------------------------------------
(* What makes the invariants above inductive (proved in PipelineProofs).   *)

\* Past its pick step generate_file has a task, and only that node has one; it
\* keeps it when the validator raises.
LoopInv ==
  step # "pick" => node \in {"generate_file", "aborted"} /\ current \in Tasks

\* Where the run is tells what has happened to it so far.
PhaseInv ==
  /\ node \in {"architect", "planner"} => project_plan = None
  /\ node \in {"architect", "planner", "generate_file", "tester"} =>
       iteration_count < MAX_ITERATIONS
  /\ node \in Nodes => steps < RECURSION_LIMIT
  /\ status = "done" =>
       project_plan # None /\ AllDone(project_plan, file_status)

\* The inductive invariant.
IInv ==
  /\ TypeOK
  /\ LoopInv
  /\ PhaseInv
  /\ OneFileInFlight
  /\ DependenciesFirst
  /\ OnlyDoneFilesOnDisk
  /\ CompletedMeansAllDone
  /\ IterationsBounded
=============================================================================
