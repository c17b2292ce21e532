------------------------------ MODULE Workshop ------------------------------
(***************************************************************************)
(* The scripts that drive the agents without a server, and the directory   *)
(* they write to: run_real_pipeline.py, run_full_pipeline.py,              *)
(* test_3_projects.py (run_one_project) and retry_generation.py, over      *)
(* ArtifactManager, ContextBuilder and SyntaxValidator.  Executions follow each other on    *)
(* one output directory; a crash, or an exception, may end one anywhere.   *)
(*                                                                         *)
(* The plan and the statuses are in memory and are gone with the process;  *)
(* what is left is the workspace and the status files, whose names are the *)
(* paths with "/" replaced by "_".  Every task is begun once, so the guard *)
(* repair_attempts <= 3 always lets the one repair through.                *)
(***************************************************************************)
EXTENDS ProjectPlan, FiniteSets

CONSTANTS
  Plans,          \* what architect and planner may produce
  RetryPlan,      \* the three files of retry_generation.py
  Names,          \* names of status files
  NameOf,         \* the name of a path's status file
  LanguageOf,     \* EXTENSION_MAP, of a path's extension
  Iterations,     \* the bound of a script's loop (50 or 100)
  Executions      \* bound: executions on the directory

Scripts == {"real", "full", "test", "retry"}

ASSUME PlansAssumption == Plans \cup {RetryPlan} \subseteq Seq(FileTask)
\* Its files are written without dependencies: whatever comes next is ready.
ASSUME RetryAssumption ==
  \A i \in DOMAIN RetryPlan : RetryPlan[i].dependencies = {}
ASSUME NamesAssumption == NameOf \in [Paths -> Names]
ASSUME LanguagesAssumption ==
  LanguageOf \in [Paths -> {"python", "javascript", "go", "unknown"}]
ASSUME RecordsAssumption == Paths \cap {"absent", "torn"} = {}
ASSUME IterationsAssumption == Iterations \in [Scripts -> Nat]
ASSUME ExecutionsAssumption == Executions \in Nat

VARIABLES
  script,       \* the script that runs, or ran last
  at,           \* the step it has come to
  plan,         \* project_plan
  status,       \* the statuses of its tasks
  content,      \* the contents of its tasks
  cur,          \* the task in work
  hand,         \* the text a model returned for it
  iteration,    \* iterations of the loop so far
  generated,    \* the counters of the report
  failed,
  workspace,    \* the files of the output directory
  record,       \* .ai_artifacts/files
  executions    \* executions begun

memory == <<plan, status, content, cur, hand, iteration, generated, failed>>
disk == <<workspace, record>>
vars == <<script, at, memory, disk, executions>>

\* "none" stands for None, what a call of a model that failed returns, and
\* for a content that was never set; "broken" is a text that does not parse.
Texts == {"none", "empty", "text", "broken"}

Resting == {"idle", "ended", "stopped", "raised", "crashed"}
Working == {"save_plan", "pick", "generate", "validate", "repair", "revalidate", "save",
            "record", "log", "log_done", "log_bad"}

\* A file may have been cut off while it was written for the first time
\* ("part"), or while it replaced a file that was whole ("spoiled").
FileState == {"absent", "part", "whole", "spoiled"}

\* The path in a status file: scripts write it only for a task that is done.
RecordState == {"absent", "torn"} \cup Paths

Tasks == DOMAIN plan
Path(i) == plan[i].file_path

TypeOK ==
  /\ script \in Scripts
  /\ at \in Resting \cup Working
  /\ plan \in Plans \cup {RetryPlan, <<>>}
  /\ status \in [Tasks -> FileStatus]
  /\ content \in [Tasks -> Texts]
  /\ cur \in Tasks \cup {0}
  /\ hand \in Texts
  /\ iteration \in Nat
  /\ generated \in Nat
  /\ failed \in Nat
  /\ workspace \in [Paths -> FileState]
  /\ record \in [Names -> RecordState]
  /\ executions \in 0 .. Executions

Forget ==
  /\ plan' = <<>>
  /\ status' = <<>>
  /\ content' = <<>>
  /\ cur' = 0
  /\ hand' = "none"
  /\ iteration' = 0
  /\ generated' = 0
  /\ failed' = 0

Init ==
  /\ script \in Scripts
  /\ at = "idle"
  /\ plan = <<>> /\ status = <<>> /\ content = <<>>
  /\ cur = 0 /\ hand = "none"
  /\ iteration = 0 /\ generated = 0 /\ failed = 0
  /\ workspace = [p \in Paths |-> "absent"]
  /\ record = [n \in Names |-> "absent"]
  /\ executions = 0
-----------------------------------------------------------------------------
(***************************************************************************)
(* The directory.                                                          *)
(***************************************************************************)

\* get_completed_files.
Completed == {p \in Paths : record[NameOf[p]] = p}

\* write_text opens the file, which empties it, and then writes.
CutOff(state) == IF state \in {"whole", "spoiled"} THEN "spoiled" ELSE "part"

\* save_file and save_file_status, and what is left when they stop half way.
SaveFile(p) == workspace' = [workspace EXCEPT ![p] = "whole"]
SaveFileCut(p) ==
  workspace' \in {workspace, [workspace EXCEPT ![p] = CutOff(@)]}
SaveStatus(p) == record' = [record EXCEPT ![NameOf[p]] = p]
SaveStatusCut(p) == record' \in {record, [record EXCEPT ![NameOf[p]] = "torn"]}
-----------------------------------------------------------------------------
(***************************************************************************)
(* The context of a file.                                                  *)
(***************************************************************************)

\* Plan.get_task: the first task with a path.
GetTask(p) ==
  {i \in Tasks : Path(i) = p /\ \A j \in Tasks : Path(j) = p => i <= j}

\* The dependencies whose content is in the prompt for task i.
Context(i) ==
  {p \in plan[i].dependencies :
     \E t \in GetTask(p) : status[t] = "done" /\ content[t] \notin {"none", "empty"}}
-----------------------------------------------------------------------------
(***************************************************************************)
(* The validator.                                                          *)
(***************************************************************************)

\* ast.parse, which may raise what is no SyntaxError.
PythonSays(text) == {IF text = "broken" THEN "invalid" ELSE "valid", "raises"}

\* node --check and go vet.  What they know is not the language of the file:
\* a type annotation or an import may be invalid to them.  A tool that is
\* missing or too slow finds a text valid, and the temporary file may fail.
ToolSays == {"valid", "invalid", "raises"}

Verdicts(p, text) ==
  CASE LanguageOf[p] = "python"               -> PythonSays(text)
    [] LanguageOf[p] \in {"javascript", "go"} -> ToolSays
    [] LanguageOf[p] = "unknown"              -> {"valid"}
-----------------------------------------------------------------------------
(***************************************************************************)
(* The scripts.                                                            *)
(***************************************************************************)
Logs == script = "real"

\* OUTPUT_DIR, OUTPUT, and OUTPUT_BASE / name: the retry writes to the
\* directory of the full pipeline, the others have their own.
Output == [real |-> "crud_output", full |-> "crud_full",
           retry |-> "crud_full", test |-> "project"]

\* run_real_pipeline.py asks for None, the others for any false value.
Rejected(text) ==
  IF script = "real" THEN text = "none" ELSE text \in {"none", "empty"}

Goto(next) == at' = next /\ UNCHANGED <<script, executions>>

SetStatus(v) == status' = [status EXCEPT ![cur] = v]

\* retry_generation.py has its plan in its text.
PlansOf(s) == IF s = "retry" THEN {RetryPlan} ELSE Plans

\* Architect and planner have produced a plan, or the script has one.
Begin(s) ==
  /\ at \in Resting
  /\ executions < Executions
  /\ Output[s] = Output[script]
  /\ script' = s
  /\ executions' = executions + 1
  /\ plan' \in PlansOf(s)
  /\ status' = [i \in DOMAIN plan' |-> "pending"]
  /\ content' = [i \in DOMAIN plan' |-> "none"]
  /\ cur' = 0
  /\ hand' = "none"
  /\ iteration' = 0
  /\ generated' = 0
  /\ failed' = 0
  /\ at' = IF s = "retry" THEN "pick" ELSE "save_plan"
  /\ UNCHANGED disk

\* No blueprint, no plan, or no directory to write to.
NoBegin(s) ==
  /\ at \in Resting
  /\ executions < Executions
  /\ Output[s] = Output[script]
  /\ script' = s
  /\ executions' = executions + 1
  /\ at' = "stopped"
  /\ Forget
  /\ UNCHANGED disk

\* project_plan.json, which nothing reads.
SavePlan ==
  /\ at = "save_plan"
  /\ Goto("pick")
  /\ UNCHANGED <<memory, disk>>

\* retry_generation.py goes through its plan once, without a bound.
MayIterate == script = "retry" \/ iteration < Iterations[script]

Pick ==
  /\ at = "pick"
  /\ MayIterate
  /\ \E i \in FirstReady(plan, status) :
       /\ cur' = i
       /\ status' = [status EXCEPT ![i] = "generating"]
  /\ iteration' = iteration + 1
  /\ Goto("generate")
  /\ UNCHANGED <<plan, content, hand, generated, failed, disk>>

\* Seeded fault: a script waits while there are tasks that may become ready.
Settle ==
  \/ AllDone(plan, status)
  \/ HasFailures(plan, status)
  \/ ~ MayIterate

\* All done, some failed, or a dependency that nothing will provide.
LoopIsOver == ReadyTasks(plan, status) = {} \/ ~ MayIterate

EndLoop ==
  /\ at = "pick"
  /\ LoopIsOver
  /\ Goto("ended")
  /\ cur' = 0
  /\ hand' = "none"
  /\ UNCHANGED <<plan, status, content, iteration, generated, failed, disk>>

Generate ==
  /\ at = "generate"
  /\ \E text \in Texts :
       /\ ~ Rejected(text)
       /\ hand' = text
  /\ IF script = "retry" THEN UNCHANGED status ELSE SetStatus("validating")
  /\ Goto("validate")
  /\ UNCHANGED <<plan, content, cur, iteration, generated, failed, disk>>

GenerateFails ==
  /\ at = "generate"
  /\ SetStatus("failed")
  /\ failed' = IF script = "retry" THEN failed ELSE failed + 1
  /\ Goto(IF Logs THEN "log" ELSE "pick")
  /\ UNCHANGED <<plan, content, cur, hand, iteration, generated, disk>>

\* Seeded fault: the repaired text is saved and not kept in the plan.
KeepFirstOnly ==
  /\ SetStatus("done")
  /\ content' = IF at = "validate" THEN [content EXCEPT ![cur] = hand] ELSE content

\* The task is done, in memory.
Keep ==
  /\ SetStatus("done")
  /\ content' = [content EXCEPT ![cur] = hand]

Valid ==
  /\ at \in {"validate", "revalidate"}
  /\ "valid" \in Verdicts(Path(cur), hand)
  /\ Keep
  /\ Goto("save")
  /\ UNCHANGED <<plan, cur, hand, iteration, generated, failed, disk>>

\* Seeded fault: the retry gives a file it could not use a status of its own.
InvalidSkipped ==
  /\ at = "validate"
  /\ "invalid" \in Verdicts(Path(cur), hand)
  /\ IF script = "retry"
       THEN Goto("pick") /\ SetStatus("skipped")
       ELSE Goto("repair") /\ SetStatus("repairing")
  /\ UNCHANGED <<plan, content, cur, hand, iteration, generated, failed, disk>>

\* retry_generation.py does not repair, and leaves the task as it is.
Invalid ==
  /\ at = "validate"
  /\ "invalid" \in Verdicts(Path(cur), hand)
  /\ IF script = "retry"
       THEN Goto("pick") /\ UNCHANGED status
       ELSE Goto("repair") /\ SetStatus("repairing")
  /\ UNCHANGED <<plan, content, cur, hand, iteration, generated, failed, disk>>

Repair ==
  /\ at = "repair"
  /\ hand' \in {"text", "broken"}
  /\ Goto("revalidate")
  /\ UNCHANGED <<plan, status, content, cur, iteration, generated, failed, disk>>

\* The model has no answer, or an empty one, or the answer is not valid.
RepairFails ==
  /\ \/ at = "repair"
     \/ at = "revalidate" /\ "invalid" \in Verdicts(Path(cur), hand)
  /\ SetStatus("failed")
  /\ failed' = IF Logs THEN failed ELSE failed + 1
  /\ Goto(IF Logs THEN "log_bad" ELSE "pick")
  /\ UNCHANGED <<plan, content, cur, hand, iteration, generated, disk>>

\* Seeded fault: a write that fails is logged, and the script goes on.
SaveQuietly ==
  /\ at = "save"
  /\ SaveFile(Path(cur)) \/ SaveFileCut(Path(cur))
  /\ Goto("record")
  /\ UNCHANGED <<memory, record>>

Save ==
  /\ at = "save"
  /\ SaveFile(Path(cur))
  /\ Goto("record")
  /\ UNCHANGED <<memory, record>>

\* Seeded fault: the counter counts failed files as well.
CountAlways == generated' = generated + 1 /\ UNCHANGED failed

Count ==
  /\ generated' = IF at = "log_bad" \/ script = "retry" THEN generated ELSE generated + 1
  /\ failed' = IF at = "log_bad" THEN failed + 1 ELSE failed

Record ==
  /\ at = "record"
  /\ SaveStatus(Path(cur))
  /\ IF Logs
       THEN Goto("log_done") /\ UNCHANGED <<generated, failed>>
       ELSE Goto("pick") /\ Count
  /\ UNCHANGED <<plan, status, content, cur, hand, iteration, workspace>>

Log ==
  /\ at \in {"log", "log_done", "log_bad"}
  /\ IF at = "log" THEN UNCHANGED <<generated, failed>> ELSE Count
  /\ Goto("pick")
  /\ UNCHANGED <<plan, status, content, cur, hand, iteration, disk>>

\* What a script that stops in the middle of its step leaves behind.
HalfDone ==
  \/ at = "save" /\ SaveFileCut(Path(cur)) /\ UNCHANGED record
  \/ at = "record" /\ SaveStatusCut(Path(cur)) /\ UNCHANGED workspace
  \/ at \notin {"save", "record"} /\ UNCHANGED disk

\* A write fails: nothing in the scripts catches it, but run_one_project,
\* which reports the error and is at its end as well.
WriteFails ==
  /\ at \in {"save_plan", "save", "record", "log", "log_done", "log_bad"}
  /\ HalfDone
  /\ Goto("raised")
  /\ UNCHANGED memory

ValidatorRaises ==
  /\ at \in {"validate", "revalidate"}
  /\ "raises" \in Verdicts(Path(cur), hand)
  /\ Goto("raised")
  /\ UNCHANGED <<memory, disk>>

Crash ==
  /\ at \in Working
  /\ HalfDone
  /\ Goto("crashed")
  /\ Forget

Step ==
  \/ SavePlan \/ Pick \/ EndLoop
  \/ Generate \/ GenerateFails
  \/ Valid \/ Invalid \/ Repair \/ RepairFails
  \/ Save \/ Record \/ Log
  \/ WriteFails \/ ValidatorRaises

Next ==
  \/ \E s \in Scripts : Begin(s) \/ NoBegin(s)
  \/ Step
  \/ Crash

Spec == Init /\ [][Next]_vars

\* A call of a model, of the validator and of the file system returns.
FairSpec == Spec /\ WF_vars(Step)
-----------------------------------------------------------------------------
(***************************************************************************)
(* Properties.                                                             *)
(***************************************************************************)

\* get_completed_files never lists a path whose file is missing, or was cut
\* off when it was written first: save_file comes before save_file_status in
\* every script, whatever ends an execution, and an execution after it
\* writes over the same directory.
CompletedFilesExist ==
  \A p \in Completed : workspace[p] \in {"whole", "spoiled"}

\* The prompt for a file has the content of every dependency.  The task
\* scheduler calls a file ready when some task with the path is done, the
\* context builder looks at the first one (context_builder.py 129): they
\* agree unless the plan lists the path twice or the content is empty.
Unambiguous(p) == \A i, j \in Tasks : Path(i) = p /\ Path(j) = p => i = j

ContextIsComplete ==
  at = "generate" =>
    \A p \in plan[cur].dependencies :
      \/ p \in Context(cur)
      \/ ~ Unambiguous(p)
      \/ \E i \in Tasks : Path(i) = p /\ content[i] = "empty"

\* The report of a script that came to its end counts what became of the
\* files, and a file that is done is whole in the workspace.  Its status file
\* is there and says so of it, or of another done file, for two paths may
\* have status files of one name (artifact_manager.py 88): of those that
\* share one, get_completed_files lists one.  (That it lists each done file
\* is refuted: see WorkshopClaims.)  A done Python file parses, repaired or
\* not.
DoneTasks == {i \in Tasks : status[i] = "done"}
FailedTasks == {i \in Tasks : status[i] = "failed"}

CountsAreTrue ==
  script # "retry" =>
    /\ generated = Cardinality(DoneTasks)
    /\ failed = Cardinality(FailedTasks)

DoneFilesAreThere ==
  \A i \in DoneTasks :
    /\ LanguageOf[Path(i)] = "python" => content[i] # "broken"
    /\ workspace[Path(i)] = "whole"
    /\ \E j \in DoneTasks :
         NameOf[Path(j)] = NameOf[Path(i)] /\ Path(j) \in Completed

ReportIsTrue == at = "ended" => CountsAreTrue /\ DoneFilesAreThere

\* Every execution comes to an end, also when the plan has a dependency
\* that nothing provides.
ScriptEnds == at \in Working ~> at \in Resting
=============================================================================
