------------------------ MODULE PipelineStatusProofs ------------------------
(***************************************************************************)
(* Further proofs about Pipeline: what the status of the run, which six    *)
(* nodes overwrite in turn, says about files, budget and approval, and how *)
(* many steps the graph can take.                                          *)
(*                                                                         *)
(* StatusInv is inductive relative to IInv of PipelineProofs.  Each of its *)
(* parts is preserved for a reason of its own and has a lemma of its own;  *)
(* an action that a part cannot notice is dismissed in the lemma's group   *)
(* of quiet actions.                                                       *)
(***************************************************************************)
EXTENDS PipelineProofs, FiniteSetTheorems

\* What was listed and written before there was a plan: nothing.
NothingBeforePlan ==
  project_plan = None => /\ generated_files = <<>>
                         /\ \A p \in Paths : disk[p] = 0

\* A failed file keeps the internal status failed as well, from which the
\* next derive_run_status takes the public one.
FailureIsKept ==
  /\ project_plan # None /\ HasFailures(project_plan, file_status)
  /\ \/ node \in {"generate_file", "tester", "reviewer"}
     \/ node \in {"documentation", "end"} /\ ~generated_code
  => status = "failed" /\ run_status = "failed"

\* Once the tester has charged its call, an overrun shows in the status.
OverrunIsKept ==
  /\ node \in {"reviewer", "documentation", "end"}
  /\ workspace_path /\ ~generated_code /\ tokens_used > MAX_TOKENS
  => status = "failed"

StatusInv ==
  /\ ApprovalStopsRun
  /\ NoReadyFileSkipped
  /\ NothingBeforePlan
  /\ GeneratedFilesAreDone
  /\ FailureIsKept
  /\ StaleHidesOnlyBudget
  /\ OverrunIsKept

-----------------------------------------------------------------------------
\* create_initial_state establishes the invariant.
LEMMA InitStatusInv == Init => StatusInv
  BY LimitsAssumption
  DEF Init, StatusInv, ApprovalStopsRun, NoReadyFileSkipped,
      NothingBeforePlan, GeneratedFilesAreDone, FailureIsKept,
      StaleHidesOnlyBudget, OverrunIsKept

\* A run that has stopped stays as it is.
LEMMA StoppedStays ==
  ASSUME node \in Stopped, IInv, [Next]_vars
  PROVE  UNCHANGED vars
  BY DEF Stopped, Next, GenerateFile, Finished, AtGenerate, ArchitectFails,
         ArchitectDesigns, PlannerFails, PlannerDecomposes, NoPlan,
         WorkspaceUnusable, NothingReady, PickTask, ProviderRetry,
         ProviderGivesUp, ProviderAnswers, ContentValid, ContentInvalid,
         ValidatorRaises, RepairUnavailable, RepairAnswers, RepairedRaises,
         TesterHasNoCode, TesterReports, TesterRaises, ReviewerHasNoCode,
         ReviewerReports, ReviewerRaises, DocumentationHasNoCode,
         DocumentationWrites, DocumentationRaises

\* Nothing a property of StatusInv speaks of changes in a stutter.
LEMMA StutterStatusInv ==
  ASSUME StatusInv, UNCHANGED vars
  PROVE  StatusInv'
  <1>1. UNCHANGED <<node, steps, status, run_status, project_plan,
                    file_status, generated_files, disk, tokens_used, reviewed,
                    workspace_path, generated_code>>
    BY DEF vars, agentVars, planVars, fileVars, inputVars
  <1> QED
    BY <1>1
    DEF StatusInv, ApprovalStopsRun, NoReadyFileSkipped,
        NothingBeforePlan, GeneratedFilesAreDone, FailureIsKept,
        StaleHidesOnlyBudget, OverrunIsKept

\* Only the reviewer sets the status that asks for approval, and then the
\* graph ends.
LEMMA ApprovalStep ==
  ASSUME IInv, ApprovalStopsRun, node \notin Stopped, Next
  PROVE  ApprovalStopsRun'
  <1>0. status # "waiting_approval" /\ run_status # "waiting_approval"
    BY DEF ApprovalStopsRun, Stopped
  <1>1. CASE ReviewerReports
    BY <1>1, <1>0
    DEF ReviewerReports, Leave, Goto, RouteReview, Charge, DeriveRunStatus,
        ApprovalStopsRun
  <1>2. CASE ~ReviewerReports
    <2>1. status' # "waiting_approval" /\ run_status' # "waiting_approval"
      BY <1>2, <1>0
      DEF Next, GenerateFile, Finished, Stopped, AtGenerate, ArchitectFails,
          ArchitectDesigns, PlannerFails, PlannerDecomposes, NoPlan,
          WorkspaceUnusable, NothingReady, PickTask, ProviderRetry,
          ProviderGivesUp, ProviderAnswers, ContentValid, ContentInvalid,
          ValidatorRaises, RepairedRaises,
          RepairUnavailable, RepairAnswers, TesterHasNoCode, TesterReports,
          TesterRaises, ReviewerHasNoCode, ReviewerRaises,
          DocumentationHasNoCode, DocumentationWrites, DocumentationRaises,
          Leave, Abort, Charge, DeriveRunStatus, FailTask, CompleteTask,
          agentVars
    <2> QED BY <2>1 DEF ApprovalStopsRun
  <1> QED BY <1>1, <1>2

\* A plan whose files are all done has no ready file.
LEMMA NothingReadyWhenDone ==
  ASSUME NEW plan, NEW fs, AllDone(plan, fs)
  PROVE  ReadyTasks(plan, fs) = {}
  BY DEF AllDone, ReadyTasks

\* The loop is left for the tester with nothing ready, or after a failure.
LEMMA LeftForTester ==
  ASSUME NEW plan, NEW fs, RouteFiles(plan, fs) # "generate_file",
         plan # None, ~HasFailures(plan, fs)
  PROVE  ReadyTasks(plan, fs) = {}
  BY NothingReadyWhenDone DEF RouteFiles

\* Every way out of generate_file asks RouteFiles, and the agents after it
\* change no file.
LEMMA NoReadyStep ==
  ASSUME IInv, NoReadyFileSkipped, node \notin Stopped, Next
  PROVE  NoReadyFileSkipped'
  <1>1. CASE node \in {"architect", "planner"}
    <2>1. node' \in Nodes \cup {"aborted"}
          /\ node' \notin {"tester", "reviewer", "documentation", "end"}
      BY <1>1
      DEF Next, GenerateFile, Finished, Stopped, AtGenerate, ArchitectFails,
          ArchitectDesigns, PlannerFails, PlannerDecomposes, NoPlan,
          WorkspaceUnusable, NothingReady, PickTask, ProviderRetry,
          ProviderGivesUp, ProviderAnswers, ContentValid, ContentInvalid,
          ValidatorRaises, RepairedRaises,
          RepairUnavailable, RepairAnswers, TesterHasNoCode, TesterReports,
          TesterRaises, ReviewerHasNoCode, ReviewerReports, ReviewerRaises,
          DocumentationHasNoCode, DocumentationWrites, DocumentationRaises,
          Leave, Goto, Nodes
    <2> QED BY <2>1 DEF NoReadyFileSkipped
  <1>2. CASE node = "generate_file"
    <2>1. \/ node' \in {"generate_file", "aborted"}
          \/ /\ UNCHANGED project_plan
             /\ node' = RouteFiles(project_plan, file_status')
      BY <1>2
      DEF Next, GenerateFile, Finished, Stopped, AtGenerate, ArchitectFails,
          ArchitectDesigns, PlannerFails, PlannerDecomposes, NoPlan,
          WorkspaceUnusable, NothingReady, PickTask, ProviderRetry,
          ProviderGivesUp, ProviderAnswers, ContentValid, ContentInvalid,
          ValidatorRaises, RepairedRaises,
          RepairUnavailable, RepairAnswers, TesterHasNoCode, TesterReports,
          TesterRaises, ReviewerHasNoCode, ReviewerReports, ReviewerRaises,
          DocumentationHasNoCode, DocumentationWrites, DocumentationRaises,
          FailTask, CompleteTask, Leave, Goto, Abort, planVars
    <2> QED BY <2>1, LeftForTester DEF NoReadyFileSkipped
  <1>3. CASE node \in {"tester", "reviewer", "documentation"}
    <2>1. UNCHANGED <<project_plan, file_status>>
      BY <1>3
      DEF Next, GenerateFile, Finished, Stopped, AtGenerate, ArchitectFails,
          ArchitectDesigns, PlannerFails, PlannerDecomposes, NoPlan,
          WorkspaceUnusable, NothingReady, PickTask, ProviderRetry,
          ProviderGivesUp, ProviderAnswers, ContentValid, ContentInvalid,
          ValidatorRaises, RepairedRaises,
          RepairUnavailable, RepairAnswers, TesterHasNoCode, TesterReports,
          TesterRaises, ReviewerHasNoCode, ReviewerReports, ReviewerRaises,
          DocumentationHasNoCode, DocumentationWrites, DocumentationRaises,
          planVars
    <2> QED BY <1>3, <2>1 DEF NoReadyFileSkipped
  <1> QED
    BY <1>1, <1>2, <1>3 DEF IInv, TypeOK, Nodes, Stopped

-----------------------------------------------------------------------------
\* The paths of a list that got one more.
LEMMA ListedAppend ==
  ASSUME NEW s \in Seq(Paths), NEW p \in Paths
  PROVE  {Append(s, p)[k] : k \in DOMAIN Append(s, p)}
           = {s[k] : k \in DOMAIN s} \cup {p}
  <1>1. /\ DOMAIN Append(s, p) = 1..(Len(s) + 1)
        /\ DOMAIN s = 1..Len(s) /\ Len(s) \in Nat
        /\ \A k \in 1..Len(s) : Append(s, p)[k] = s[k]
        /\ Append(s, p)[Len(s) + 1] = p
    OBVIOUS
  <1> QED BY <1>1

\* Listing, writing and marking a file go together unless the node raises.
LEMMA GeneratedStep ==
  ASSUME IInv, NothingBeforePlan, GeneratedFilesAreDone,
         node \notin Stopped, Next
  PROVE  NothingBeforePlan' /\ GeneratedFilesAreDone'
  <1> DEFINE Listed(s) == {s[k] : k \in DOMAIN s}
             Written(d) == {p \in Paths : d[p] # 0}
  <1>0. project_plan # None =>
          /\ Listed(generated_files) = DonePaths(project_plan, file_status)
          /\ workspace_path =>
               DonePaths(project_plan, file_status) = Written(disk)
    BY DEF GeneratedFilesAreDone, Stopped
  <1>1. CASE PlannerDecomposes
    <2>1. project_plan = None
      BY <1>1 DEF PlannerDecomposes, IInv, PhaseInv
    <2>2. generated_files = <<>> /\ Written(disk) = {}
      BY <2>1 DEF NothingBeforePlan
    <2>3. /\ project_plan' \in Plans
          /\ file_status' = [i \in DOMAIN project_plan' |-> "pending"]
          /\ UNCHANGED <<generated_files, disk>>
      BY <1>1 DEF PlannerDecomposes, fileVars
    <2>4. DonePaths(project_plan', file_status') = {}
      BY <2>3 DEF DonePaths
    <2>5. project_plan' # None
      BY <2>3, PlanShape
    <2> QED
      BY <2>2, <2>3, <2>4, <2>5
      DEF NothingBeforePlan, GeneratedFilesAreDone
  <1>2. ASSUME UNCHANGED <<project_plan, generated_files, disk,
                           workspace_path>>,
               DonePaths(project_plan', file_status')
                 = DonePaths(project_plan, file_status)
        PROVE  NothingBeforePlan' /\ GeneratedFilesAreDone'
    BY <1>0, <1>2 DEF NothingBeforePlan, GeneratedFilesAreDone
  <1>3. ASSUME UNCHANGED <<project_plan, generated_files, disk,
                           workspace_path>>,
               NEW i \in Tasks, file_status[i] \notin Settled,
               NEW v \in FileStatus \ {"done"},
               file_status' = [file_status EXCEPT ![i] = v]
        PROVE  NothingBeforePlan' /\ GeneratedFilesAreDone'
    <2>1. /\ Tasks = DOMAIN project_plan
          /\ file_status \in [DOMAIN project_plan -> FileStatus]
          /\ file_status[i] # "done" /\ v # "done"
      BY <1>3 DEF IInv, TypeOK, Tasks, Settled
    <2>2. DonePaths(project_plan, file_status')
            = DonePaths(project_plan, file_status)
      BY <1>3, <2>1 DEF DonePaths
    <2> QED BY <1>2, <1>3, <2>2
  <1>4. CASE PickTask
    <2>1. PICK i \in FirstReady(project_plan, file_status) :
            file_status' = [file_status EXCEPT ![i] = "generating"]
      BY <1>4 DEF PickTask
    <2>2. i \in Tasks /\ file_status[i] \notin Settled
      BY <1>4, <2>1 DEF PickTask, FirstReady, ReadyTasks, Tasks, Settled
    <2>3. "generating" \in FileStatus \ {"done"}
      BY DEF FileStatus
    <2> QED
      BY <1>3, <1>4, <2>1, <2>2, <2>3 DEF PickTask, fileVars, inputVars
  <1>5. CASE ProviderAnswers \/ ContentInvalid
    <2>1. current \in Tasks /\ file_status[current] \notin Settled
      BY <1>5, CurrentTask DEF ProviderAnswers, ContentInvalid, AtGenerate
    <2>2. PICK v \in {"validating", "repairing"} :
            file_status' = [file_status EXCEPT ![current] = v]
      BY <1>5 DEF ProviderAnswers, ContentInvalid
    <2>3. v \in FileStatus \ {"done"}
      BY DEF FileStatus
    <2> QED
      BY <1>3, <1>5, <2>1, <2>2, <2>3
      DEF ProviderAnswers, ContentInvalid, fileVars, inputVars
  <1>6. ASSUME node = "generate_file", step # "pick", NEW st, NEW errors, FailTask(st, errors)
        PROVE  NothingBeforePlan' /\ GeneratedFilesAreDone'
    <2>1. "failed" \in FileStatus \ {"done"}
      BY DEF FileStatus
    <2> QED
      BY <1>3, <1>6, <2>1, CurrentTask DEF FailTask, SettleCurrent, inputVars
  <1>7. ASSUME node = "generate_file", step # "pick", NEW st, CompleteTask(st)
        PROVE  NothingBeforePlan' /\ GeneratedFilesAreDone'
    <2> DEFINE path == project_plan[current].file_path
    <2>1. /\ current \in Tasks /\ file_status[current] # "done"
          /\ Tasks = DOMAIN project_plan /\ project_plan # None
          /\ file_status \in [DOMAIN project_plan -> FileStatus]
          /\ current # 0
          /\ path \in Paths
      BY <1>7, CurrentTask, PlanShape DEF IInv, TypeOK, Tasks, Settled
    <2>2. UNCHANGED <<project_plan, workspace_path>>
      BY <1>7 DEF CompleteTask, inputVars
    <2>3. CASE node' = "aborted"
      BY <2>1, <2>2, <2>3 DEF NothingBeforePlan, GeneratedFilesAreDone
    <2>4. CASE node' # "aborted"
      <3>1. PICK call \in ArtifactCalls :
              /\ disk' = IF call = "written"
                           THEN [disk EXCEPT ![path] = current] ELSE disk
              /\ generated_files' = Append(generated_files, path)
              /\ call # "raised"
        BY <1>7, <2>4 DEF CompleteTask, Abort
      <3>2. workspace_path => call # "skipped"
        BY DEF ArtifactCalls
      <3>3. DonePaths(project_plan', file_status')
              = DonePaths(project_plan, file_status) \cup {path}
        <4>1. file_status' = [file_status EXCEPT ![current] = "done"]
          BY <1>7 DEF CompleteTask, SettleCurrent
        <4> QED BY <2>1, <2>2, <4>1 DEF DonePaths
      <3>4. Listed(generated_files') = Listed(generated_files) \cup {path}
        <4>1. generated_files \in Seq(Paths)
          BY DEF IInv, TypeOK
        <4> QED BY <2>1, <3>1, <4>1, ListedAppend
      <3>5. disk \in [Paths -> Tasks \cup {0}]
        BY DEF IInv, TypeOK
      <3>6. workspace_path => call = "written"
        BY <3>1, <3>2 DEF ArtifactCalls
      <3>7. workspace_path => Written(disk') = Written(disk) \cup {path}
        BY <2>1, <3>1, <3>5, <3>6
      <3> QED
        BY <1>0, <2>1, <2>2, <3>3, <3>4, <3>7
        DEF NothingBeforePlan, GeneratedFilesAreDone
    <2> QED BY <2>3, <2>4
  <1>8. CASE ProviderGivesUp \/ ContentValid \/ RepairUnavailable
             \/ RepairAnswers
    BY <1>6, <1>7, <1>8
    DEF ProviderGivesUp, ContentValid, RepairUnavailable, RepairAnswers,
        AtGenerate
  <1>9. CASE UNCHANGED <<project_plan, file_status, generated_files, disk,
                         workspace_path>>
    BY <1>2, <1>9
  <1> QED
    BY <1>1, <1>4, <1>5, <1>8, <1>9
    DEF Next, GenerateFile, Finished, ArchitectFails, ArchitectDesigns,
        PlannerFails, NoPlan, WorkspaceUnusable, NothingReady, ProviderRetry,
        ValidatorRaises, RepairedRaises, TesterHasNoCode, TesterReports,
        TesterRaises, ReviewerHasNoCode, ReviewerReports, ReviewerRaises,
        DocumentationHasNoCode, DocumentationWrites, DocumentationRaises,
        planVars, fileVars, inputVars, vars

-----------------------------------------------------------------------------
\* A task that is not failed and gets a status that is not failed leaves the
\* failures as they are.
LEMMA FailuresOfMove ==
  ASSUME NEW plan, NEW fs \in [DOMAIN plan -> FileStatus],
         NEW i \in DOMAIN plan, fs[i] \notin Settled, NEW v, v # "failed",
         NEW next, next = [fs EXCEPT ![i] = v]
  PROVE  HasFailures(plan, next) <=> HasFailures(plan, fs)
  BY DEF HasFailures, Settled

\* After a failure generate_file sets no status but failed, and no agent up
\* to the reviewer sets one that is not failed on a failed run.
LEMMA FailureStep ==
  ASSUME IInv, FailureIsKept, node \notin Stopped, Next
  PROVE  FailureIsKept'
  <1>1. CASE PlannerDecomposes
    <2>1. ~HasFailures(project_plan', file_status')
      BY <1>1 DEF PlannerDecomposes, HasFailures
    <2> QED BY <2>1 DEF FailureIsKept
  <1>2. CASE ArchitectFails \/ ArchitectDesigns \/ PlannerFails \/ NoPlan
    <2>1. project_plan' = None
      BY <1>2
      DEF ArchitectFails, ArchitectDesigns, PlannerFails, NoPlan, planVars,
          IInv, PhaseInv
    <2> QED BY <2>1 DEF FailureIsKept
  <1>3. CASE WorkspaceUnusable \/ ValidatorRaises \/ RepairedRaises
    BY <1>3
    DEF WorkspaceUnusable, ValidatorRaises, RepairedRaises, Abort,
        FailureIsKept
  <1>4. CASE NothingReady
    <2>1. AllDone(project_plan, file_status)
            => ~HasFailures(project_plan, file_status)
      BY DEF AllDone, HasFailures
    <2> QED
      BY <1>4, <2>1
      DEF NothingReady, AtGenerate, Leave, DeriveRunStatus, planVars,
          FailureIsKept
  <1>5. ASSUME node = "generate_file", step # "pick" \/ PickTask,
               UNCHANGED <<project_plan, inputVars>>,
               NEW i \in Tasks, file_status[i] \notin Settled,
               NEW v, v # "failed",
               file_status' = [file_status EXCEPT ![i] = v],
               status' \in {status, "failed"}, UNCHANGED run_status
        PROVE  FailureIsKept'
    <2>1. /\ node = "generate_file"
          /\ Tasks = DOMAIN project_plan /\ project_plan # None
          /\ file_status \in [DOMAIN project_plan -> FileStatus]
      BY <1>5, CurrentTask DEF PickTask, AtGenerate, IInv, TypeOK, Tasks
    <2>2. HasFailures(project_plan, file_status')
            <=> HasFailures(project_plan, file_status)
      BY <1>5, <2>1, FailuresOfMove
    <2> QED BY <1>5, <2>1, <2>2 DEF FailureIsKept
  <1>6. CASE PickTask
    <2>1. PICK i \in FirstReady(project_plan, file_status) :
            file_status' = [file_status EXCEPT ![i] = "generating"]
      BY <1>6 DEF PickTask
    <2>2. i \in Tasks /\ file_status[i] \notin Settled
      BY <1>6, <2>1 DEF PickTask, FirstReady, ReadyTasks, Tasks, Settled
    <2> QED BY <1>5, <1>6, <2>1, <2>2 DEF PickTask, AtGenerate, agentVars
  <1>7. CASE ProviderRetry
    BY <1>7
    DEF ProviderRetry, agentVars, planVars, inputVars, FailureIsKept
  <1>8. CASE ProviderAnswers \/ ContentInvalid
    <2>1. PICK v \in {"validating", "repairing"} :
            file_status' = [file_status EXCEPT ![current] = v]
      BY <1>8 DEF ProviderAnswers, ContentInvalid
    <2> QED
      BY <1>5, <1>8, <2>1, CurrentTask
      DEF ProviderAnswers, ContentInvalid, AtGenerate, agentVars, Charge
  <1>9. ASSUME NEW st, NEW errors, FailTask(st, errors)
        PROVE  FailureIsKept'
    BY <1>9 DEF FailTask, Abort, Leave, DeriveRunStatus, FailureIsKept
  <1>10. ASSUME node = "generate_file", step # "pick", NEW st \in {status, "failed"}, CompleteTask(st)
         PROVE  FailureIsKept'
    BY <1>5, <1>10, CurrentTask DEF CompleteTask, SettleCurrent
  <1>11. CASE ProviderGivesUp \/ ContentValid \/ RepairUnavailable
              \/ RepairAnswers
    <2>1. \A cost : Charge(Spend(cost), status) \in {status, "failed"}
      BY DEF Charge
    <2> QED
      BY <1>9, <1>10, <1>11, <2>1
      DEF ProviderGivesUp, ContentValid, RepairUnavailable, RepairAnswers,
          AtGenerate
  <1>12. CASE TesterHasNoCode \/ TesterReports \/ TesterRaises
    <2>1. /\ node = "tester"
          /\ UNCHANGED <<project_plan, file_status, generated_code>>
          /\ \E st \in {status, "failed"} :
               /\ status' = st
               /\ run_status' = DeriveRunStatus(st, project_plan', file_status')
      BY <1>12
      DEF TesterHasNoCode, TesterReports, TesterRaises, Leave, Charge,
          planVars, inputVars
    <2> QED BY <2>1 DEF FailureIsKept, DeriveRunStatus
  <1>13. CASE ReviewerHasNoCode \/ DocumentationHasNoCode
    BY <1>13
    DEF ReviewerHasNoCode, DocumentationHasNoCode, Leave, DeriveRunStatus,
        planVars, inputVars, FailureIsKept
  <1>14. CASE ReviewerReports \/ ReviewerRaises \/ DocumentationWrites
              \/ DocumentationRaises
    <2>1. generated_code' /\ node' \in {"documentation", "end", "aborted"}
      BY <1>14
      DEF ReviewerReports, ReviewerRaises, DocumentationWrites,
          DocumentationRaises, Leave, Goto, RouteReview, inputVars
    <2> QED BY <2>1 DEF FailureIsKept
  <1> QED
    BY <1>1, <1>2, <1>3, <1>4, <1>6, <1>7, <1>8, <1>11, <1>12, <1>13, <1>14
    DEF Next, GenerateFile, Finished

-----------------------------------------------------------------------------
\* The success path of generate_file keeps the public status; everything else
\* derives it from the status, or changes neither.
LEMMA StaleStep ==
  ASSUME IInv, ApprovalStopsRun, StaleHidesOnlyBudget, node \notin Stopped,
         Next
  PROVE  StaleHidesOnlyBudget'
  <1> USE LimitsAssumption
  <1>1. CASE node' = "aborted"
    BY <1>1 DEF StaleHidesOnlyBudget
  <1>2. ASSUME NEW st, NEW next, Leave(st, next)
        PROVE  StaleHidesOnlyBudget'
    BY <1>2 DEF Leave, StaleHidesOnlyBudget
  <1>3. ASSUME node = "generate_file", status # "done",
               status' \in {status, "failed"}, UNCHANGED run_status,
               \/ status' = status /\ tokens_used' = tokens_used
               \/ \E cost \in TokenCosts :
                    /\ tokens_used' = Spend(cost)
                    /\ status' = Charge(Spend(cost), status)
        PROVE  StaleHidesOnlyBudget'
    <2>1. status # "waiting_approval" /\ status' # "done"
      BY <1>3 DEF ApprovalStopsRun
    <2>2. /\ DeriveRunStatus(status', project_plan', file_status')
               = IF status' = "failed" THEN "failed" ELSE "running"
          /\ DeriveRunStatus(status, project_plan, file_status)
               = IF status = "failed" THEN "failed" ELSE "running"
      BY <1>3, <2>1 DEF DeriveRunStatus, IInv, TypeOK, Status
    <2>3. \/ run_status = IF status = "failed" THEN "failed" ELSE "running"
          \/ /\ status = "failed" /\ run_status = "running"
             /\ tokens_used > MAX_TOKENS
      BY <1>3, <2>2 DEF StaleHidesOnlyBudget
    <2>4. \A cost \in TokenCosts :
            /\ tokens_used > MAX_TOKENS => Spend(cost) > MAX_TOKENS
            /\ Charge(Spend(cost), status)
                 = IF Spend(cost) > MAX_TOKENS THEN "failed" ELSE status
      BY DEF Spend, Charge, IInv, TypeOK
    <2> QED BY <1>3, <2>2, <2>3, <2>4 DEF StaleHidesOnlyBudget
  <1>4. status = "done" =>
          \A i \in Tasks : file_status[i] = "done"
    BY DEF IInv, PhaseInv, AllDone, Tasks
  <1>5. CASE PickTask
    <2>1. status # "done"
      BY <1>4, <1>5 DEF PickTask, FirstReady, ReadyTasks, Tasks
    <2> QED BY <1>3, <1>5, <2>1 DEF PickTask, AtGenerate, agentVars
  <1>6. ASSUME node = "generate_file", step # "pick" PROVE status # "done"
    BY <1>4, <1>6, CurrentTask DEF Settled
  <1>7. CASE ProviderRetry \/ ProviderAnswers \/ ContentInvalid
    BY <1>3, <1>6, <1>7
    DEF ProviderRetry, ProviderAnswers, ContentInvalid, AtGenerate, agentVars,
        Charge
  <1>8. ASSUME NEW st, NEW errors, FailTask(st, errors)
        PROVE  StaleHidesOnlyBudget'
    BY <1>1, <1>2, <1>8 DEF FailTask, Abort
  <1>9. CASE ContentValid
    BY <1>3, <1>6, <1>9 DEF ContentValid, CompleteTask, AtGenerate
  <1>10. CASE RepairAnswers
    <2>1. PICK cost \in TokenCosts :
            /\ tokens_used' = Spend(cost)
            /\ \/ CompleteTask(Charge(Spend(cost), status))
               \/ FailTask(Charge(Spend(cost), status),
                           {project_plan[current].file_path})
      BY <1>10 DEF RepairAnswers
    <2>2. Charge(Spend(cost), status) \in {status, "failed"}
      BY DEF Charge
    <2> QED
      BY <1>3, <1>6, <1>8, <1>10, <2>1, <2>2
      DEF RepairAnswers, CompleteTask, AtGenerate
  <1>11. CASE ProviderGivesUp \/ RepairUnavailable
    BY <1>8, <1>11 DEF ProviderGivesUp, RepairUnavailable
  <1>12. CASE WorkspaceUnusable \/ ValidatorRaises \/ RepairedRaises
    BY <1>1, <1>12
    DEF WorkspaceUnusable, ValidatorRaises, RepairedRaises, Abort
  <1>13. CASE Finished
    BY <1>13 DEF Finished
  <1>14. CASE ArchitectFails \/ ArchitectDesigns \/ PlannerFails
              \/ PlannerDecomposes \/ NoPlan \/ NothingReady
    BY <1>2, <1>14
    DEF ArchitectFails, ArchitectDesigns, PlannerFails, PlannerDecomposes,
        NoPlan, NothingReady
  <1>15. CASE TesterHasNoCode \/ TesterReports \/ TesterRaises
              \/ ReviewerHasNoCode \/ ReviewerReports \/ ReviewerRaises
    BY <1>2, <1>15
    DEF TesterHasNoCode, TesterReports, TesterRaises, ReviewerHasNoCode,
        ReviewerReports, ReviewerRaises
  <1>16. CASE DocumentationHasNoCode \/ DocumentationWrites
              \/ DocumentationRaises
    BY <1>2, <1>16
    DEF DocumentationHasNoCode, DocumentationWrites, DocumentationRaises
  <1> QED
    BY <1>5, <1>7, <1>9, <1>10, <1>11, <1>12, <1>13, <1>14, <1>15, <1>16
    DEF Next, GenerateFile

\* The tester's own call is the last before the reviewer that is charged when
\* there is no code in the state.
LEMMA OverrunStep ==
  ASSUME IInv, OverrunIsKept, node \notin Stopped, Next
  PROVE  OverrunIsKept'
  <1>1. CASE node \in {"architect", "planner", "generate_file"}
    <2>1. node' \in {"planner", "generate_file", "tester", "aborted"}
      BY <1>1, RouteFilesRange
      DEF Next, GenerateFile, Finished, Stopped, AtGenerate, ArchitectFails,
          ArchitectDesigns, PlannerFails, PlannerDecomposes, NoPlan,
          WorkspaceUnusable, NothingReady, PickTask, ProviderRetry,
          ProviderGivesUp, ProviderAnswers, ContentValid, ContentInvalid,
          ValidatorRaises, RepairedRaises,
          RepairUnavailable, RepairAnswers, TesterHasNoCode, TesterReports,
          TesterRaises, ReviewerHasNoCode, ReviewerReports, ReviewerRaises,
          DocumentationHasNoCode, DocumentationWrites, DocumentationRaises,
          Leave, Goto, Abort, FailTask, CompleteTask
    <2> QED BY <2>1 DEF OverrunIsKept
  <1>2. CASE TesterHasNoCode
    BY <1>2 DEF TesterHasNoCode, inputVars, OverrunIsKept
  <1>3. CASE TesterReports
    BY <1>3 DEF TesterReports, Leave, Charge, OverrunIsKept
  <1>4. CASE TesterRaises
    BY <1>4 DEF TesterRaises, Leave, OverrunIsKept
  <1>5. CASE ReviewerHasNoCode \/ DocumentationHasNoCode
    BY <1>5
    DEF ReviewerHasNoCode, DocumentationHasNoCode, Leave, inputVars,
        OverrunIsKept
  <1>6. CASE ReviewerReports \/ ReviewerRaises \/ DocumentationWrites
             \/ DocumentationRaises
    <2>1. generated_code'
      BY <1>6
      DEF ReviewerReports, ReviewerRaises, DocumentationWrites,
          DocumentationRaises, Leave, inputVars
    <2> QED BY <2>1 DEF OverrunIsKept
  <1> QED
    BY <1>1, <1>2, <1>3, <1>4, <1>5, <1>6
    DEF Next, GenerateFile, Finished, AtGenerate, ArchitectFails,
        ArchitectDesigns, PlannerFails, PlannerDecomposes, NoPlan,
        WorkspaceUnusable, NothingReady, PickTask, ProviderRetry,
        ProviderGivesUp, ProviderAnswers, ContentValid, ContentInvalid,
        ValidatorRaises, RepairUnavailable, RepairAnswers, RepairedRaises

-----------------------------------------------------------------------------
\* The files that are done or failed.
SettledTasks == {i \in Tasks : file_status[i] \in Settled}

\* Where the run is bounds the steps it has taken: each settled file accounts
\* for one, each test round for two (the tester, and a generate_file that
\* finds nothing ready).
StepsSoFar ==
  LET paid == Cardinality(SettledTasks)
                + 2 * (iteration_count + tester_errors)
  IN steps <= paid + CASE node = "architect"     -> 0
                       [] node = "planner"       -> 1
                       [] node = "generate_file" -> 2
                       [] node = "tester"        -> 3
                       [] node = "reviewer"      -> 2
                       [] node = "documentation" -> 3
                       [] OTHER                  -> 4

\* Settled tasks are as many as can be counted, and no more than the tasks.
LEMMA SettledCount ==
  ASSUME IInv
  PROVE  /\ IsFiniteSet(Tasks) /\ IsFiniteSet(SettledTasks)
         /\ Cardinality(SettledTasks) \in Nat /\ Cardinality(Tasks) \in Nat
         /\ Cardinality(SettledTasks) <= Cardinality(Tasks)
  <1>1. IsFiniteSet(Tasks)
    <2>1. CASE project_plan = None
      BY <2>1, FS_EmptySet DEF Tasks
    <2>2. CASE project_plan # None
      <3>1. project_plan \in Plans
        BY <2>2 DEF IInv, TypeOK
      <3>2. Tasks = 1..Len(project_plan) /\ Len(project_plan) \in Nat
        BY <2>2, <3>1, PlanShape DEF Tasks
      <3> QED BY <3>2, FS_Interval
    <2> QED BY <2>1, <2>2
  <1>2. SettledTasks \subseteq Tasks
    BY DEF SettledTasks
  <1> QED BY <1>1, <1>2, FS_Subset, FS_CardinalityType

\* No step unsettles a file, and one that settles a file counts one more.
LEMMA SettledGrow ==
  ASSUME IInv, [Next]_vars
  PROVE  /\ Cardinality(SettledTasks') \in Nat
         /\ Cardinality(SettledTasks') >= Cardinality(SettledTasks)
         /\ \A i \in Tasks, v \in Settled :
              /\ file_status[i] \notin Settled
              /\ file_status' = [file_status EXCEPT ![i] = v]
              /\ UNCHANGED project_plan
              => Cardinality(SettledTasks') = Cardinality(SettledTasks) + 1
  <1>0. /\ IsFiniteSet(SettledTasks)
        /\ Cardinality(SettledTasks) \in Nat
    BY SettledCount
  <1>1. ASSUME NEW i \in Tasks, NEW v \in Settled,
               file_status[i] \notin Settled,
               file_status' = [file_status EXCEPT ![i] = v],
               UNCHANGED project_plan
        PROVE  Cardinality(SettledTasks') = Cardinality(SettledTasks) + 1
    <2>1. file_status \in [Tasks -> FileStatus] /\ Tasks' = Tasks
      BY <1>1 DEF IInv, TypeOK, Tasks
    <2>2. SettledTasks' = SettledTasks \cup {i} /\ i \notin SettledTasks
      BY <1>1, <2>1 DEF SettledTasks
    <2> QED BY <1>0, <2>2, FS_AddElement
  <1>2. CASE UNCHANGED <<project_plan, file_status>>
    <2>1. SettledTasks' = SettledTasks
      BY <1>2 DEF SettledTasks, Tasks
    <2> QED BY <1>0, <1>1, <2>1
  <1>3. CASE /\ project_plan = None
             /\ file_status' = [i \in DOMAIN project_plan' |-> "pending"]
    <2>1. SettledTasks = {} /\ SettledTasks' = {}
      BY <1>3 DEF SettledTasks, Tasks, Settled
    <2>2. Cardinality(SettledTasks) = 0 /\ Cardinality(SettledTasks') = 0
      BY <2>1, FS_EmptySet
    <2> QED BY <1>1, <2>2
  <1>4. CASE /\ UNCHANGED project_plan
             /\ \E i \in Tasks, v \in InFlight \cup Settled :
                  /\ file_status[i] \notin Settled
                  /\ file_status' = [file_status EXCEPT ![i] = v]
    <2>1. PICK i \in Tasks, v \in InFlight \cup Settled :
            /\ file_status[i] \notin Settled
            /\ file_status' = [file_status EXCEPT ![i] = v]
      BY <1>4
    <2>2. CASE v \in Settled
      <3>1. Cardinality(SettledTasks') = Cardinality(SettledTasks) + 1
        BY <1>1, <1>4, <2>1, <2>2
      <3>2. /\ Cardinality(SettledTasks') \in Nat
            /\ Cardinality(SettledTasks') >= Cardinality(SettledTasks)
        BY <1>0, <3>1
      <3> QED BY <3>1, <3>2
    <2>3. CASE v \notin Settled
      <3>1. file_status \in [Tasks -> FileStatus] /\ Tasks' = Tasks
        BY <1>4, <2>1 DEF IInv, TypeOK, Tasks
      <3>2. SettledTasks' = SettledTasks
        BY <2>1, <2>3, <3>1 DEF SettledTasks
      <3> QED BY <1>0, <1>1, <3>2
    <2> QED BY <2>2, <2>3
  <1> QED BY <1>2, <1>3, <1>4, FileStep

\* Every step of the graph is paid for by a file, a test round, or by being
\* one of the four that the run makes once.
LEMMA StepsStep ==
  ASSUME IInv, StepsSoFar, [Next]_vars
  PROVE  StepsSoFar'
  <1> DEFINE count == Cardinality(SettledTasks)
             count2 == Cardinality(SettledTasks')
             rounds == iteration_count + tester_errors
  <1>0. /\ count \in Nat /\ count2 \in Nat /\ count2 >= count
        /\ steps \in Nat /\ iteration_count \in Nat /\ tester_errors \in Nat
    BY SettledCount, SettledGrow, LimitsAssumption DEF IInv, TypeOK
  <1> HIDE DEF count, count2
  <1>1. CASE UNCHANGED <<node, steps, iteration_count, tester_errors>>
    BY <1>0, <1>1 DEF StepsSoFar, count, count2
  <1>2. ASSUME UNCHANGED testVars, NEW next, Goto(next),
               \/ node = "architect" /\ next = "planner"
               \/ node = "planner" /\ next = "generate_file"
               \/ node = "generate_file" /\ next = "tester"
               \/ /\ node = "generate_file" /\ next = "generate_file"
                  /\ count2 = count + 1
               \/ node = "reviewer" /\ next \in {"documentation", "end"}
               \/ node = "documentation" /\ next = "end"
        PROVE  StepsSoFar'
    BY <1>0, <1>2 DEF StepsSoFar, Goto, testVars, count, count2
  <1>3. ASSUME node = "tester", NEW next \in {"generate_file", "reviewer"},
               Goto(next),
               \/ iteration_count' = iteration_count + 1
                  /\ UNCHANGED tester_errors
               \/ tester_errors' = tester_errors + 1
                  /\ UNCHANGED iteration_count
        PROVE  StepsSoFar'
    BY <1>0, <1>3 DEF StepsSoFar, Goto, count, count2
  <1>4. ASSUME node = "generate_file", Abort, UNCHANGED testVars
        PROVE  StepsSoFar'
    BY <1>0, <1>4 DEF StepsSoFar, Abort, testVars, count, count2
  <1>5. CASE ArchitectFails \/ ArchitectDesigns \/ PlannerFails
             \/ PlannerDecomposes
    BY <1>2, <1>5
    DEF ArchitectFails, ArchitectDesigns, PlannerFails, PlannerDecomposes,
        Leave
  <1>6. CASE NoPlan \/ NothingReady
    <2>1. RouteFiles(project_plan, file_status) = "tester"
      BY <1>6 DEF NoPlan, NothingReady, RouteFiles
    <2> QED
      BY <1>2, <1>6, <2>1 DEF NoPlan, NothingReady, AtGenerate, Leave
  <1>7. CASE WorkspaceUnusable \/ ValidatorRaises \/ RepairedRaises
    BY <1>4, <1>7
    DEF WorkspaceUnusable, ValidatorRaises, RepairedRaises, AtGenerate
  <1>8. ASSUME node = "generate_file", step # "pick",
               NEW v \in Settled, SettleCurrent(v),
               UNCHANGED <<project_plan, testVars>>,
               Abort \/ Goto(RouteFiles(project_plan, file_status'))
        PROVE  StepsSoFar'
    <2>1. count2 = count + 1
      BY <1>8, CurrentTask, SettledGrow DEF SettleCurrent, count, count2
    <2>2. RouteFiles(project_plan, file_status') \in {"generate_file", "tester"}
      BY RouteFilesRange
    <2> QED BY <1>2, <1>4, <1>8, <2>1, <2>2
  <1>9. CASE ProviderGivesUp \/ ContentValid \/ RepairUnavailable
             \/ RepairAnswers
    <2>1. /\ node = "generate_file" /\ step # "pick"
          /\ \E st, errors : FailTask(st, errors) \/ CompleteTask(st)
      BY <1>9
      DEF ProviderGivesUp, ContentValid, RepairUnavailable, RepairAnswers,
          AtGenerate
    <2>2. "failed" \in Settled /\ "done" \in Settled
      BY DEF Settled
    <2> QED BY <1>8, <2>1, <2>2 DEF FailTask, CompleteTask, Leave
  <1>10. CASE TesterHasNoCode \/ TesterReports \/ TesterRaises
    <2>1. /\ node = "tester"
          /\ \E next \in {"generate_file", "reviewer"} : Goto(next)
          /\ \/ iteration_count' = iteration_count + 1
                /\ UNCHANGED tester_errors
             \/ tester_errors' = tester_errors + 1
                /\ UNCHANGED iteration_count
      BY <1>10
      DEF TesterHasNoCode, TesterReports, TesterRaises, Leave, TestRound,
          RouteTests
    <2> QED BY <1>3, <2>1
  <1>11. CASE ReviewerHasNoCode \/ ReviewerReports \/ ReviewerRaises
              \/ DocumentationHasNoCode \/ DocumentationWrites
              \/ DocumentationRaises
    BY <1>2, <1>11
    DEF ReviewerHasNoCode, ReviewerReports, ReviewerRaises,
        DocumentationHasNoCode, DocumentationWrites, DocumentationRaises,
        Leave, RouteReview
  <1> QED
    BY <1>1, <1>5, <1>6, <1>7, <1>9, <1>10, <1>11
    DEF Next, GenerateFile, Finished, PickTask, ProviderRetry,
        ProviderAnswers, ContentInvalid, testVars, vars

\* The graph takes at most one step per file, two per test round, counted or
\* not, and four more.
THEOREM StepsAreBounded == Spec => []StepsBounded
  <1>1. Init => StepsSoFar
    <2> SUFFICES ASSUME Init PROVE StepsSoFar
      OBVIOUS
    <2>1. Cardinality(SettledTasks) = 0
      BY FS_EmptySet DEF Init, SettledTasks, Tasks
    <2> QED BY <2>1 DEF Init, StepsSoFar
  <1>2. IInv /\ StepsSoFar /\ [Next]_vars => StepsSoFar'
    BY StepsStep
  <1>3. IInv /\ StepsSoFar => StepsBounded
    <2> SUFFICES ASSUME IInv, StepsSoFar PROVE StepsBounded
      OBVIOUS
    <2>1. /\ Cardinality(SettledTasks) \in Nat /\ Cardinality(Tasks) \in Nat
          /\ Cardinality(SettledTasks) <= Cardinality(Tasks)
      BY SettledCount
    <2>2. /\ iteration_count \in Nat /\ iteration_count <= MAX_ITERATIONS
          /\ tester_errors \in Nat /\ steps \in Nat /\ MAX_ITERATIONS \in Nat
      BY LimitsAssumption DEF IInv, TypeOK, IterationsBounded
    <2>3. steps <= Cardinality(SettledTasks)
                     + 2 * (iteration_count + tester_errors) + 4
      BY <2>1, <2>2 DEF StepsSoFar
    <2> QED BY <2>1, <2>2, <2>3 DEF StepsBounded
  <1> QED BY <1>1, <1>2, <1>3, Invariance, PTL DEF Spec

-----------------------------------------------------------------------------
\* The invariant of the statuses holds in every state of every run.
THEOREM StatusInvariance == Spec => []StatusInv
  <1>1. IInv /\ StatusInv /\ [Next]_vars => StatusInv'
    <2> SUFFICES ASSUME IInv, StatusInv, [Next]_vars PROVE StatusInv'
      OBVIOUS
    <2>1. CASE UNCHANGED vars
      BY <2>1, StutterStatusInv
    <2>2. CASE node \in Stopped
      BY <2>1, <2>2, StoppedStays
    <2>3. CASE node \notin Stopped /\ Next
      BY <2>3, ApprovalStep, NoReadyStep, GeneratedStep, FailureStep,
         StaleStep, OverrunStep
      DEF StatusInv
    <2> QED BY <2>1, <2>2, <2>3
  <1> QED BY <1>1, InitStatusInv, Invariance, PTL DEF Spec

\* Once a critical finding asks for approval nothing else runs in this
\* invocation, and nothing but a review asks for it.
THEOREM ApprovalIsLast == Spec => []ApprovalStopsRun
  <1>1. StatusInv => ApprovalStopsRun
    BY DEF StatusInv
  <1> QED BY <1>1, StatusInvariance, PTL

\* The generation loop is not left while a file could still be generated,
\* unless a file has failed.
THEOREM NothingReadyIsSkipped == Spec => []NoReadyFileSkipped
  <1>1. StatusInv => NoReadyFileSkipped
    BY DEF StatusInv
  <1> QED BY <1>1, StatusInvariance, PTL

\* While the graph runs, generated_files, the done tasks and the workspace
\* name the same paths.
THEOREM GeneratedAreDone == Spec => []GeneratedFilesAreDone
  <1>1. StatusInv => GeneratedFilesAreDone
    BY DEF StatusInv
  <1> QED BY <1>1, StatusInvariance, PTL

\* From the failure of a file on the run is shown as failed.
THEOREM FailuresAreShown == Spec => []FailedFileIsShown
  <1>1. StatusInv => FailedFileIsShown
    BY DEF StatusInv, FailureIsKept, FailedFileIsShown
  <1> QED BY <1>1, StatusInvariance, PTL

\* The public status lags behind the internal one only when the success path
\* of generate_file hides an overrun of the budget.
THEOREM OnlyBudgetIsHidden == Spec => []StaleHidesOnlyBudget
  <1>1. StatusInv => StaleHidesOnlyBudget
    BY DEF StatusInv
  <1> QED BY <1>1, StatusInvariance, PTL

\* A run in a workspace that has overrun its budget ends as failed.
THEOREM OverrunsEndFailed == Spec => []OverBudgetEndsFailed
  <1>1. StatusInv => OverBudgetEndsFailed
    BY DEF StatusInv, OverrunIsKept, OverBudgetEndsFailed
  <1> QED BY <1>1, StatusInvariance, PTL
=============================================================================
