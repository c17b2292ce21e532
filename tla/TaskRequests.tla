---------------------------- MODULE TaskRequests ----------------------------
(***************************************************************************)
(* POST /tasks (apps/api/routers/tasks.py): concurrent requests, each with *)
(* a database session of its own (db/session.py), seeding the table        *)
(* model_profiles, choosing a model through ModelRouter, running           *)
(* CoderAgent.run and committing at the end, while an administrator edits  *)
(* the table through POST and PATCH /models.                               *)
(*                                                                         *)
(* A session reads what is committed and what it wrote itself, and is      *)
(* committed or rolled back as a whole.  A profile row is named by its     *)
(* model and by who inserted it, for the table has no unique key but the   *)
(* random id; of its columns only enabled and capabilities are kept, as    *)
(* one value: "code" if the router selects the row for code_generation.    *)
(* Prompts, contents and tokens are left out: one call of at most 4096     *)
(* completion tokens stays below the budget of a run.                      *)
(***************************************************************************)
EXTENDS Naturals

CONSTANTS
  Requests,              \* the POST /tasks requests
  Admin,                 \* who inserts rows through POST /models
  SeedModels,            \* SEED_MODELS
  CodeModels,            \* the seed models capable of code_generation
  AddedModels,           \* models the administrator may add
  Priority,              \* model -> its priority, lower is tried first
  Paths                  \* file paths a model may answer with

ASSUME ModelsAssumption ==
  /\ CodeModels \subseteq SeedModels
  /\ CodeModels # {}
  /\ Priority \in [SeedModels \cup AddedModels -> Nat]

ASSUME AdminAssumption == Admin \notin Requests

VARIABLES
  \* The database: what is committed.
  profiles,              \* row of model_profiles -> see ProfileState
  runs,                  \* request -> runs.status, "none" without a row
  changes,               \* request -> paths of its rows in file_changes
  \* The session of a request: what it wrote and did not commit.
  run_row,               \* its Run object, "none" if there is none
  seeding,               \* did it insert the seed rows?
  \* The handler and the agent of a request.
  pc,                    \* what the handler does next: see Steps
  untried,               \* candidates ModelRouter.call has not tried
  to_write,              \* parsed files that are not written yet
  status,                \* AgentState.status
  files_changed,         \* AgentState.files_changed
  error,                 \* why coder.run failed
  \* Outside.
  workspace,             \* files on disk in the directory of the run
  answer                 \* the response the client has

storeVars   == <<runs, changes>>
sessionVars == <<run_row, seeding>>
agentVars   == <<untried, to_write, status, files_changed, error,
                 workspace>>

vars == <<profiles, storeVars, sessionVars, pc, agentVars, answer>>

SeedRows(r) == SeedModels \X {r}

Rows == (SeedModels \X Requests) \cup (AddedModels \X {Admin})

ProfileState == {"absent", "idle", "code"}

RunRow == {"none", "running", "failed", "completed"}

\* A handler is over, and in doubt if it does not know of its commit.
Over == {"end", "in_doubt"}

Steps == {"received", "seed", "select", "call", "write", "flush", "commit"}
           \cup Over

-----------------------------------------------------------------------------
(* What a session sees, and how it ends.                                   *)

Stored == {row \in Rows : profiles[row] # "absent"}

\* Seeded fault: a session does not see the rows it flushed.
CommittedCodeRows(r) == {row \in Rows : profiles[row] = "code"}

\* The rows ModelRouter selects for code_generation in the session of r.
CodeRows(r) ==
  {row \in Rows : profiles[row] = "code"}
    \cup (IF seeding[r] THEN CodeModels \X {r} ELSE {})

\* The candidates that come first: rows of equal priority in any order.
First(rows) ==
  {row \in rows : \A other \in rows : Priority[row[1]] <= Priority[other[1]]}

\* The profiles after the session of r is committed.
WithSeeds(r) ==
  IF seeding[r]
    THEN [row \in Rows |-> IF row \notin SeedRows(r) THEN profiles[row]
                           ELSE IF row[1] \in CodeModels THEN "code" ELSE "idle"]
    ELSE profiles

CloseSession(r) ==
  /\ run_row' = [run_row EXCEPT ![r] = "none"]
  /\ seeding' = [seeding EXCEPT ![r] = FALSE]

CommitSession(r) ==
  /\ profiles' = WithSeeds(r)
  /\ runs' = [runs EXCEPT ![r] = run_row[r]]
  /\ changes' = [changes EXCEPT ![r] = files_changed[r]]
  /\ CloseSession(r)

\* Seeded fault: the session is committed whatever happened.
CommitAlways(r) == CommitSession(r)

RollBack(r) ==
  /\ CloseSession(r)
  /\ UNCHANGED <<profiles, storeVars>>

Goto(r, next) == pc' = [pc EXCEPT ![r] = next]

\* coder.run returns with the status "failed".
AgentFails(r, why) ==
  /\ status' = [status EXCEPT ![r] = "failed"]
  /\ error' = [error EXCEPT ![r] = why]
  /\ Goto(r, "flush")

-----------------------------------------------------------------------------
Init ==
  /\ profiles = [row \in Rows |-> "absent"]
  /\ runs = [r \in Requests |-> "none"]
  /\ changes = [r \in Requests |-> {}]
  /\ run_row = [r \in Requests |-> "none"]
  /\ seeding = [r \in Requests |-> FALSE]
  /\ pc = [r \in Requests |-> "received"]
  /\ untried = [r \in Requests |-> {}]
  /\ to_write = [r \in Requests |-> {}]
  /\ status = [r \in Requests |-> "planning"]
  /\ files_changed = [r \in Requests |-> {}]
  /\ error = [r \in Requests |-> "none"]
  /\ workspace = [r \in Requests |-> {}]
  /\ answer = [r \in Requests |-> "none"]

\* The workspace directory is made and the Run row is flushed.
Accept(r) ==
  /\ pc[r] = "received"
  /\ run_row' = [run_row EXCEPT ![r] = "running"]
  /\ Goto(r, "seed")
  /\ UNCHANGED <<profiles, storeVars, seeding, agentVars, answer>>

\* seed_model_profiles.  Nobody else sees the rows before the commit, so the
\* read and the inserts are one step.
Seed(r) ==
  /\ pc[r] = "seed"
  /\ seeding' = [seeding EXCEPT ![r] = (Stored = {})]
  /\ Goto(r, "select")
  /\ UNCHANGED <<profiles, storeVars, run_row, agentVars, answer>>

\* select raises ValueError, which coder.run catches.
NoModel(r) ==
  /\ pc[r] = "select"
  /\ CodeRows(r) = {}
  /\ AgentFails(r, "no_model")
  /\ UNCHANGED <<profiles, storeVars, sessionVars, untried, to_write,
                 files_changed, workspace, answer>>

SelectModels(r) ==
  /\ pc[r] = "select"
  /\ CodeRows(r) # {}
  /\ untried' = [untried EXCEPT ![r] = CodeRows(r)]
  /\ Goto(r, "call")
  /\ UNCHANGED <<profiles, storeVars, sessionVars, to_write, status,
                 files_changed, error, workspace, answer>>

\* Seeded fault: when every candidate has failed they are selected anew.
SelectAgain(r) == Goto(r, "select") /\ UNCHANGED <<status, error>>

AllFailed(r) == AgentFails(r, "all_failed")

\* The provider of the next candidate is unknown, fails or times out.
CandidateFails(r) ==
  /\ pc[r] = "call"
  /\ \E row \in First(untried[r]) :
       untried' = [untried EXCEPT ![r] = @ \ {row}]
  /\ IF untried'[r] = {}
       THEN AllFailed(r)
       ELSE UNCHANGED <<pc, status, error>>
  /\ UNCHANGED <<profiles, storeVars, sessionVars, to_write,
                 files_changed, workspace, answer>>

\* A candidate answers and _parse_files finds the files.  The other
\* candidates are forgotten.
CandidateAnswers(r) ==
  /\ pc[r] = "call"
  /\ \E files \in SUBSET Paths : to_write' = [to_write EXCEPT ![r] = files]
  /\ untried' = [untried EXCEPT ![r] = {}]
  /\ Goto(r, "write")
  /\ UNCHANGED <<profiles, storeVars, sessionVars, status, files_changed,
                 error, workspace, answer>>

\* One write_file call of the loop.  _dispatch_tool turns every exception of
\* a tool into a result {"error": ...}, so the call never raises: the file is
\* listed whether or not the tool has put it on disk.
WriteFile(r) ==
  /\ pc[r] = "write"
  /\ \E path \in to_write[r] :
       /\ to_write' = [to_write EXCEPT ![r] = @ \ {path}]
       /\ files_changed' = [files_changed EXCEPT ![r] = @ \cup {path}]
       /\ \/ workspace' = [workspace EXCEPT ![r] = @ \cup {path}]
          \/ UNCHANGED workspace
  /\ UNCHANGED <<profiles, storeVars, sessionVars, pc, untried, status, error,
                 answer>>

\* Seeded fault: an agent that wrote nothing has a status of its own.
EmptyStatus(r) == IF files_changed[r] = {} THEN "empty" ELSE "completed"

CoderStatus(r) == "completed"

\* coder.run returns; the status is "completed" even if no file was written.
CoderReturns(r) ==
  /\ pc[r] = "write"
  /\ to_write[r] = {}
  /\ status' = [status EXCEPT ![r] = CoderStatus(r)]
  /\ Goto(r, "flush")
  /\ UNCHANGED <<profiles, storeVars, sessionVars, untried, to_write,
                 files_changed, error, workspace, answer>>

\* Seeded fault: the status of the run is committed before its files.
CommitStatus(r) ==
  /\ run_row' = [run_row EXCEPT ![r] = status[r]]
  /\ runs' = [runs EXCEPT ![r] = status[r]]
  /\ UNCHANGED <<profiles, changes>>

FlushStatus(r) ==
  /\ run_row' = [run_row EXCEPT ![r] = status[r]]
  /\ UNCHANGED <<profiles, storeVars>>

\* The results go into the Run row and into file_changes, not yet committed.
FlushResults(r) ==
  /\ pc[r] = "flush"
  /\ status[r] # "failed"
  /\ FlushStatus(r)
  /\ Goto(r, "commit")
  /\ UNCHANGED <<seeding, agentVars, answer>>

\* Seeded fault: a request is answered a second time.
FailLoudly(r) ==
  /\ RollBack(r)
  /\ Goto(r, "end")
  /\ answer' = [answer EXCEPT ![r] = "error"]
  /\ UNCHANGED agentVars

\* An exception leaves the handler: get_db rolls back and the client gets an
\* error, unless it already has its answer.
Fail(r) ==
  /\ RollBack(r)
  /\ Goto(r, "end")
  /\ answer' = [answer EXCEPT ![r] = IF @ = "none" THEN "error" ELSE @]
  /\ UNCHANGED agentVars

\* The status "failed" becomes an HTTPException: what was flushed is undone.
TaskFails(r) ==
  /\ pc[r] = "flush"
  /\ status[r] = "failed"
  /\ Fail(r)

\* The response may leave before get_db resumes: since 0.118 FastAPI closes a
\* dependency with yield after the response, before that version ahead of it.
AnswerEarly(r) ==
  /\ pc[r] = "commit"
  /\ answer[r] = "none"
  /\ answer' = [answer EXCEPT ![r] = "created"]
  /\ UNCHANGED <<profiles, storeVars, sessionVars, pc, agentVars>>

Commit(r) ==
  /\ pc[r] = "commit"
  /\ CommitSession(r)
  /\ answer' = [answer EXCEPT ![r] = "created"]
  /\ Goto(r, "end")
  /\ UNCHANGED agentVars

\* A statement or the commit fails.  In coder.run the exception is caught,
\* but the next flush of the same session raises again.
StatementFails(r) ==
  /\ pc[r] \in {"received", "seed", "select", "flush", "commit"}
  /\ Fail(r)

\* The database commits, and its acknowledgement is lost: the commit raises,
\* there is nothing left to roll back, and a client that has no answer gets
\* an error, or none if the server dies first.
AcknowledgementLost(r) ==
  /\ pc[r] = "commit"
  /\ CommitSession(r)
  /\ \E told \in {"error", "none"} :
       answer' = [answer EXCEPT ![r] = IF @ = "none" THEN told ELSE @]
  /\ Goto(r, "in_doubt")
  /\ UNCHANGED agentVars

DatabaseFails(r) == StatementFails(r) \/ AcknowledgementLost(r)

InProgress == {r \in Requests : pc[r] \notin {"received"} \cup Over}

\* The server dies: the sessions are lost, files on disk stay.
Crash ==
  /\ InProgress # {}
  /\ run_row' = [r \in Requests |-> IF r \in InProgress THEN "none"
                                                        ELSE run_row[r]]
  /\ seeding' = [r \in Requests |-> r \notin InProgress /\ seeding[r]]
  /\ pc' = [r \in Requests |-> IF r \in InProgress THEN "end" ELSE pc[r]]
  /\ UNCHANGED <<profiles, storeVars, agentVars, answer>>

\* POST /models commits one row.
CreateModel(model) ==
  /\ profiles[<<model, Admin>>] = "absent"
  /\ \E state \in {"idle", "code"} :
       profiles' = [profiles EXCEPT ![<<model, Admin>>] = state]
  /\ UNCHANGED <<storeVars, sessionVars, pc, agentVars, answer>>

\* PATCH /models/{id} changes enabled or the capabilities of a row.
UpdateModel(row) ==
  /\ row \in Stored
  /\ \E state \in {"idle", "code"} : profiles' = [profiles EXCEPT ![row] = state]
  /\ UNCHANGED <<storeVars, sessionVars, pc, agentVars, answer>>

\* What the handler of r does next of its own accord.
Proceed(r) ==
  \/ Seed(r)
  \/ NoModel(r)
  \/ SelectModels(r)
  \/ CandidateFails(r)
  \/ CandidateAnswers(r)
  \/ WriteFile(r)
  \/ CoderReturns(r)
  \/ FlushResults(r)
  \/ TaskFails(r)
  \/ AnswerEarly(r)
  \/ Commit(r)

Next ==
  \/ \E r \in Requests : Accept(r) \/ Proceed(r) \/ DatabaseFails(r)
  \/ Crash
  \/ \E model \in AddedModels : CreateModel(model)
  \/ \E row \in Rows : UpdateModel(row)

Spec == Init /\ [][Next]_vars

\* Every await of a handler returns or raises: provider calls have a timeout
\* and database statements end.
FairSpec == Spec /\ \A r \in Requests : WF_vars(Proceed(r))

-----------------------------------------------------------------------------
(* Properties.                                                             *)

\* Every variable has its type.
TypeOK ==
  /\ profiles \in [Rows -> ProfileState]
  /\ runs \in [Requests -> RunRow]
  /\ changes \in [Requests -> SUBSET Paths]
  /\ run_row \in [Requests -> RunRow]
  /\ seeding \in [Requests -> BOOLEAN]
  /\ pc \in [Requests -> Steps]
  /\ untried \in [Requests -> SUBSET Rows]
  /\ to_write \in [Requests -> SUBSET Paths]
  /\ status \in [Requests -> {"planning", "failed", "completed"}]
  /\ files_changed \in [Requests -> SUBSET Paths]
  /\ error \in [Requests -> {"none", "no_model", "all_failed"}]
  /\ workspace \in [Requests -> SUBSET Paths]
  /\ answer \in [Requests -> {"none", "created", "error"}]

\* A request that was answered with an error left nothing in the database:
\* no run, no file change and no seed row.  The handler writes run.status =
\* "failed" and then raises, so get_db undoes that write with the others.
\* Only a lost acknowledgement of the commit leaves an error and a run, and
\* then the run is whole: see StoredRunIsWhole.
FailureLeavesNothing ==
  \A r \in Requests :
    answer[r] = "error" /\ pc[r] # "in_doubt" =>
      /\ runs[r] = "none"
      /\ changes[r] = {}
      /\ \A row \in SeedRows(r) : profiles[row] = "absent"

\* A stored run is completed and lists every file that is on disk in its
\* workspace, whatever write_file reported and other requests did.  (Not the
\* converse: see TaskClaims.)
StoredRunIsWhole ==
  \A r \in Requests :
    runs[r] # "none" => /\ runs[r] = "completed"
                        /\ workspace[r] \subseteq changes[r]

\* The agent finds no model for code_generation only after an administrator
\* has acted: some added row keeps seed_model_profiles from inserting, or
\* some seed row for code_generation was switched off.
NoModelMeansAdmin ==
  [][\A r \in Requests :
       error[r] # "no_model" /\ error'[r] = "no_model" =>
         \/ \E model \in AddedModels : profiles[<<model, Admin>>] # "absent"
         \/ \E row \in CodeModels \X Requests : profiles[row] = "idle"]_vars

\* Every accepted request ends, with all its fallbacks, whatever the
\* administrator does to the table meanwhile.
AcceptedEnds ==
  \A r \in Requests : (pc[r] = "seed") ~> (pc[r] \in Over)

\* The database implements RunStore.
Store == INSTANCE RunStore WITH
  stored <- [r \in Requests |-> IF runs[r] = "none" THEN {} ELSE {changes[r]}]

RunsAreStoredOnce == Store!StoreSpec
=============================================================================
