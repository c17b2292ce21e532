# Verification of the AI Development Team

TLA+ models of the multi-agent code generator in `src/`, the TLC runs that check
them on small instances, and theorems about them checked by TLAPS. Line numbers
refer to `src/`.

## 1. The system and its parts

A client posts a description of a program. Agents (each a prompt around one
language-model call) design it, plan it, write it file by file, test, review and
document it. The web service is one asyncio process; PostgreSQL keeps runs,
file changes and model profiles, Redis is used for a cache, a token blacklist and
progress messages.

There are three ways to the agents:

* `POST /tasks` calls `CoderAgent.run`, which asks for all files in one answer.
* The **agent graph** (`core/orchestrator/graph.py`, LangGraph) runs the whole
  pipeline. It is compiled by tests.
* Four **scripts** (`scripts/`) call architect, planner, coder and repair agent in a
  loop of their own and write to a directory that outlives them.

| Part | State it keeps | Operations | Talks to | What is hard | What must hold |
|---|---|---|---|---|---|
| Agent graph | `AgentState` dictionary, shared `FileTask` objects | 6 nodes, 3 routing functions, `derive_run_status` | all agents, artifact manager | failures half way through a node, retries, four agents writing one status | files in dependency order, nothing unfinished shown as completed, it ends |
| Architect, planner, scheduler | none | `run` | model router, blueprint validator | a rejected blueprint stays in the state | a rejected blueprint stops the run (it does not) |
| Coder, repair agent | none | `generate_file`, `run`, `repair` | model router, tool client | provider retries, writes that fail one by one | files recorded = files written (not so) |
| Tester | none | `run`, `_run_tests_in_sandbox` | router, sandbox | a round that raises is not counted; the shell command hides pytest's exit code | bounded retries; failing tests go back to the coder (they do not) |
| Reviewer | none | `run` | router | approval must survive other failures | a critical finding stops the invocation |
| Documentation agent | none | `run`, `_try_create_pr` | router, GitHub tool | three remote calls, any may fail | a PR only after a commit |
| Artifact manager | files and status files on disk | `save_file`, `save_file_status`, log, `get_completed_files` | disk | the task is marked done before the write; writes are cut off | disk agrees with the statuses; nothing is listed as completed without its file |
| Scripts, context builder, syntax validator | plan, statuses and contents in memory; the output directory | one execution after another | agents, artifact manager, external checkers | crashes between two writes, a validator that raises, an output directory with a past | true reports, complete contexts, an end |
| Budget | `tokens_used` in the state | `check_budget` | agent base | only sets a status others overwrite | an overrun ends the run as failed |
| Tasks API and database session | one transaction per request | `POST /tasks`, `get_db` | coder, registry, database | commit after the handler, perhaps after the response; rollback of everything on failure | all or nothing per request |
| Model registry, router, models API | table `model_profiles` | seed, select, call with fallback; POST/PATCH `/models` | database, providers | check-then-insert in concurrent long transactions | seeds once (not so); a model is found unless an administrator prevents it |
| Publication (documentation agent, GitHub tool) | branches, commits, pull requests at GitHub | nine HTTP requests of `_try_create_pr` | GitHub | each may fail, or be carried out after it was given up; two attempts on one branch | whole commits, no overwritten history, true announcements |
| Sandbox | Docker containers | create, start, wait, kill, remove | Docker | a timeout at each step; the call holds the event loop | no container left behind, no failure taken for a success, the loop comes back |
| Authentication | table `users`, blacklist in Redis | register, login, refresh, logout | database, Redis | check-then-insert in concurrent transactions; a time to live | unique accounts, true refusals, a refresh gives a pair (not so) |
| Tool server and client | none | `_dispatch_tool`, `call` | tools | turns exceptions into results | callers notice failures (the coder does not) |
| Runs API, WebSocket progress, checkpointer, cost tracker, cache, rate limit, observability, database tool | tables and channels the running program does not fill, counters | | | | see *What is not modelled* |

`PROJECT.json` lists every part with its status (`components`) and every hazard
with the line where it bites and the properties that cover it (`hazards`).

## 2. Plan

In the order of worth, all done:

1. `ProjectPlan`, `Pipeline`, `FileBoard`, `MCPipeline`, `PipelineClaims`: the agent
   graph, the core of the program, and what it promises about files.
   `PipelineProofs`, `PipelineStatusProofs`: every safety property of it;
   `PipelineProgressProofs`: that a run is finite, and what its end can look like.
2. `TaskRequests`, `RunStore`, `MCTaskRequests`, `TaskClaims`, `TaskProofs`: `POST /tasks`,
   its transaction, the model table and the router.
3. `Publishing`, `PullRequests`, `Containers`, composed in `Delivery`; `MCDelivery`,
   `DeliveryProofs`: what a run does to GitHub and to Docker, in one process.
4. `Workshop`, `MCWorkshop`, `WorkshopClaims`, `WorkshopProofs`: the scripts and their directory.
5. `Accounts`, `MCAccounts`, `AccountProofs`: registration and sessions.

What would come next if the code grew: the approval of a stored run, once something
stores a run as waiting; progress messages, once something publishes them; resumption,
once the graph is compiled with a checkpointer.

## 3. The modules

### ProjectPlan
`FileTask`, `ProjectPlan` and its queries (`get_ready_tasks`, `all_done`,
`has_failures`) from `state.py`. A path is a model value; a plan a sequence of
tasks, each a path and the set of paths it depends on. The statuses of the tasks
are kept apart from the plan, since they change and it does not.

### Pipeline
One run of the graph. `node` is the LangGraph node that runs, `step` the point
inside `generate_file` (`pick`, `generate`, `validate`, `repair`); the other
variables carry the names of the `AgentState` keys and `FileTask` fields.

* Architect, planner (with the scheduler), tester, reviewer and documentation are
  one action per way they return: each awaits one model call and nothing else
  touches the state meanwhile. `generate_file` is split at its awaits, because an
  exception that leaves it finds the shared task objects half changed.
* `Leave` is the end of a node: assign the status, `derive_run_status`, follow the
  edge, count the step. `Abort` is an exception; LangGraph then raises. In the
  state `"aborted"` the model keeps what the node had already written.
* `Charge` is the budget check; the token count is kept up to one above the budget.
* `ArtifactCalls` are the three disk operations of the success path, any of which
  may raise.
* `ValidatorRaises` and `RepairedRaises` are the validator's subprocess raising at the
  first and at the second validation: the exception leaves the node, and the file that
  was in flight keeps the status it had.
* Nondeterministic: what a model answers, provider failures and timeouts, the
  verdicts of the validators, the plan, the test report, pytest, the sandbox's
  exit code, whether the state has a workspace and generated code
  (`workspace_path`, `generated_code`: the compiled graph's schema has no key
  `generated_code`, so reviewer and documentation see none there; a caller of the
  nodes may pass it, so both are checked).

### FileBoard
The promise: a plan is chosen once; a file is settled once and only after its
dependencies are done; completed is announced only while all files are done.

### TaskRequests
Several `POST /tasks` at once, each with its own SQLAlchemy session. `profiles`, `runs` and
`changes` are committed tables; `run_row` and `seeding` are what an open session has written
and only it can read; the rest is the handler (`pc`), the agent and the disk. One action per
await: flush of the run, seeding, selection, each provider attempt, each tool call, the
flush of the results, the response, the commit. `DatabaseFails` and `Crash` may strike at
any of the points where a statement or the process can fail; `AcknowledgementLost` is a
commit that is done and raises all the same, after which the handler is over `"in_doubt"`.
`CreateModel` and `UpdateModel` are the administrator's requests, of which only the
committed effect matters because they write a single row.

Two facts of the code shape it. `_dispatch_tool` (mcp_server.py 213) returns an
error as an ordinary result, so `WriteFile` lists the file in both cases. And
FastAPI closes a dependency with `yield` before the response in older versions and
after it since 0.118; `pyproject.toml` asks for 0.115 or later, so `AnswerEarly`
is a step the handler may or may not take before `Commit`.

### RunStore
The promise of `POST /tasks` to the database: a run and its files are stored
together, once, never changed, and never after an error was answered; an answer is not
taken back. A run may be promised (201) before it is stored, and then never be stored
(`AnswerEarly`, then a failing commit or a crash); one that is stored while its
acknowledgement is lost may be answered with an error, or not at all.

### Publishing, PullRequests
`_try_create_pr` for several attempts, also of the same run and so on the same branch:
`call` is the HTTP request an attempt is about to send, three in `create_branch`, five
(one per blob) in `create_commit`, one in `create_pull_request`. GitHub is external and
modelled as the code uses it: a reference is the set of commits it reaches, an update
without `force` must be a fast-forward, a branch has at most one open pull request.
`ErrorResult` is the exception that `_dispatch_tool` turns into a result: it ends the
tool call, and the agent goes on with the next one. `RequestTimesOut` puts the request
into `late`, from where it may be carried out at any later time or never. Others push
to main and merge. `PullRequests` is the promise: work is added and never lost, and an
announced pull request was opened on a branch with work of its run.

### Containers
`execute_in_sandbox`, one action per request to Docker, the daemon's container
(`docker`, `code`) and the tester's merge of the result (`Analyse`). The function blocks:
`loop` is the run that holds the event loop. Each request may fail; a creation or a
removal whose answer is lost may have happened or not. The variables `green`, `left`
and `excused` are histories.

### Delivery
`Publishing` and `Containers` in one process: an attempt publishes only while no run
is in the sandbox and not during its own test round; a crash ends all that had
begun, and what had not begun may begin afterwards. Attempts of one run share a
branch, so a run that is started again after a crash meets the branch it left.

### Workshop
One output directory and the executions that follow each other on it. `script` is which of
the four scripts runs: they differ in what they reject (`Rejected`), what they count and
when (`Count`), whether they repair and whether they log; `retry_generation.py` and
`run_full_pipeline.py` share a directory (`Output`). `at` is the step of the loop. `plan`,
`status` and `content` are memory and lost with the process; `workspace` and `record` stay.
`SaveFileCut` is `write_text` stopped half way: the file is a part, or, when it replaced a
whole file, spoiled. `NameOf` is the name of a status file, in which "/" has become "_", so
two paths may share one, and the second overwrites what the first wrote. `Verdicts` is the
syntax validator by language: exact for Python, anything for JavaScript and Go (the tools
may know another dialect, be missing or too slow), always valid elsewhere; it may raise.
`RetryPlan` is the plan in the text of `retry_generation.py`: that script goes through its
list without asking what is ready, which `RetryAssumption` says (no file of the list depends
on another).

### Accounts
`POST /auth/register` as check, insert, commit in sessions that do not see each other
(`Inserted`), with the unique indexes of `users` as a guard of the insert that waits for the
session which inserted the same; a commit may lose its acknowledgement here as well. An
account is the name of the request that made it. Sessions of clients: login, refresh in its
two steps around the blacklist, logout; `Ttl` computes what `timedelta(days=7).seconds` is.

## 4. The runs

| Run | Module | What it shows |
|---|---|---|
| `pipeline` | `MCPipeline` | 16 properties of the graph (below) |
| `claim_budget_aborts` | `PipelineClaims` | a run over its budget goes on to further files |
| `claim_blueprint_stops` | `PipelineClaims` | a rejected blueprint is planned and generated |
| `claim_tests_retry` | `PipelineClaims` | failing tests are not sent back: `\|\| true` in the command |
| `task_requests` | `MCTaskRequests` | 6 properties of concurrent requests (below) |
| `claim_seeded_once` | `TaskClaims` | two first requests both store the seed models |
| `claim_recorded_files` | `TaskClaims` | a file whose write failed is stored as created |
| `delivery` | `MCDelivery` | 9 properties of sandbox and publication together |
| `workshop` | `MCWorkshop` | 5 properties of the scripts and their directory |
| `claim_completed_listed` | `WorkshopClaims` | of two done files whose status files have one name, one is listed as completed |
| `accounts` | `MCAccounts` | 4 properties of registration and sessions |
| `claim_refresh` | `MCAccounts` | a valid refresh token is never exchanged: its time to live is computed as 0 |

The claims are quoted in `PROJECT.json` (`findings`) with the line that makes them.

Properties of `pipeline`. Order: `DependenciesFirst`, `OneFileInFlight`,
`NoReadyFileSkipped`, `SettledIsFinal`. Failure half way: `OnlyDoneFilesOnDisk`,
`GeneratedFilesAreDone`. The status that several agents overwrite:
`CompletedMeansAllDone`, `FailedFileIsShown`, `OverBudgetEndsFailed`,
`ApprovalStopsRun`, and `StaleHidesOnlyBudget`, which says in which single
situation the public status lags. Retries: `IterationsBounded`, `StepsBounded`,
`Termination`. `BoardSpec` is the implementation of `FileBoard`.

Properties of `task_requests`. `FailureLeavesNothing` (rollback of run, files and seeds
together; the exception is a commit whose acknowledgement was lost), `StoredRunIsWhole` (a
stored run is completed and lists all that is on disk), `NoModelMeansAdmin` (no model is
found only if an administrator added a row, which suppresses the seeds, or switched one
off), `AcceptedEnds`, `RunsAreStoredOnce` (the implementation of `RunStore`).

Properties of `delivery`. `PublishedCommitsAreWhole` (no branch ever reaches a commit
with a part of its files), `HistoryIsKept` (two attempts, late requests and merges never
make a branch lose a commit), `AnnouncedPullHasWork` (the agent asks for a pull request
even after a failed commit; it is announced only when the branch has work of this
run), `ContainersAreRemoved` (a container stays only when Docker did not confirm or the
process died), `PassedMeansExitedZero` (no failure becomes a success),
`LoopComesBack`, `PublicationEnds`; `BoardSpec` is the implementation of `PullRequests`.

Properties of `workshop`. `CompletedFilesExist` (whatever ends an execution, a path that
`get_completed_files` lists has a file that was written to its end at least once),
`ContextIsComplete` (the scheduler and the context builder agree on what a dependency
is, but for a path listed twice or an empty content), `ReportIsTrue` (the counters, the
statuses and the directory agree at the end, and of the done files that share a status
file one is listed), `ScriptEnds`.

Properties of `accounts`. `AccountsAreUnique` (also among accounts whose creation has been
answered and not committed), `ConflictIsReal` (a 409 names an account that is stored
and stays), `RequestsEnd` (an insert that waits for another goes on).

### Bounds, and why they are enough
* `MAX_ITERATIONS`, `MAX_REPAIR_ATTEMPTS`, `MAX_FILE_RETRIES` (3) and
  `RECURSION_LIMIT` (25, LangGraph's default) have the values of the code.
* Six plans of up to three files: a chain, a list that is not in dependency order,
  a path listed twice, a dependency nobody produces, a cycle beside a free file,
  and no file. Three files are the least for a chain whose middle fails while its
  end is blocked; the loop treats a longer plan as more of the same, and the
  theorems hold for every plan.
* `MAX_TOKENS = 1`, `TokenCosts = {0, 2}`: each call either stays in the budget or
  exceeds it, so an overrun can come at every call.
* Test reports and findings are 0 or 1: the code only asks whether any failed.
* Two requests, one seed model with and one without `code_generation`, one model an
  administrator may add with a better priority, two paths. Two sessions suffice
  for the races between reading and committing; two paths for an answer of which
  one write fails; three candidate rows (two duplicates and the added one) for a
  fallback chain.
* `delivery` (252,455 states): two attempts on one branch are the least that can
  overwrite each other, and one of them tests first; two files, for a commit with a
  part of them; one late request, one push to main, one test round, one lost answer of
  Docker. The second attempt shows what a run that was started again meets.
* `workshop` (18,211 states): two executions, the first of which leaves a directory with a
  past; three plans (two paths with one status file, a path listed twice, a missing
  dependency); `Iterations` enough for three scripts and one too few for the fourth.
* `accounts` (93,000 states): three registrations, all with one form, or one that
  conflicts with two that have nothing in common; one client with two token pairs. The
  requests of a client touch no other client.

### Fairness
`Pipeline`: `WF_vars(Next)`. One coroutine drives the run, and each await in a node is a
call with a timeout, so it continues until the graph returns or raises. Nothing is assumed
about which branch is taken. `TaskRequests`: weak fairness of each handler's own steps for
the same reason; none for arrivals, for the administrator, for database failures or crashes.
`Delivery`: weak fairness of the steps inside the sandbox (a request of the Docker client
times out by default, `wait` has a limit of its own) and of each attempt that has begun
(httpx gives a request up after 30 seconds); none for the command in the container, which
may run for ever, for GitHub, late requests or crashes. `Workshop`: weak fairness of the
script's steps; none for beginning another execution or for crashes. `Accounts`: weak
fairness of each handler; a waiting insert is not enabled, so it goes on only because the
session it waits for does.

### Seeded faults
Operators marked "Seeded fault" are plausible mistakes (a retry that does not
count, a rollback that commits, a budget check that only logs, a forced update of a
branch, a container that is killed and not removed, a failed write that is only
logged, a missing unique index). They are used by no specification. `PROJECT.json`
(`mutants`) pairs each property with one of them; with the fault in place TLC finds
the property violated.

## 5. What is proved

All for arbitrary values of the constants, from the named assumptions
`PlansAssumption` and `LimitsAssumption` (plans are sequences of file tasks, limits are
naturals, at least one test round), `ModelsAssumption` (at least one seed model is
capable of code generation, as `SEED_MODELS` has), `AdminAssumption`, `RetryAssumption`
(above), and those of `Publishing`, `Containers`, `Workshop` and `Accounts`, which only say
what kind of value a constant is and that names of different kinds differ. Two theorems
suppose in their statement that a set is finite: the rows of the model table and the paths
of an answer (`RequestsAreFinite`), the files of a run (`PublicationsAreFinite`). Every
safety property and every implementation that a passing run checks is proved, and of each
liveness property the part that is safety (*Nothing goes on for ever*, below).

**`PipelineProofs`.** The safety properties are not inductive by themselves: that a
file on disk is done needs that the task in flight is the one `current` names; that
completed means all done needs that the status "done" is only set on a finished
plan. `IInv` joins the type invariant, `LoopInv` (past its pick step `generate_file` has
a task), `PhaseInv` (what cannot have happened yet at each node) and the properties.
The step proof follows the three kinds of steps: an agent that returns with no file
in flight (`AgentStep`), a move of the file in flight (`InFlightStep`), a file that is
settled (`SettleStep`). `FileStep` says what any step may do to the files, and gives
`SettledForever` and `RunImplementsBoard`. Theorems: `TypeCorrect`, `Invariance`,
`OneFileAtATime`, `FileOrder`, `DiskSafety`, `CompletedIsTrue`, `RetriesBounded`,
`SettledForever`, `RunImplementsBoard`.

**`PipelineStatusProofs`** builds on that. `StatusInv` holds relative to `IInv`. Four
properties are parts of it as they are. `GeneratedFilesAreDone` needs that nothing was
listed or written before there was a plan; `FailedFileIsShown` that the internal status
is failed too, from which the next `derive_run_status` takes the public one
(`FailureIsKept`); `OverBudgetEndsFailed` that the overrun already shows when the reviewer
begins (`OverrunIsKept`). `StaleHidesOnlyBudget` uses that no status asks for approval
while a file is in work. `StepsAreBounded` counts: each settled file pays for one step and
each test round, counted or not, for two (`StepsSoFar`), so the bound holds for plans of
any length. Theorems: `StatusInvariance`, `ApprovalIsLast`, `NothingReadyIsSkipped`,
`GeneratedAreDone`, `FailuresAreShown`, `OnlyBudgetIsHidden`, `OverrunsEndFailed`,
`StepsAreBounded`.

**`PipelineProgressProofs`** is about the end of a run. `WorkRank` counts the graph steps
left, each worth more than all a node can do, and what the node that runs can still do;
every step lowers it (`RunsAreFinite`). `EndInv` holds relative to `IInv` and relates what
the conditions of `graph.py` keep apart: a finished plan is only noticed by the
`generate_file` that follows a failed round (`FinishedAfterTests`), a shown status and the
internal one belong together (`StatusesAgree`), the status of the file in flight follows
the step (`FileFollowsStep`), and a file has been repaired only in the step `repair` or
once it is settled (`RepairsCounted`). Of it follow `FirstRoundNeverCompletes` (a run with
files that passes its first test round is never shown as completed), `OneRepair` (one
repair of a file, whatever `MAX_REPAIR_ATTEMPTS` is) and `PartialSuccessUnreachable`. None of
the three is the intention of the code; see *Observations*. Theorems: these, `RunsAreFinite`
and `EndInvariance`.

**`TaskProofs`.** The invariant says of each request how far it must be when its
client has an answer (`AnswerInv`: an error goes with nothing stored, or with a handler in
doubt), when its run is stored (`StoreInv`), what the
handler knows when it writes (`FlowInv`) and that seed rows are stored all or none,
with the run (`SeedInv`). A handler's step is examined for its own request
(`OwnStep`) and shown to leave the others alone (`OthersKept`); crash and
administrator are apart (`OutsideStep`). `NoModelIsAdmins` follows because a handler
that did not seed has seen a row, rows are never deleted, and a seed row never
comes without the others (`SeedsComeTogether`). `CandidatesRemain` is an invariant of its
own beside `IInv`: a call that is trying its candidates has one left, and each is a row its
session reads, because sessions see their own rows and rows are never deleted
(`RowsAreKept`). Theorems: `TaskInvariance`, `TaskTypeCorrect`, `FailureIsClean`,
`StoredIsWhole`, `NoModelIsAdmins`, `RequestsImplementStore`, `SeedsComeTogether`,
`CandidatesRemain`, `RequestsAreFinite`.

**`DeliveryProofs`.** `IInv` is `PublishInv /\ SandboxInv`. A commit is whole because what an
attempt has uploaded is a part of its files until it is all of them (`WorkInHand`);
history is kept because what an attempt has read is still there when it moves the
branch, and because a late request that would lose a commit is no fast-forward; an
announced pull request has work because what a branch holds comes from main or from
attempts of its run (`OwnOrMain`) and a pull request needs a commit main does not have.
For the sandbox the invariant relates the step, the daemon's container and what is
held as the result. Theorems: `InvariantHolds`, `TypeCorrect`, `CommitsAreWhole`,
`AnnouncementsHaveWork`, `NothingIsOverwritten`, `PublishingImplementsBoard`,
`NoContainerIsLeft`, `PassedIsEarned`, `SandboxCallsAreFinite`, `PublicationsAreFinite`.

**`WorkshopProofs`.** `ReportIsTrue` speaks of the end only; before it, the counters lag
behind by the one task in work (`Counted`), and the directory by the one that is being
saved (`OnDisk`). A done task has kept a text, which parses if it is Python
(`KeptTexts`). `NoTaskTwice` counts: iterations are the tasks that are no longer pending, so
no bound on iterations as large as the plan is ever used up, and a loop that ends has
nothing ready left (`LoopsEndForAReason`). With the counters it gives the sum of the report
(`ReportsAddUp`). Theorems: `InvariantHolds`, `TypeCorrect`, `CompletedHaveFiles`,
`ContextsAreComplete`, `ReportsAreTrue`, `ExecutionsAreFinite`, `TasksBegunOnce`,
`ReportsAddUp`, `LoopsEndForAReason`, `RetriesTakeAll`.

**`AccountProofs`.** The type invariant and the two properties are inductive together:
forms never change, accounts are never removed, an insert waits for every session that has
inserted the same. What a client was answered follows the step its request is at
(`AnswerFollowsStep`): from it come `RefusalsLeaveNothing` (a refused registration has no
account, unless it is a 500 for a commit whose acknowledgement was lost) and
`RegistrationsAreFinite`. For the sessions, `BlacklistStaysEmpty` and `RefreshAndLogoutFail`
draw from `Ttl` what it means for all clients: no refresh gives a pair, no logout succeeds,
no token is ever revoked. `TokensAreOfAccounts`: a token belongs to a stored account,
whatever is rolled back beside the login. Theorems: `InvariantHolds`, `TypeCorrect`,
`AccountsStayUnique`, `ConflictsAreReal` and the five named here.

**Nothing goes on for ever.** Each liveness property rests on a rank, a natural number that
the process's own steps lower and nobody else's raise. The ranks are proved, for every value
of the constants:

| Theorem | Steps at most | For the liveness property |
|---|---|---|
| `RunsAreFinite` | `RECURSION_LIMIT * (MAX_FILE_RETRIES + 5) + 1` | `Termination` |
| `RequestsAreFinite` | rows + paths + 8 | `AcceptedEnds` |
| `SandboxCallsAreFinite` | 9 of its own, and nobody else gets the loop meanwhile | `LoopComesBack` |
| `PublicationsAreFinite` | files + 10 | `PublicationEnds` |
| `ExecutionsAreFinite` | 10 per task and 9, without the bound on iterations | `ScriptEnds` |
| `RegistrationsAreFinite` | 5 | `RequestsEnd` |

**Model-checked only.** What the ranks leave over: that a fair scheduler takes the steps,
so `Termination`, `AcceptedEnds`, `LoopComesBack`, `PublicationEnds`, `ScriptEnds` and
`RequestsEnd` themselves. Liveness under fairness is beyond the prover, as is ENABLED.
Induction over data and RECURSIVE operators are out of its reach too; the modules use none.

## 6. What is not modelled

* Prompts, contents, messages, wording, logs, metrics, tracing.
* Parsing of model answers: an answer is any member of a small set.
* `PATCH` of a model's priority or price; `max_cost`; other capabilities.
* A path that occurs twice in one answer of `CoderAgent.run`.
* The OAuth code exchange of the GitHub tool, which no agent calls; the schemas and
  the stdio transport of the tool server; path validation, reading, listing and diffs
  of the filesystem tool (they change nothing).
* `SyntaxValidator`'s parsing: a verdict is a choice, as described for `Workshop`.
* Passwords, the contents of tokens, and the checks of access tokens and API keys in
  `deps.py`, which change no state. The order in which the database serves waiting inserts.
* `approve_run` and the rest of the runs API: nothing writes `waiting_approval` to the
  table `runs`, so `approve_run` can only refuse.
* Progress over WebSocket: nothing in the repository publishes a run's progress.
* The checkpointer: nothing makes one. `compile_graph` takes a checkpointer and is
  called without, and no test uses the class.
* Cost tracker, response cache: called by tests only, or for temperature 0 only, which
  no agent asks for.
* Rate limit (the counter is the library's), observability, the read-only database
  tool, application start-up, migrations: wiring, data, or no state of their own.

## 7. Observations made on the way

Beside the refuted claims:

* `partial_success` is never shown by the graph: a status "done" is only set when all
  files are done (proved: `PartialSuccessUnreachable`).
* Of the three repair attempts only one can happen, since the loop settles the file
  after the first (`graph.py` 192-222; proved: `OneRepair`).
* A run whose first test round passes ends as "running": that all files are done is only
  noticed by a `generate_file` that finds nothing to do (`graph.py` 145), and only a failed
  round leads there again (proved: `FirstRoundNeverCompletes`).
* Exhausted test rounds go on to the reviewer and may end as completed;
  `docs/architecture.md:153` speaks of `failed_partial`.
* A tester whose model call keeps raising repeats the round until the recursion limit.
* `BUDGET_MAX_COST_USD` and `BUDGET_MAX_TOKENS` (README.md 251-252) are read by nothing:
  `get_budget_from_state` looks for keys that no state carries.
* A failed task leaves its workspace directory and no row: `run.status = "failed"`
  (tasks.py 147) is always rolled back, and no row is ever visible as running.
* Duplicate seeds make the lookup of a price by `scalar_one_or_none` (tracker.py 76)
  raise.
* `retry_generation.py` generates the three files in its text (line 37) again, whatever
  had failed, and does not count them.
* A commit whose acknowledgement is lost (session.py 27) leaves a whole run, or an account,
  that its client was told has failed: a client that tries again makes a second run, or is
  answered that its email is taken. With FastAPI from 0.118 on the reverse is possible too, a
  run that was promised and is lost.
* `save_file` overwrites in place: a file an earlier execution completed may be cut off by a
  later one and is still listed as completed (`spoiled` in `Workshop`).
* Refresh and logout cannot succeed: `timedelta(days=7).seconds` is 0 (auth.py 243, 278) and
  Redis refuses a time to live of 0. The `claim_refresh` run shows it for refresh;
  `RefreshAndLogoutFail` and `BlacklistStaysEmpty` prove it for both.
* A registration with the email of one account and the username of another is
  answered by 500 and not by 409, since `scalar_one_or_none` raises for two rows (auth.py
  127). Two at once for the same name: the second waits for the first, then gets a 500
  from the unique index.
* The branch of a run that is published again exists already: `create_branch` fails,
  the commit is put on top of the earlier one, and a pull request that is still open
  makes the announcement fail.
* Latent in code that nothing runs yet: `approve_run` reads, compares and writes without
  a lock (runs.py 182); `aput` flushes and does not commit (checkpointer.py 154); what is
  published before a client subscribes is lost (ws.py 97); model prices are cached for
  the life of the process (tracker.py 67).
