----------------------------- MODULE Containers -----------------------------
(***************************************************************************)
(* The sandbox: execute_in_sandbox (sandbox_exec_tool.py) as the tester    *)
(* (tester.py) calls it, and the Docker daemon behind it.                  *)
(*                                                                         *)
(* execute_in_sandbox is an ordinary function called from a coroutine: it  *)
(* holds the event loop from its first line to its last, so there is one   *)
(* execution at a time in the process.  Every request to Docker may fail   *)
(* or time out, and one whose answer is lost may have been carried out.    *)
(***************************************************************************)
EXTENDS Naturals, FiniteSets

CONSTANTS
  Testers,        \* the runs whose tester uses the sandbox
  Nobody,         \* no handler holds the event loop
  Rounds,         \* test rounds of a run (MAX_ITERATIONS of the graph)
  MaxLost         \* bound: calls whose creation or removal goes wrong

ASSUME NobodyAssumption == Nobody \notin Testers
ASSUME RoundsAssumption == Rounds \in Nat

VARIABLES
  loop,       \* the run that holds the event loop
  step,       \* the point of execute_in_sandbox it has reached
  docker,     \* the container of the present call, as the daemon has it
  code,       \* the exit code of its command, once it has exited
  round,      \* test rounds a run has begun
  result,     \* what the sandbox returned to the tester
  report,     \* the tester's report, after the merge with result
  green,      \* history: calls whose command exited with 0
  left,       \* history: calls that ended and left a container behind
  excused     \* history: calls whose creation or removal went wrong

callVars == <<loop, step, docker, code>>
testerVars == <<round, report>>
historyVars == <<green, left, excused>>
sandboxVars == <<callVars, testerVars, result, historyVars>>

SandboxSteps ==
  {"idle", "workspace", "connect", "create", "start", "wait", "logs",
   "reload", "kill", "remove"}

\* exit_code 0, positive, -1, or a result without the field.
Results == {"none", "zero", "positive", "minus", "error"}

\* The report is the model's, or overridden by the sandbox.
Reports == {"none", "model", "passed", "failed"}

SandboxCalls == Testers \X (1 .. Rounds)

SandboxTypeOK ==
  /\ loop \in Testers \cup {Nobody}
  /\ step \in SandboxSteps
  /\ docker \in {"absent", "created", "running", "exited"}
  /\ code \in {"none", "zero", "positive"}
  /\ round \in [Testers -> 0 .. Rounds]
  /\ result \in [Testers -> Results]
  /\ report \in [Testers -> Reports]
  /\ green \subseteq SandboxCalls
  /\ left \subseteq SandboxCalls
  /\ excused \subseteq SandboxCalls

SandboxInit ==
  /\ loop = Nobody
  /\ step = "idle"
  /\ docker = "absent"
  /\ code = "none"
  /\ round = [t \in Testers |-> 0]
  /\ result = [t \in Testers |-> "none"]
  /\ report = [t \in Testers |-> "none"]
  /\ green = {}
  /\ left = {}
  /\ excused = {}

ThisCall == <<loop, round[loop]>>
MayLose == Cardinality(excused \ {ThisCall}) < MaxLost
-----------------------------------------------------------------------------
(***************************************************************************)
(* The Docker daemon: the command ends by itself.                          *)
(***************************************************************************)
ContainerExits ==
  /\ docker = "running"
  /\ docker' = "exited"
  /\ \/ code' = "zero" /\ green' = green \cup {ThisCall}
     \/ code' = "positive" /\ UNCHANGED green
  /\ UNCHANGED <<loop, step, testerVars, result, left, excused>>
-----------------------------------------------------------------------------
(***************************************************************************)
(* execute_in_sandbox.                                                     *)
(***************************************************************************)

EnterSandbox(t) ==
  /\ loop = Nobody
  /\ round[t] < Rounds
  /\ result[t] = "none"
  /\ loop' = t
  /\ step' = "workspace"
  /\ round' = [round EXCEPT ![t] = @ + 1]
  /\ UNCHANGED <<docker, code, result, report, historyVars>>

\* The local variables are gone, and the event loop is free.
ForgetCall ==
  /\ loop' = Nobody
  /\ step' = "idle"
  /\ docker' = "absent"
  /\ code' = "none"

\* Return r while the daemon has the container in state d.
ReturnWith(r, d) ==
  /\ result' = [result EXCEPT ![loop] = r]
  /\ left' = IF d = "absent" THEN left ELSE left \cup {ThisCall}
  /\ ForgetCall
  /\ UNCHANGED <<testerVars, green>>

Advance(from, to) ==
  /\ step = from
  /\ step' = to
  /\ UNCHANGED <<loop, testerVars, historyVars>>

\* Without a workspace directory the exit code is 1.
CheckWorkspace ==
  \/ Advance("workspace", "connect") /\ UNCHANGED <<docker, code, result>>
  \/ /\ step = "workspace"
     /\ ReturnWith("positive", docker)
     /\ UNCHANGED excused

\* Connect to Docker and pull the image if it is not there.  Exceptions
\* leave execute_in_sandbox and become the result {"error": ...}.
Connect ==
  \/ Advance("connect", "create") /\ UNCHANGED <<docker, code, result>>
  \/ /\ step = "connect"
     /\ ReturnWith("error", docker)
     /\ UNCHANGED excused

Create ==
  /\ Advance("create", "start")
  /\ docker' = "created"
  /\ UNCHANGED <<code, result>>

\* No container in hand: nothing to inspect and nothing to remove.  The
\* daemon may have made one all the same.
CreateFails ==
  /\ step = "create"
  /\ \/ ReturnWith("positive", "absent") /\ UNCHANGED excused
     \/ /\ MayLose
        /\ ReturnWith("positive", "created")
        /\ excused' = excused \cup {ThisCall}

Start ==
  /\ Advance("start", "wait")
  /\ docker' = "running"
  /\ UNCHANGED <<code, result>>

StartFails ==
  /\ Advance("start", "reload")
  /\ docker' \in {"created", "running"}
  /\ UNCHANGED <<code, result>>

Wait ==
  /\ Advance("wait", "logs")
  /\ docker = "exited"
  /\ UNCHANGED <<docker, code, result>>

\* Seeded fault: wait has no time limit.
WaitWithoutLimit ==
  /\ Advance("wait", "reload")
  /\ docker = "exited"
  /\ UNCHANGED <<docker, code, result>>

\* The time is over, or the connection broke.
WaitFails ==
  /\ Advance("wait", "reload")
  /\ UNCHANGED <<docker, code, result>>

\* What will be returned once the container is removed (finally).
Hold(r) == result' = [result EXCEPT ![loop] = r]

ReadLogs ==
  /\ \/ Advance("logs", "remove") /\ Hold(code)
     \/ Advance("logs", "reload") /\ UNCHANGED result
  /\ UNCHANGED <<docker, code>>

\* except: was the container still running?
Reload ==
  /\ \/ docker = "running" /\ Advance("reload", "kill") /\ UNCHANGED result
     \/ docker # "running" /\ Advance("reload", "remove") /\ Hold("positive")
  /\ UNCHANGED <<docker, code>>

ReloadFails ==
  /\ Advance("reload", "remove")
  /\ Hold("positive")
  /\ UNCHANGED <<docker, code>>

\* Seeded fault: a container that was killed is not removed.
KillAndReturn ==
  /\ step = "kill"
  /\ ReturnWith("minus", "exited")
  /\ UNCHANGED excused

\* A kill that fails is swallowed: timed_out is already set.
Kill ==
  /\ Advance("kill", "remove")
  /\ docker' \in {docker, "exited"}
  /\ Hold("minus")
  /\ UNCHANGED code

\* finally: remove by force, and return what is held.
Remove ==
  /\ step = "remove"
  /\ ReturnWith(result[loop], "absent")
  /\ UNCHANGED excused

RemoveFails ==
  /\ step = "remove"
  /\ MayLose
  /\ \E d \in {"absent", docker} : ReturnWith(result[loop], d)
  /\ excused' = excused \cup {ThisCall}

InSandbox ==
  \/ CheckWorkspace \/ Connect \/ Create \/ CreateFails \/ Start \/ StartFails
  \/ Wait \/ WaitFails \/ ReadLogs \/ Reload \/ ReloadFails \/ Kill
  \/ Remove \/ RemoveFails
-----------------------------------------------------------------------------
(***************************************************************************)
(* The tester's round around it.                                           *)
(***************************************************************************)

\* Seeded fault: a result without an exit code counts as 0.
MergeDefault(r) ==
  CASE r \in {"zero", "error"} -> "passed"
    [] r = "positive" -> "failed"
    [] OTHER -> "model"

\* Seeded fault: the exit code itself becomes the report.
MergeRaw(r) == r

\* An exit code of 0 or above overrides the model's report; -1, and a
\* result without an exit code, leave it.
Merge(r) ==
  CASE r = "zero" -> "passed"
    [] r = "positive" -> "failed"
    [] OTHER -> "model"

\* The model's analysis answers, or fails and the report stays.
Analyse(t) ==
  /\ loop = Nobody
  /\ result[t] # "none"
  /\ report' \in {report, [report EXCEPT ![t] = Merge(result[t])]}
  /\ result' = [result EXCEPT ![t] = "none"]
  /\ UNCHANGED <<callVars, round, historyVars>>

\* The process dies: nobody removes the container of the present call.
KillSandbox ==
  /\ IF docker = "absent"
       THEN UNCHANGED <<left, excused>>
       ELSE left' = left \cup {ThisCall} /\ excused' = excused \cup {ThisCall}
  /\ ForgetCall
  /\ result' = [t \in Testers |-> "none"]
  /\ UNCHANGED <<testerVars, green>>
-----------------------------------------------------------------------------
(***************************************************************************)
(* Properties.                                                             *)
(***************************************************************************)

\* A call leaves a container behind only when Docker did not confirm its
\* creation or removal, or the process died: on every other way out of
\* execute_in_sandbox, timeouts included, finally removes it.
ContainersAreRemoved == left \subseteq excused

\* The sandbox turns the report into "all passed" only if a command of this
\* run did exit with 0: no failure of Docker, of the wait or of the tool
\* call is taken for a success (tester.py 120-134).
PassedMeansExitedZero ==
  \A t \in Testers : report[t] = "passed" =>
    \E n \in 1 .. round[t] : <<t, n>> \in green

\* The event loop, which execute_in_sandbox holds, comes back whatever
\* Docker does, since every request to it has a time limit.
LoopComesBack == loop # Nobody ~> loop = Nobody
=============================================================================
