------------------------------ MODULE Delivery ------------------------------
(***************************************************************************)
(* What runs do to the outside once their files are written: the tester's  *)
(* rounds in the sandbox (Containers), then the publication by the         *)
(* documentation agent (Publishing).  All runs share one asyncio process;  *)
(* while one is in the sandbox no other handles an answer.  The reviewer   *)
(* and the routes between the agents are in Pipeline; here a run leaves    *)
(* the rounds, or never publishes, by choice.                              *)
(***************************************************************************)
EXTENDS Publishing, Containers

ASSUME TestersAssumption == Testers \subseteq Attempts
ASSUME HandlersAssumption == Nobody \notin Attempts

vars == <<publishVars, sandboxVars>>

TypeOK == PublishTypeOK /\ SandboxTypeOK

Init == PublishInit /\ SandboxInit

\* A round of the tester.
Test(a) ==
  /\ call[a] = "start"
  /\ EnterSandbox(a) \/ Analyse(a)
  /\ UNCHANGED publishVars

TestersTurn ==
  /\ InSandbox
  /\ UNCHANGED publishVars

DockersTurn ==
  /\ ContainerExits
  /\ UNCHANGED publishVars

\* The documentation agent of a run that is not in a test round.
Document(a) ==
  /\ loop = Nobody
  /\ a \in Testers => result[a] = "none"
  /\ Skip(a) \/ Begin(a) \/ Request(a)
  /\ UNCHANGED sandboxVars

Outside ==
  /\ GitHub
  /\ UNCHANGED sandboxVars

Started(a) ==
  \/ InCall(a) \/ call[a] = "prepare"
  \/ a \in Testers /\ call[a] = "start" /\ round[a] > 0

\* The process dies and is started again: what had begun is lost, what had
\* not may begin.
Crash ==
  /\ \E a \in Attempts : Started(a)
  /\ KillAttempts({a \in Attempts : Started(a)})
  /\ KillSandbox

Next ==
  \/ \E t \in Testers : Test(t)
  \/ TestersTurn
  \/ DockersTurn
  \/ \E a \in Attempts : Document(a)
  \/ Outside
  \/ Crash

Spec == Init /\ [][Next]_vars

\* Requests to Docker and GitHub are answered or given up after a time; the
\* command in a container may run for ever.
Fairness ==
  /\ WF_vars(TestersTurn)
  /\ \A a \in Attempts : WF_vars(call[a] # "start" /\ Document(a))

FairSpec == Spec /\ Fairness

\* A publication that has begun ends, also when another run holds the event
\* loop in the meantime and when requests are lost.
PublicationEnds ==
  \A a \in Attempts : call[a] = "base" ~> call[a] \in {"end", "killed"}
=============================================================================
