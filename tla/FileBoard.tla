----------------------------- MODULE FileBoard -----------------------------
(***************************************************************************)
(* What a run promises about its files, and nothing of how it is done: a   *)
(* plan is chosen at most once; a task is settled at most once, and only   *)
(* when a done task exists for every path it depends on; the run may be    *)
(* announced as completed only while every task of a plan is done.         *)
(* Pipeline is shown to implement this specification.                      *)
(***************************************************************************)
EXTENDS ProjectPlan

CONSTANTS
  Plans,                        \* the plans that may be chosen
  None                          \* no plan yet

VARIABLES
  plan,                         \* None, or the chosen plan
  outcome,                      \* task -> "open", "done" or "failed"
  completed                     \* is the run shown as completed?

boardVars == <<plan, outcome, completed>>

BoardInit ==
  /\ plan = None
  /\ outcome = <<>>
  /\ completed = FALSE

ChoosePlan ==
  /\ plan = None
  /\ plan' \in Plans
  /\ outcome' = [i \in DOMAIN plan' |-> "open"]
  /\ UNCHANGED completed

Settle(i, result) ==
  /\ outcome[i] = "open"
  /\ plan[i].dependencies \subseteq DonePaths(plan, outcome)
  /\ outcome' = [outcome EXCEPT ![i] = result]
  /\ UNCHANGED <<plan, completed>>

Announce ==
  /\ plan # None
  /\ ~completed
  /\ AllDone(plan, outcome)
  /\ completed' = TRUE
  /\ UNCHANGED <<plan, outcome>>

\* A later agent may still fail the run or put it back to running.
Retract ==
  /\ completed
  /\ completed' = FALSE
  /\ UNCHANGED <<plan, outcome>>

BoardNext ==
  \/ ChoosePlan
  \/ /\ plan # None
     /\ \E i \in DOMAIN plan, result \in {"done", "failed"} : Settle(i, result)
  \/ Announce
  \/ Retract

BoardSpec == BoardInit /\ [][BoardNext]_boardVars
=============================================================================
