---------------------------- MODULE PullRequests ----------------------------
(***************************************************************************)
(* What publishing on GitHub promises, whatever requests fail on the way.  *)
(* Commits appear on the branch they were made for and never leave it, a   *)
(* pull request is opened only for a branch with such a commit, and only   *)
(* an opened pull request is announced.                                    *)
(***************************************************************************)
CONSTANTS Attempts, Branches, BranchOf

VARIABLES work,        \* the attempts whose commit is on their branch
          opened,      \* the branches a pull request was opened for
          announced    \* the attempts that announced a pull request

HasWork(b) == \E a \in work : BranchOf[a] = b

BoardInit == work = {} /\ opened = {} /\ announced = {}

Publish(a) ==
  /\ work' = work \cup {a}
  /\ UNCHANGED <<opened, announced>>

Open(b) ==
  /\ HasWork(b)
  /\ opened' = opened \cup {b}
  /\ UNCHANGED <<work, announced>>

OpenAndAnnounce(a) ==
  /\ HasWork(BranchOf[a])
  /\ opened' = opened \cup {BranchOf[a]}
  /\ announced' = announced \cup {a}
  /\ UNCHANGED work

BoardNext ==
  \/ \E a \in Attempts : Publish(a) \/ OpenAndAnnounce(a)
  \/ \E b \in Branches : Open(b)

BoardSpec == BoardInit /\ [][BoardNext]_<<work, opened, announced>>
=============================================================================
