--------------------------- MODULE DeliveryProofs ---------------------------
(***************************************************************************)
(* Proofs about Delivery: what GitHub and Docker hold is sound for any     *)
(* number of attempts, branches, files, rounds and lost requests.          *)
(***************************************************************************)
EXTENDS Delivery, FiniteSetTheorems, TLAPS
-----------------------------------------------------------------------------
(***************************************************************************)
(* The inductive invariant of the publication.                             *)
(***************************************************************************)
Refs == Branches \cup {Main}
Over == {"pull", "end", "killed"}
Ended == {"end", "killed"}

\* The commit of an attempt has all the files the attempt was to commit.
Whole(a) == files[a] # {} /\ tree[a] = files[a]

\* What a branch holds comes from main or from attempts on that branch.
OwnOrMain ==
  \A b \in Branches :
    refs[b] \subseteq refs[Main] \cup {a \in Attempts : BranchOf[a] = b}

\* What an attempt has read is still there.
SeenIsKept ==
  \A a \in Attempts :
    /\ call[a] = "ref" => seen[a] \subseteq refs[Main]
    /\ call[a] \in {"blob", "tree", "commit", "move"} =>
         seen[a] \subseteq refs[BranchOf[a]]

\* A commit is made of every file, or not at all.
WorkInHand ==
  \A a \in Attempts :
    /\ call[a] = "blob" => files[a] # {} /\ blobs[a] \subseteq files[a]
    /\ call[a] = "head" => files[a] # {} /\ blobs[a] = {}
    /\ call[a] = "tree" => files[a] # {} /\ blobs[a] = files[a]
    /\ call[a] \in {"commit", "move"} => Whole(a)
    /\ call[a] \in {"start", "prepare", "base", "ref", "check"} => blobs[a] = {}

\* The update of a's branch with a's commit, on top of what is there.
MoveOf(a, q) ==
  /\ BranchOf[a] = q.branch
  /\ q.history \subseteq refs[q.branch] \cup {a}
  /\ Whole(a)

\* A request that was given up still fits what GitHub holds.
LateIsSound ==
  \A q \in late :
    /\ q.kind = "ref" => q.history \subseteq refs[Main]
    /\ q.kind = "move" =>
         \E a \in Attempts : MoveOf(a, q) /\ call[a] \in Over

\* A commit that some branch reaches is whole, is not being made any more,
\* and is on the branch it was made for.
CommitsAreOver ==
  \A b \in Refs : \A a \in Attempts \cap refs[b] :
    Whole(a) /\ call[a] \in Over /\ a \in refs[BranchOf[a]]

\* A pull request is for a branch with work of its own.
PullsHaveWork ==
  /\ \A b \in Branches : pulls[b] # "none" =>
       \E w \in refs[b] \cap Attempts : BranchOf[w] = b
  /\ \A a \in Attempts : pr_url[a] = "url" => pulls[BranchOf[a]] # "none"

\* Only an attempt that has come to its end has announced a pull request.
AnnouncedAtEnd == \A a \in Attempts : pr_url[a] = "url" => call[a] \in Ended

PublishInv ==
  /\ PublishTypeOK
  /\ AnnouncedAtEnd
  /\ OwnOrMain
  /\ SeenIsKept
  /\ WorkInHand
  /\ LateIsSound
  /\ CommitsAreOver
  /\ PullsHaveWork
-----------------------------------------------------------------------------
(***************************************************************************)
(* The inductive invariant of the sandbox.                                 *)
(***************************************************************************)
SandboxInv ==
  /\ SandboxTypeOK
  /\ loop = Nobody <=> step = "idle"
  /\ step \in {"idle", "workspace", "connect", "create"} => docker = "absent"
  /\ loop # Nobody => round[loop] >= 1
  /\ step = "logs" => docker = "exited"
  /\ code = "zero" => loop # Nobody /\ ThisCall \in green
  /\ \A t \in Testers : result[t] = "zero" =>
       \E n \in 1 .. round[t] : <<t, n>> \in green
  /\ PassedMeansExitedZero
  /\ ContainersAreRemoved

IInv == PublishInv /\ SandboxInv
-----------------------------------------------------------------------------
(* The sandbox.                                                            *)

\* The initial state satisfies the sandbox's invariant.
LEMMA SandboxStarts == SandboxInit => SandboxInv
BY RoundsAssumption, NobodyAssumption
   DEF SandboxInit, SandboxInv, SandboxTypeOK, SandboxSteps, Results, Reports,
       PassedMeansExitedZero, ContainersAreRemoved

\* While a call is in progress it is one of the calls.
LEMMA CallInProgress ==
  ASSUME SandboxInv, step # "idle"
  PROVE  loop \in Testers /\ round[loop] \in 1 .. Rounds /\ ThisCall \in SandboxCalls
BY RoundsAssumption DEF SandboxInv, SandboxTypeOK, ThisCall, SandboxCalls

\* A call returns only what the command did, and leaves a container behind
\* only with an excuse.
LEMMA ReturnKeepsInv ==
  ASSUME SandboxInv, step # "idle", NEW r \in Results, NEW d,
         ReturnWith(r, d),
         r = "zero" => \E n \in 1 .. round[loop] : <<loop, n>> \in green,
         \/ d = "absent" /\ excused' = excused
         \/ excused' = excused \cup {ThisCall}
         \/ excused' = excused /\ left' = left
  PROVE  SandboxInv'
<1> USE CallInProgress, NobodyAssumption DEF SandboxInv
<1>1. SandboxTypeOK'
  BY DEF SandboxTypeOK, ReturnWith, ForgetCall, testerVars, SandboxSteps
<1>2. ContainersAreRemoved'
  BY DEF ContainersAreRemoved, ReturnWith
<1>3. PassedMeansExitedZero'
  BY DEF PassedMeansExitedZero, ReturnWith, testerVars
<1>4. \A t \in Testers : result'[t] = "zero" =>
        \E n \in 1 .. round'[t] : <<t, n>> \in green'
  <2> SUFFICES ASSUME NEW t \in Testers, result'[t] = "zero"
               PROVE  \E n \in 1 .. round[t] : <<t, n>> \in green
    BY DEF ReturnWith, testerVars
  <2>1. CASE t = loop
    BY <2>1 DEF ReturnWith, SandboxTypeOK
  <2>2. CASE t # loop
    BY <2>2 DEF ReturnWith, SandboxTypeOK
  <2> QED
    BY <2>1, <2>2
<1> QED
  BY <1>1, <1>2, <1>3, <1>4 DEF ReturnWith, ForgetCall

\* A step inside the call, which returns nothing yet, keeps the invariant.
LEMMA AdvanceKeepsInv ==
  ASSUME SandboxInv, NEW from, from # "idle", NEW to \in SandboxSteps,
         to # "idle", Advance(from, to),
         docker' \in {"absent", "created", "running", "exited"},
         code' = code, result' = result,
         to \in {"workspace", "connect", "create"} => docker' = "absent",
         to = "logs" => docker' = "exited"
  PROVE  SandboxInv'
<1> USE CallInProgress, NobodyAssumption
    DEF SandboxInv, Advance, testerVars, historyVars
<1>1. SandboxTypeOK'
  BY DEF SandboxTypeOK
<1>2. ContainersAreRemoved' /\ PassedMeansExitedZero'
  BY DEF ContainersAreRemoved, PassedMeansExitedZero
<1> QED
  BY <1>1, <1>2 DEF ThisCall, SandboxTypeOK

\* So does one that also decides what will be returned.
LEMMA HoldKeepsInv ==
  ASSUME SandboxInv, NEW from, from # "idle", NEW r \in Results,
         Advance(from, "remove"), Hold(r),
         docker' \in {"absent", "created", "running", "exited"},
         code' = code, r = "zero" => ThisCall \in green
  PROVE  SandboxInv'
<1> USE CallInProgress, NobodyAssumption
    DEF SandboxInv, Advance, testerVars, historyVars
<1>1. SandboxTypeOK'
  BY DEF SandboxTypeOK, SandboxSteps, Hold
<1>2. ContainersAreRemoved' /\ PassedMeansExitedZero'
  BY DEF ContainersAreRemoved, PassedMeansExitedZero
<1>3. \A t \in Testers : result'[t] = "zero" =>
        \E n \in 1 .. round'[t] : <<t, n>> \in green'
  <2> SUFFICES ASSUME NEW t \in Testers, result'[t] = "zero"
               PROVE  \E n \in 1 .. round[t] : <<t, n>> \in green
    OBVIOUS
  <2>1. CASE t = loop
    BY <2>1, RoundsAssumption DEF Hold, SandboxTypeOK, ThisCall
  <2>2. CASE t # loop
    BY <2>2 DEF Hold, SandboxTypeOK
  <2> QED
    BY <2>1, <2>2
<1> QED
  BY <1>1, <1>2, <1>3 DEF ThisCall, SandboxTypeOK

\* Every step of execute_in_sandbox keeps the invariant.
LEMMA CallKeepsInv ==
  ASSUME SandboxInv, InSandbox
  PROVE  SandboxInv'
<1> USE DEF SandboxSteps, Results
<1>0. docker \in {"absent", "created", "running", "exited"}
  BY DEF SandboxInv, SandboxTypeOK
<1>1. CASE CheckWorkspace
  <2>1. CASE Advance("workspace", "connect") /\ UNCHANGED <<docker, code, result>>
    BY <1>0, <2>1, AdvanceKeepsInv DEF Advance, SandboxInv
  <2>2. CASE step = "workspace" /\ ReturnWith("positive", docker) /\ UNCHANGED excused
    BY <2>2, ReturnKeepsInv DEF SandboxInv
  <2> QED
    BY <1>1, <2>1, <2>2 DEF CheckWorkspace
<1>2. CASE Connect
  <2>1. CASE Advance("connect", "create") /\ UNCHANGED <<docker, code, result>>
    BY <1>0, <2>1, AdvanceKeepsInv DEF Advance, SandboxInv
  <2>2. CASE step = "connect" /\ ReturnWith("error", docker) /\ UNCHANGED excused
    BY <2>2, ReturnKeepsInv DEF SandboxInv
  <2> QED
    BY <1>2, <2>1, <2>2 DEF Connect
<1>3. CASE Create
  BY <1>3, AdvanceKeepsInv DEF Create
<1>4. CASE CreateFails
  <2>1. CASE ReturnWith("positive", "absent") /\ UNCHANGED excused
    BY <1>4, <2>1, ReturnKeepsInv DEF CreateFails
  <2>2. CASE ReturnWith("positive", "created") /\ excused' = excused \cup {ThisCall}
    BY <1>4, <2>2, ReturnKeepsInv DEF CreateFails
  <2> QED
    BY <1>4, <2>1, <2>2 DEF CreateFails
<1>5. CASE Start
  BY <1>5, AdvanceKeepsInv DEF Start
<1>6. CASE StartFails
  BY <1>6, AdvanceKeepsInv DEF StartFails
<1>7. CASE Wait
  BY <1>7, AdvanceKeepsInv DEF Wait
<1>8. CASE WaitFails
  BY <1>0, <1>8, AdvanceKeepsInv DEF WaitFails
<1>9. CASE ReadLogs
  <2>1. CASE Advance("logs", "remove") /\ Hold(code)
    <3>1. code \in Results /\ code' = code /\ docker' = docker
      BY <1>9 DEF ReadLogs, SandboxInv, SandboxTypeOK
    <3> QED
      BY <1>0, <2>1, <3>1, HoldKeepsInv DEF SandboxInv
  <2>2. CASE Advance("logs", "reload") /\ UNCHANGED result
    BY <1>0, <1>9, <2>2, AdvanceKeepsInv DEF ReadLogs
  <2> QED
    BY <1>9, <2>1, <2>2 DEF ReadLogs
<1>10. CASE Reload \/ ReloadFails
  <2>1. CASE Advance("reload", "kill") /\ UNCHANGED result
    BY <1>0, <1>10, <2>1, AdvanceKeepsInv DEF Reload, ReloadFails
  <2>2. CASE Advance("reload", "remove") /\ Hold("positive")
    BY <1>0, <1>10, <2>2, HoldKeepsInv DEF Reload, ReloadFails
  <2> QED
    BY <1>10, <2>1, <2>2 DEF Reload, ReloadFails
<1>11. CASE Kill
  BY <1>0, <1>11, HoldKeepsInv DEF Kill
<1>12. CASE Remove \/ RemoveFails
  <2>1. step = "remove"
    BY <1>12 DEF Remove, RemoveFails
  <2>2. result[loop] \in Results
    BY <2>1, CallInProgress DEF SandboxInv, SandboxTypeOK
  <2>3. result[loop] = "zero" =>
          \E n \in 1 .. round[loop] : <<loop, n>> \in green
    BY <2>1, CallInProgress DEF SandboxInv
  <2>4. CASE Remove
    BY <2>1, <2>2, <2>3, <2>4, ReturnKeepsInv DEF Remove
  <2>5. CASE RemoveFails
    BY <2>1, <2>2, <2>3, <2>5, ReturnKeepsInv DEF RemoveFails
  <2> QED
    BY <1>12, <2>4, <2>5
<1> QED
  BY <1>1, <1>2, <1>3, <1>4, <1>5, <1>6, <1>7, <1>8, <1>9, <1>10, <1>11,
     <1>12 DEF InSandbox

\* Every step of the daemon, of the tester around the call, and a crash.
LEMMA TesterKeepsInv ==
  ASSUME SandboxInv,
         \/ ContainerExits
         \/ \E t \in Testers : EnterSandbox(t) \/ Analyse(t)
         \/ KillSandbox
         \/ UNCHANGED sandboxVars
  PROVE  SandboxInv'
<1> USE RoundsAssumption, NobodyAssumption DEF SandboxInv
<1>1. CASE ContainerExits
  <2>1. step # "idle"
    BY <1>1 DEF ContainerExits
  <2>2. loop \in Testers /\ ThisCall \in SandboxCalls
    BY <2>1, CallInProgress
  <2>3. green \subseteq green' /\ (code' = "zero" => ThisCall \in green')
    BY <1>1 DEF ContainerExits
  <2>4. SandboxTypeOK'
    BY <1>1, <2>2 DEF SandboxTypeOK, ContainerExits, testerVars
  <2>5. PassedMeansExitedZero' /\ ContainersAreRemoved'
    BY <1>1, <2>3
       DEF PassedMeansExitedZero, ContainersAreRemoved, ContainerExits,
              testerVars
  <2> QED
    BY <1>1, <2>1, <2>2, <2>3, <2>4, <2>5
       DEF ContainerExits, testerVars, ThisCall
<1>2. ASSUME NEW t \in Testers, EnterSandbox(t)
      PROVE  SandboxInv'
  <2>1. /\ loop = Nobody /\ step = "idle" /\ code # "zero"
        /\ round' = [round EXCEPT ![t] = @ + 1]
        /\ \A s \in Testers : round[s] \in 0 .. Rounds /\ round[s] <= round'[s]
        /\ round'[t] \in 1 .. Rounds
    BY <1>2 DEF EnterSandbox, SandboxTypeOK
  <2>2. SandboxTypeOK'
    BY <1>2, <2>1 DEF SandboxTypeOK, EnterSandbox, SandboxSteps, historyVars
  <2>3. PassedMeansExitedZero' /\ ContainersAreRemoved'
    BY <1>2, <2>1
       DEF PassedMeansExitedZero, ContainersAreRemoved, EnterSandbox,
              historyVars,
           SandboxTypeOK
  <2>4. \A s \in Testers : result'[s] = "zero" =>
          \E n \in 1 .. round'[s] : <<s, n>> \in green'
    BY <1>2, <2>1 DEF EnterSandbox, historyVars
  <2> QED
    BY <1>2, <2>1, <2>2, <2>3, <2>4 DEF EnterSandbox
<1>3. ASSUME NEW t \in Testers, Analyse(t)
      PROVE  SandboxInv'
  <2>1. Merge(result[t]) \in Reports
        /\ (Merge(result[t]) = "passed" => result[t] = "zero")
    BY DEF Merge, Reports
  <2>2. SandboxTypeOK'
    BY <1>3, <2>1 DEF SandboxTypeOK, Analyse, callVars, historyVars, Results
  <2>3. PassedMeansExitedZero'
    <3> SUFFICES ASSUME NEW s \in Testers, report'[s] = "passed"
                 PROVE  \E n \in 1 .. round[s] : <<s, n>> \in green
      BY <1>3 DEF PassedMeansExitedZero, Analyse, historyVars
    <3>1. CASE report'[s] = report[s]
      BY <3>1 DEF PassedMeansExitedZero
    <3>2. CASE report'[s] # report[s]
      BY <1>3, <2>1, <3>2 DEF Analyse, SandboxTypeOK
    <3> QED
      BY <3>1, <3>2
  <2>4. \A s \in Testers : result'[s] = "zero" => result[s] = "zero"
    BY <1>3 DEF Analyse, SandboxTypeOK
  <2> QED
    BY <1>3, <2>2, <2>3, <2>4
       DEF Analyse, callVars, historyVars, ContainersAreRemoved, ThisCall
<1>4. CASE KillSandbox
  <2>1. SandboxTypeOK'
    BY <1>4, CallInProgress
       DEF SandboxTypeOK, KillSandbox, ForgetCall, testerVars, SandboxSteps,
              Results
  <2>2. PassedMeansExitedZero' /\ ContainersAreRemoved'
    BY <1>4
       DEF PassedMeansExitedZero, ContainersAreRemoved, KillSandbox, testerVars
  <2> QED
    BY <1>4, <2>1, <2>2 DEF KillSandbox, ForgetCall
<1>5. CASE UNCHANGED sandboxVars
  BY <1>5
     DEF sandboxVars, callVars, testerVars, historyVars, SandboxTypeOK,
         PassedMeansExitedZero, ContainersAreRemoved, ThisCall
<1> QED
  BY <1>1, <1>2, <1>3, <1>4, <1>5

-----------------------------------------------------------------------------
(* The publication: what GitHub holds only grows.                          *)

\* The initial state satisfies the invariant.
LEMMA PublishStarts == PublishInit => PublishInv
<1> SUFFICES ASSUME PublishInit PROVE PublishInv
  OBVIOUS
<1>1. 0 \in Commits /\ 0 \notin Attempts /\ Main \notin Branches
  BY PushesAssumption, NamesAssumption, MainAssumption DEF Commits
<1>2. PublishTypeOK
  BY <1>1 DEF PublishInit, PublishTypeOK, Calls
<1>3. /\ OwnOrMain /\ SeenIsKept /\ WorkInHand /\ LateIsSound /\ PullsHaveWork
      /\ AnnouncedAtEnd
  BY <1>1, BranchAssumption
     DEF PublishInit, AnnouncedAtEnd, OwnOrMain, SeenIsKept, WorkInHand,
            LateIsSound, PullsHaveWork
<1>4. CommitsAreOver
  BY <1>1 DEF PublishInit, CommitsAreOver, Refs
<1> QED
  BY <1>2, <1>3, <1>4 DEF PublishInv

\* The parts of the invariant that speak of one attempt.
HandOf(a) ==
  /\ call[a] = "ref" => seen[a] \subseteq refs[Main]
  /\ call[a] \in {"blob", "tree", "commit", "move"} =>
       seen[a] \subseteq refs[BranchOf[a]]
  /\ call[a] = "blob" => files[a] # {} /\ blobs[a] \subseteq files[a]
  /\ call[a] = "head" => files[a] # {} /\ blobs[a] = {}
  /\ call[a] = "tree" => files[a] # {} /\ blobs[a] = files[a]
  /\ call[a] \in {"commit", "move"} => Whole(a)
  /\ call[a] \in {"start", "prepare", "base", "ref", "check"} => blobs[a] = {}

\* They say the same as the two parts together.
LEMMA HandOfAll == (\A a \in Attempts : HandOf(a)) <=> SeenIsKept /\ WorkInHand
BY DEF HandOf, SeenIsKept, WorkInHand

\* A step of one attempt that changes nothing on GitHub keeps the invariant,
\* when it is sound for that attempt.
LEMMA LocalStep ==
  ASSUME PublishInv, NEW a \in Attempts, PublishTypeOK', HandOf(a)',
         call[a] \notin Ended,
         UNCHANGED <<refs, pulls>>,
         \A c \in Attempts \ {a} :
           /\ call'[c] = call[c]
           /\ files'[c] = files[c]
           /\ seen'[c] = seen[c]
           /\ blobs'[c] = blobs[c]
           /\ tree'[c] = tree[c],
         call[a] \in Over \cup {"move"} =>
           call'[a] \in Over /\ files'[a] = files[a] /\ tree'[a] = tree[a],
         \A c \in Attempts : pr_url'[c] = "url" => pr_url[c] = "url",
         \/ late' = late
         \/ Sending(a) /\ late' = late \cup {RequestOf(a)}
  PROVE  PublishInv'
<1> USE DEF PublishInv
<1>1. SeenIsKept' /\ WorkInHand'
  <2>1. \A c \in Attempts : HandOf(c)'
    <3> SUFFICES ASSUME NEW c \in Attempts, c # a
                 PROVE  HandOf(c)'
      OBVIOUS
    <3>1. HandOf(c)
      BY HandOfAll
    <3> QED
      BY <3>1 DEF HandOf, Whole
  <2> QED
    BY <2>1 DEF HandOf, SeenIsKept, WorkInHand
<1>2. \A c \in Attempts : call[c] \in Over \cup {"move"} =>
        (call[c] \in Over => call'[c] \in Over) /\ (Whole(c) => Whole(c)')
  BY DEF Whole, Over
<1>3. OwnOrMain' /\ PullsHaveWork' /\ AnnouncedAtEnd'
  BY DEF OwnOrMain, PullsHaveWork, AnnouncedAtEnd
<1>4. CommitsAreOver'
  BY <1>2 DEF CommitsAreOver
<1>5. LateIsSound'
  <2> SUFFICES ASSUME NEW q \in late'
               PROVE  /\ q.kind = "ref" => q.history \subseteq refs[Main]
                      /\ q.kind = "move" =>
                           \E c \in Attempts : MoveOf(c, q)' /\ call'[c] \in Over
    BY DEF LateIsSound
  <2>1. CASE q \in late
    BY <1>2, <2>1 DEF LateIsSound, MoveOf
  <2>2. CASE q \notin late
    <3>1. Sending(a) /\ q = RequestOf(a)
      BY <2>2
    <3>2. CASE call[a] = "ref"
      BY <3>1, <3>2 DEF RequestOf, SeenIsKept
    <3>3. CASE call[a] = "move"
      <4>1. /\ q.kind = "move"
            /\ q.branch = BranchOf[a]
            /\ q.history = seen[a] \cup {a}
        BY <3>1, <3>3 DEF RequestOf
      <4>2. Whole(a) /\ seen[a] \subseteq refs[BranchOf[a]]
        BY <3>3 DEF WorkInHand, SeenIsKept
      <4> QED
        BY <1>2, <3>3, <4>1, <4>2 DEF MoveOf
    <3>4. CASE call[a] = "pull"
      BY <3>1, <3>4 DEF RequestOf
    <3> QED
      BY <3>1, <3>2, <3>3, <3>4 DEF Sending
  <2> QED
    BY <2>1, <2>2
<1> QED
  BY <1>1, <1>3, <1>4, <1>5

\* What a request of an attempt asks for has the types of a request.
LEMMA RequestTyped ==
  ASSUME PublishTypeOK, NEW a \in Attempts, Sending(a)
  PROVE  RequestOf(a) \in Requests
<1>1. seen[a] \subseteq Commits /\ a \in Commits /\ BranchOf[a] \in Branches
  BY BranchAssumption DEF PublishTypeOK, Commits
<1>2. CASE call[a] = "ref"
  BY <1>1, <1>2 DEF RequestOf, Requests
<1>3. CASE call[a] = "move"
  BY <1>1, <1>3 DEF RequestOf, Requests
<1>4. CASE call[a] = "pull"
  BY <1>1, <1>4 DEF RequestOf, Requests
<1> QED
  BY <1>2, <1>3, <1>4 DEF Sending

\* After an exception the attempt goes on with the next call, or is done.
LEMMA AfterError ==
  ASSUME PublishTypeOK, NEW a \in Attempts, InCall(a), ErrorResult(a)
  PROVE  /\ call' \in [Attempts -> Calls]
         /\ call'[a] \in {"prepare", "pull", "end"}
         /\ call[a] \in Over \cup {"move"} => call'[a] \in Over
         /\ seen' \in [Attempts -> SUBSET Commits]
         /\ blobs' \in [Attempts -> SUBSET Files]
         /\ pr_url' \in [Attempts -> {"unset", "", "url"}]
         /\ blobs'[a] = {}
         /\ \A c \in Attempts : pr_url'[c] = "url" => pr_url[c] = "url"
         /\ \A c \in Attempts \ {a} :
              /\ call'[c] = call[c]
              /\ seen'[c] = seen[c]
              /\ blobs'[c] = blobs[c]
<1> DEFINE next == CASE call[a] \in CreateBranchCalls -> "prepare"
                     [] call[a] \in CreateCommitCalls -> "pull"
                     [] OTHER -> "end"
<1>1. call' = [call EXCEPT ![a] = next]
  BY DEF ErrorResult, Goto
<1>2. /\ next \in {"prepare", "pull", "end"}
      /\ call[a] \in Over \cup {"move"} => next \in Over
  <2>1. CASE call[a] \in CreateBranchCalls
    BY <2>1, Zenon DEF CreateBranchCalls, Over
  <2>2. CASE call[a] \in CreateCommitCalls
    <3>1. call[a] \notin CreateBranchCalls
      BY <2>2 DEF CreateBranchCalls, CreateCommitCalls
    <3>2. next = "pull"
      BY <2>2, <3>1
    <3> QED
      BY <3>2 DEF Over
  <2>3. CASE call[a] \notin CreateBranchCalls \cup CreateCommitCalls
    <3>1. next = "end"
      BY <2>3
    <3> QED
      BY <3>1 DEF Over
  <2> QED
    BY <2>1, <2>2, <2>3
<1> HIDE DEF next
<1> QED
  BY <1>1, <1>2 DEF ErrorResult, ForgetLocals, PublishTypeOK, Calls

\* An attempt in a tool call has not ended.
LEMMA InCallNotEnded ==
  ASSUME NEW a, InCall(a)
  PROVE  call[a] \notin Ended
BY DEF InCall, CreateBranchCalls, CreateCommitCalls, Ended

\* The steps of an attempt that change nothing on GitHub.
LEMMA AttemptKeepsInv ==
  ASSUME PublishInv, NEW a \in Attempts,
         \/ Skip(a) \/ Begin(a) \/ Prepare(a)
         \/ ReadBase(a) \/ CheckRef(a)
         \/ ReadHead(a) \/ CreateBlob(a) \/ CreateTree(a) \/ CreateCommit(a)
         \/ RequestFails(a) \/ RequestTimesOut(a)
  PROVE  PublishInv'
<1> USE BranchAssumption, FilesAssumption, MainAssumption
<1>0. PublishTypeOK /\ HandOf(a)
  BY HandOfAll DEF PublishInv
<1>1. CASE Skip(a)
  <2>1. PublishTypeOK' /\ HandOf(a)'
    BY <1>0, <1>1 DEF PublishTypeOK, HandOf, Skip, Goto, Calls
  <2> QED
    BY <1>0, <1>1, <2>1, LocalStep DEF Ended, PublishTypeOK, Skip, Goto, Over
<1>2. CASE Begin(a)
  <2>1. PublishTypeOK'
    <3>1. PICK fs \in FileSets : files' = [files EXCEPT ![a] = fs]
      BY <1>2 DEF Begin
    <3>2. fs \in SUBSET Files
      OBVIOUS
    <3> QED
      BY <1>0, <1>2, <3>1, <3>2
         DEF PublishTypeOK, Begin, Goto, Calls, CreateBranchCalls
  <2>2. HandOf(a)'
    BY <1>0, <1>2 DEF PublishTypeOK, HandOf, Begin, Goto
  <2> QED
    BY <1>0, <1>2, <2>1, <2>2, LocalStep
       DEF Ended, PublishTypeOK, Begin, Goto, Over
<1>3. CASE Prepare(a)
  <2>1. PublishTypeOK' /\ HandOf(a)'
    BY <1>0, <1>3
       DEF PublishTypeOK, HandOf, Prepare, Goto, Calls, CreateCommitCalls
  <2> QED
    BY <1>0, <1>3, <2>1, LocalStep DEF Ended, PublishTypeOK, Prepare, Goto, Over
<1>4. CASE ReadBase(a)
  <2>1. PublishTypeOK' /\ HandOf(a)'
    BY <1>0, <1>4
       DEF PublishTypeOK, HandOf, ReadBase, Goto, Calls, CreateBranchCalls
  <2> QED
    BY <1>0, <1>4, <2>1, LocalStep
       DEF Ended, PublishTypeOK, ReadBase, Goto, Over
<1>5. CASE CheckRef(a)
  <2>1. PublishTypeOK' /\ HandOf(a)'
    BY <1>0, <1>5
       DEF PublishTypeOK, HandOf, CheckRef, Goto, ForgetLocals, Calls
  <2> QED
    BY <1>0, <1>5, <2>1, LocalStep
       DEF Ended, PublishTypeOK, CheckRef, Goto, ForgetLocals, Over
<1>6. CASE ReadHead(a)
  <2>1. PublishTypeOK' /\ HandOf(a)'
    BY <1>0, <1>6
       DEF PublishTypeOK, HandOf, ReadHead, Goto, Calls, CreateCommitCalls
  <2> QED
    BY <1>0, <1>6, <2>1, LocalStep
       DEF Ended, PublishTypeOK, ReadHead, Goto, Over
<1>7. CASE CreateBlob(a)
  <2>1. PICK f \in files[a] \ blobs[a] :
          /\ blobs' = [blobs EXCEPT ![a] = @ \cup {f}]
          /\ Goto(a, IF files[a] \subseteq blobs[a] \cup {f} THEN "tree" ELSE "blob")
    BY <1>7 DEF CreateBlob
  <2>2. /\ f \in Files /\ call[a] = "blob" /\ call'[a] \in {"tree", "blob"}
        /\ call' = [call EXCEPT ![a] = call'[a]]
        /\ blobs'[a] = blobs[a] \cup {f}
        /\ call'[a] = "tree" => files[a] \subseteq blobs[a] \cup {f}
        /\ UNCHANGED <<files, seen, tree, pr_url, refs, pulls, late>>
    BY <1>0, <1>7, <2>1 DEF PublishTypeOK, CreateBlob, Goto
  <2>3. PublishTypeOK'
    BY <1>0, <2>1, <2>2 DEF PublishTypeOK, Calls, CreateCommitCalls
  <2>4. files[a] # {} /\ blobs[a] \subseteq files[a]
        /\ seen[a] \subseteq refs[BranchOf[a]]
    BY <1>0, <2>2 DEF HandOf
  <2>5. HandOf(a)'
    BY <2>1, <2>2, <2>4 DEF HandOf
  <2> QED
    BY <1>0, <2>1, <2>2, <2>3, <2>5, LocalStep DEF Ended, PublishTypeOK, Over
<1>8. CASE CreateTree(a)
  <2>1. PublishTypeOK'
    BY <1>0, <1>8
       DEF PublishTypeOK, CreateTree, Goto, Calls, CreateCommitCalls
  <2>2. HandOf(a)'
    BY <1>0, <1>8 DEF PublishTypeOK, HandOf, CreateTree, Goto, Whole
  <2> QED
    BY <1>0, <1>8, <2>1, <2>2, LocalStep
       DEF Ended, PublishTypeOK, CreateTree, Goto, Over
<1>9. CASE CreateCommit(a)
  <2>1. PublishTypeOK' /\ HandOf(a)'
    BY <1>0, <1>9
       DEF PublishTypeOK, HandOf, CreateCommit, Goto, Whole, Calls,
           CreateCommitCalls
  <2> QED
    BY <1>0, <1>9, <2>1, LocalStep
       DEF Ended, PublishTypeOK, CreateCommit, Goto, Over
<1>10. CASE RequestFails(a)
  <2>1. InCall(a) /\ ErrorResult(a)
    BY <1>10 DEF RequestFails
  <2>2. PublishTypeOK' /\ HandOf(a)'
    BY <1>0, <1>10, <2>1, AfterError DEF PublishTypeOK, HandOf, RequestFails
  <2> QED
    BY <1>0, <1>10, <2>1, <2>2, AfterError, LocalStep, InCallNotEnded
       DEF RequestFails
<1>11. CASE RequestTimesOut(a)
  <2>1. InCall(a) /\ ErrorResult(a)
    BY <1>11
       DEF RequestTimesOut, InCall, Sending, CreateBranchCalls,
              CreateCommitCalls
  <2>2. late' \in SUBSET Requests
    BY <1>0, <1>11, RequestTyped DEF RequestTimesOut, PublishTypeOK
  <2>3. PublishTypeOK' /\ HandOf(a)'
    BY <1>0, <1>11, <2>1, <2>2, AfterError
       DEF PublishTypeOK, HandOf, RequestTimesOut
  <2> QED
    BY <1>0, <1>11, <2>1, <2>3, AfterError, LocalStep, InCallNotEnded
       DEF RequestTimesOut
<1> QED
  BY <1>1, <1>2, <1>3, <1>4, <1>5, <1>6, <1>7, <1>8, <1>9, <1>10, <1>11

\* A request GitHub carries out loses nothing, and leaves main alone.
LEMMA CarryOutGrows ==
  ASSUME PublishInv, NEW q \in Requests, CarryOut(q)
  PROVE  /\ refs' \in [Refs -> SUBSET Commits]
         /\ pulls' \in [Branches -> {"none", "open", "merged"}]
         /\ \A b \in Refs : refs[b] \subseteq refs'[b]
         /\ refs'[Main] = refs[Main]
         /\ \A b \in Branches : pulls[b] # "none" => pulls'[b] # "none"
<1>1. q.branch \in Branches /\ q.history \subseteq Commits /\ q.branch # Main
  BY MainAssumption DEF Requests
<1>2. CASE q.kind = "ref"
  BY <1>1, <1>2 DEF CarryOut, PublishInv, PublishTypeOK, Refs
<1>3. CASE q.kind = "move"
  BY <1>1, <1>3 DEF CarryOut, PublishInv, PublishTypeOK, Refs, UpdateAccepted
<1>4. CASE q.kind = "pull"
  BY <1>1, <1>4 DEF CarryOut, PublishInv, PublishTypeOK, Refs
<1> QED
  BY <1>2, <1>3, <1>4 DEF Requests

\* While commits on GitHub only grow, what an attempt knew of them stays true,
\* and so does what a request was sent for.
LEMMA GrowthKeepsHands ==
  ASSUME PublishInv, NEW a \in Attempts,
         \A b \in Refs : refs[b] \subseteq refs'[b],
         UNCHANGED <<call, files, seen, blobs, tree>>
  PROVE  HandOf(a)'
<1>1. HandOf(a) /\ BranchOf[a] \in Refs /\ Main \in Refs
  BY HandOfAll, BranchAssumption DEF PublishInv, Refs
<1> QED
  BY <1>1 DEF HandOf, Whole

\* Requests that were sent before still fit.
LEMMA GrowthKeepsLate ==
  ASSUME LateIsSound, late \subseteq Requests,
         \A b \in Refs : refs[b] \subseteq refs'[b],
         \A a \in Attempts : Whole(a) => Whole(a)',
         \A a \in Attempts : call[a] \in Over => call'[a] \in Over,
         late' \subseteq late
  PROVE  LateIsSound'
<1> SUFFICES ASSUME NEW q \in late
             PROVE  /\ q.kind = "ref" => q.history \subseteq refs'[Main]
                    /\ q.kind = "move" =>
                         \E a \in Attempts : MoveOf(a, q)' /\ call'[a] \in Over
  BY DEF LateIsSound
<1>1. q.branch \in Refs
  BY DEF Refs, Requests
<1>2. q.kind = "ref" => q.history \subseteq refs'[Main]
  BY DEF LateIsSound, Refs
<1>3. ASSUME q.kind = "move"
      PROVE  \E a \in Attempts : MoveOf(a, q)' /\ call'[a] \in Over
  <2>1. PICK a \in Attempts : MoveOf(a, q) /\ call[a] \in Over
    BY <1>3 DEF LateIsSound
  <2> QED
    BY <1>1, <2>1 DEF MoveOf
<1> QED
  BY <1>2, <1>3

\* A request that fits what GitHub holds, from an attempt that is now over.
Fits(q) ==
  /\ q \in Requests
  /\ q.kind = "ref" => q.history \subseteq refs[Main]
  /\ q.kind = "move" =>
       \E a \in Attempts : MoveOf(a, q) /\ call'[a] \in Over

\* It brings nothing to a branch but commits of main, and the whole commit
\* of an attempt that was made for that branch.
LEMMA WhatIsCarriedOut ==
  ASSUME PublishInv, NEW q, Fits(q), CarryOut(q), NEW b \in Refs,
         NEW c \in refs'[b]
  PROVE  \/ c \in refs[b] \cup refs[Main]
         \/ /\ c \in Attempts /\ BranchOf[c] = b
            /\ Whole(c) /\ call'[c] \in Over
<1>1. q.branch \in Refs /\ refs \in [Refs -> SUBSET Commits]
  BY DEF Fits, Requests, Refs, PublishInv, PublishTypeOK
<1>2. CASE q.kind = "ref"
  BY <1>1, <1>2 DEF CarryOut, Fits
<1>3. CASE q.kind = "move"
  <2>1. PICK a \in Attempts : MoveOf(a, q) /\ call'[a] \in Over
    BY <1>3 DEF Fits
  <2>2. CASE b = q.branch
    <3>1. refs'[b] = q.history
      BY <1>1, <1>3, <2>2 DEF CarryOut
    <3> QED
      BY <2>1, <2>2, <3>1 DEF MoveOf
  <2>3. CASE b # q.branch
    BY <1>1, <1>3, <2>3 DEF CarryOut
  <2> QED
    BY <2>2, <2>3
<1>4. CASE q.kind = "pull"
  BY <1>1, <1>4 DEF CarryOut
<1> QED
  BY <1>2, <1>3, <1>4 DEF Fits, Requests

\* So the invariant holds when GitHub carries it out.
LEMMA CarriedOutKeepsInv ==
  ASSUME PublishInv, PublishTypeOK', NEW q, Fits(q), CarryOut(q),
         UNCHANGED <<files, tree>>,
         late' \subseteq late,
         \A a \in Attempts : call[a] \in Over => call'[a] \in Over,
         \A a \in Attempts : HandOf(a)',
         \A a \in Attempts : pr_url'[a] = "url" =>
           /\ pr_url[a] = "url" \/ pulls'[BranchOf[a]] = "open"
           /\ call'[a] \in Ended
  PROVE  PublishInv'
<1> USE BranchAssumption, MainAssumption DEF PublishInv
<1>1. /\ \A b \in Refs : refs[b] \subseteq refs'[b]
      /\ refs'[Main] = refs[Main]
      /\ \A b \in Branches : pulls[b] # "none" => pulls'[b] # "none"
      /\ \A b \in Branches : b \in Refs /\ b # Main
      /\ \A a \in Attempts : BranchOf[a] \in Branches
      /\ \A a \in Attempts : Whole(a) => Whole(a)'
  BY CarryOutGrows DEF Fits, Refs, Whole
<1>2. OwnOrMain'
  BY <1>1, WhatIsCarriedOut DEF OwnOrMain
<1>3. SeenIsKept' /\ WorkInHand'
  BY DEF HandOf, SeenIsKept, WorkInHand
<1>4. LateIsSound'
  BY <1>1, GrowthKeepsLate DEF PublishTypeOK
<1>5. CommitsAreOver'
  <2> SUFFICES ASSUME NEW b \in Refs, NEW a \in Attempts \cap refs'[b]
               PROVE  Whole(a)' /\ call'[a] \in Over /\ a \in refs'[BranchOf[a]]
    BY DEF CommitsAreOver
  <2>1. CASE a \in refs[b] \cup refs[Main]
    BY <1>1, <2>1 DEF CommitsAreOver, Refs
  <2>2. CASE a \notin refs[b] \cup refs[Main]
    BY <1>1, <2>2, WhatIsCarriedOut
  <2> QED
    BY <2>1, <2>2
<1>6. PullsHaveWork'
  <2>1. ASSUME NEW b \in Branches, pulls'[b] # "none"
        PROVE  \E w \in refs'[b] \cap Attempts : BranchOf[w] = b
    <3>1. CASE pulls[b] # "none"
      BY <1>1, <3>1 DEF PullsHaveWork
    <3>2. CASE pulls[b] = "none"
      <4>1. PullAccepted(b)
        BY <2>1, <3>2 DEF CarryOut, PublishTypeOK, Fits, Requests
      <4>2. PICK w \in refs[b] : w \notin refs[Main]
        BY <4>1 DEF PullAccepted
      <4> QED
        BY <1>1, <4>2 DEF OwnOrMain
    <3> QED
      BY <3>1, <3>2
  <2>2. \A a \in Attempts : pr_url'[a] = "url" => pulls'[BranchOf[a]] # "none"
    BY <1>1 DEF PullsHaveWork
  <2> QED
    BY <2>1, <2>2 DEF PullsHaveWork
<1> QED
  BY <1>2, <1>3, <1>4, <1>5, <1>6 DEF AnnouncedAtEnd

\* The requests with which an attempt changes GitHub.
LEMMA ChangeKeepsInv ==
  ASSUME PublishInv, NEW a \in Attempts,
         CreateRef(a) \/ MoveRef(a) \/ OpenPull(a)
  PROVE  PublishInv'
<1> USE BranchAssumption DEF PublishInv
<1> DEFINE q == RequestOf(a)
<1>1. Sending(a) /\ CarryOut(q) /\ q \in Requests
      /\ q.kind = call[a] /\ q.branch = BranchOf[a]
  BY RequestTyped DEF CreateRef, MoveRef, OpenPull, Sending, RequestOf
<1>2. q.kind = "ref" => q.history = seen[a]
  BY DEF RequestOf
<1>3. q.kind = "move" => q.history = seen[a] \cup {a}
  BY DEF RequestOf
<1> HIDE DEF q
<1>4. /\ refs' \in [Refs -> SUBSET Commits]
      /\ pulls' \in [Branches -> {"none", "open", "merged"}]
      /\ \A b \in Refs : refs[b] \subseteq refs'[b]
  BY <1>1, CarryOutGrows
<1>5. HandOf(a) /\ \A c \in Attempts : HandOf(c) /\ BranchOf[c] \in Refs
  BY HandOfAll DEF Refs
<1>6. Main \in Refs
  BY DEF Refs
<1>7. CASE CreateRef(a)
  <2>1. PublishTypeOK'
    BY <1>4, <1>7
       DEF CreateRef, Goto, PublishTypeOK, Refs, Calls, CreateBranchCalls
  <2>2. \A c \in Attempts : HandOf(c)'
    BY <1>4, <1>5, <1>6, <1>7
       DEF HandOf, CreateRef, Goto, PublishTypeOK, Whole
  <2>3. Fits(q)
    BY <1>1, <1>2, <1>5, <1>7 DEF Fits, HandOf, CreateRef
  <2> QED
    BY <1>1, <1>7, <2>1, <2>2, <2>3, CarriedOutKeepsInv
       DEF CreateRef, Goto, PublishTypeOK, Over, AnnouncedAtEnd, Ended
<1>8. CASE MoveRef(a)
  <2>1. PublishTypeOK'
    BY <1>4, <1>8 DEF MoveRef, Goto, ForgetLocals, PublishTypeOK, Refs, Calls
  <2>2. \A c \in Attempts : HandOf(c)'
    BY <1>4, <1>5, <1>6, <1>8
       DEF HandOf, MoveRef, Goto, ForgetLocals, PublishTypeOK, Whole
  <2>3. Fits(q)
    BY <1>1, <1>3, <1>5, <1>8
       DEF Fits, HandOf, MoveRef, MoveOf, Goto, PublishTypeOK, Over
  <2> QED
    BY <1>1, <1>8, <2>1, <2>2, <2>3, CarriedOutKeepsInv
       DEF MoveRef, Goto, PublishTypeOK, Over, AnnouncedAtEnd, Ended
<1>9. CASE OpenPull(a)
  <2>1. PublishTypeOK'
    BY <1>4, <1>9 DEF OpenPull, Goto, PublishTypeOK, Refs, Calls
  <2>2. \A c \in Attempts : HandOf(c)'
    BY <1>4, <1>5, <1>6, <1>9 DEF HandOf, OpenPull, Goto, PublishTypeOK, Whole
  <2>3. Fits(q)
    BY <1>1, <1>9 DEF Fits, OpenPull
  <2>4. pulls'[BranchOf[a]] = "open"
    BY <1>1, <1>9 DEF CarryOut, OpenPull, PublishTypeOK
  <2> QED
    BY <1>1, <1>9, <2>1, <2>2, <2>3, <2>4, CarriedOutKeepsInv
       DEF OpenPull, Goto, PublishTypeOK, Over, AnnouncedAtEnd, Ended
<1> QED
  BY <1>7, <1>8, <1>9

\* The steps of GitHub and of others on it.
LEMMA GitHubKeepsInv ==
  ASSUME PublishInv, GitHub
  PROVE  PublishInv'
<1> USE BranchAssumption, MainAssumption DEF PublishInv
<1>1. ASSUME NEW q \in late, LateRequest(q)
      PROVE  PublishInv'
  <2>1. q \in Requests /\ CarryOut(q)
    BY <1>1 DEF LateRequest, PublishTypeOK
  <2>2. Fits(q)
    BY <1>1, <2>1 DEF Fits, LateIsSound, LateRequest
  <2>3. PublishTypeOK'
    BY <1>1, <2>1, CarryOutGrows DEF LateRequest, PublishTypeOK, Refs
  <2>4. \A a \in Attempts : HandOf(a)'
    BY <1>1, <2>1, CarryOutGrows, GrowthKeepsHands DEF LateRequest
  <2> QED
    BY <1>1, <2>1, <2>2, <2>3, <2>4, CarriedOutKeepsInv
       DEF LateRequest, AnnouncedAtEnd
<1>2. ASSUME PushMain \/ \E b \in Branches : MergePull(b)
      PROVE  PublishInv'
  <2>1. PICK more \in SUBSET Commits :
          /\ refs' = [refs EXCEPT ![Main] = @ \cup more]
          /\ \A a \in Attempts \cap more : \E b \in Refs : a \in refs[b]
    <3>1. CASE PushMain
      <4>1. PICK n \in 1 .. MainPushes :
              refs' = [refs EXCEPT ![Main] = @ \cup {n}]
        BY <3>1 DEF PushMain
      <4>2. n \in Commits /\ n \notin Attempts
        BY PushesAssumption, NamesAssumption DEF Commits
      <4>3. {n} \in SUBSET Commits /\ Attempts \cap {n} = {}
        BY <4>2
      <4> QED
        BY <4>1, <4>3
    <3>2. CASE \E b \in Branches : MergePull(b)
      <4>1. PICK b \in Branches : refs' = [refs EXCEPT ![Main] = @ \cup refs[b]]
        BY <3>2 DEF MergePull
      <4>2. refs[b] \in SUBSET Commits /\ b \in Refs
        BY DEF PublishTypeOK, Refs
      <4>3. \A a \in Attempts \cap refs[b] : \E c \in Refs : a \in refs[c]
        BY <4>2
      <4> QED
        BY <4>1, <4>2, <4>3, Zenon
    <3> QED
      BY <1>2, <3>1, <3>2
  <2>2. /\ UNCHANGED <<call, files, seen, blobs, tree, pr_url, late>>
        /\ pulls' \in [Branches -> {"none", "open", "merged"}]
        /\ \A b \in Branches : pulls'[b] # "none" <=> pulls[b] # "none"
    BY <1>2 DEF PushMain, MergePull, PublishTypeOK
  <2>3. /\ \A b \in Refs : refs[b] \subseteq refs'[b]
        /\ \A b \in Branches : refs'[b] = refs[b]
        /\ refs'[Main] = refs[Main] \cup more
        /\ \A a \in Attempts : BranchOf[a] \in Branches
        /\ \A a \in Attempts : Whole(a) => Whole(a)'
    BY <2>1, <2>2 DEF PublishTypeOK, Refs, Whole
  <2>4. PublishTypeOK'
    BY <2>1, <2>2 DEF PublishTypeOK
  <2>5. OwnOrMain' /\ PullsHaveWork' /\ AnnouncedAtEnd'
    BY <2>2, <2>3 DEF OwnOrMain, PullsHaveWork, AnnouncedAtEnd
  <2>6. SeenIsKept' /\ WorkInHand'
    BY <2>2, <2>3, GrowthKeepsHands DEF HandOf, SeenIsKept, WorkInHand
  <2>7. LateIsSound'
    BY <2>2, <2>3, GrowthKeepsLate DEF PublishTypeOK
  <2>8. CommitsAreOver'
    BY <2>1, <2>2, <2>3 DEF CommitsAreOver, Refs
  <2> QED
    BY <2>4, <2>5, <2>6, <2>7, <2>8
<1> QED
  BY <1>1, <1>2 DEF GitHub

\* A crash: requests on their way stay what they are.
LEMMA KillKeepsInv ==
  ASSUME PublishInv, NEW A \in SUBSET Attempts, KillAttempts(A)
  PROVE  PublishInv'
<1> USE BranchAssumption DEF PublishInv
<1>1. PICK lost \in SUBSET {a \in A : Sending(a)} :
        late' = late \cup {RequestOf(a) : a \in lost}
  BY DEF KillAttempts
<1>2. /\ UNCHANGED <<files, tree, pr_url, refs, pulls>>
      /\ \A a \in Attempts :
           IF a \in A
             THEN call'[a] = "killed" /\ seen'[a] = {} /\ blobs'[a] = {}
             ELSE call'[a] = call[a] /\ seen'[a] = seen[a] /\ blobs'[a] = blobs[a]
  BY DEF KillAttempts
<1>3. PublishTypeOK'
  <2>1. {RequestOf(a) : a \in lost} \subseteq Requests
    BY RequestTyped
  <2> QED
    BY <1>1, <2>1 DEF KillAttempts, PublishTypeOK, Calls
<1>4. OwnOrMain' /\ PullsHaveWork' /\ AnnouncedAtEnd'
  BY <1>2 DEF OwnOrMain, PullsHaveWork, AnnouncedAtEnd, Ended
<1>5. \A a \in Attempts : HandOf(a)'
  BY <1>2, HandOfAll DEF HandOf, Whole
<1>6. \A a \in Attempts : Whole(a) <=> Whole(a)'
  BY <1>2 DEF Whole
<1>7. \A a \in Attempts : call[a] \in Over \/ a \in A => call'[a] \in Over
  BY <1>2 DEF Over
<1>8. CommitsAreOver'
  BY <1>2, <1>6, <1>7 DEF CommitsAreOver
<1>9. LateIsSound'
  <2> SUFFICES ASSUME NEW q \in late'
               PROVE  /\ q.kind = "ref" => q.history \subseteq refs[Main]
                      /\ q.kind = "move" =>
                           \E c \in Attempts : MoveOf(c, q)' /\ call'[c] \in Over
    BY <1>2 DEF LateIsSound
  <2>1. \A c \in Attempts : MoveOf(c, q) => MoveOf(c, q)'
    BY <1>2, <1>6 DEF MoveOf
  <2>2. CASE q \in late
    BY <1>7, <2>1, <2>2 DEF LateIsSound
  <2>3. CASE q \notin late
    <3>1. PICK a \in A : Sending(a) /\ q = RequestOf(a)
      BY <1>1, <2>3
    <3>2. CASE call[a] = "ref"
      BY <3>1, <3>2 DEF RequestOf, SeenIsKept
    <3>3. CASE call[a] = "move"
      <4>1. /\ q.kind = "move"
            /\ q.branch = BranchOf[a]
            /\ q.history = seen[a] \cup {a}
        BY <3>1, <3>3 DEF RequestOf
      <4>2. Whole(a) /\ seen[a] \subseteq refs[BranchOf[a]]
        BY <3>3 DEF WorkInHand, SeenIsKept
      <4> QED
        BY <1>7, <2>1, <4>1, <4>2 DEF MoveOf
    <3>4. CASE call[a] = "pull"
      BY <3>1, <3>4 DEF RequestOf
    <3> QED
      BY <3>1, <3>2, <3>3, <3>4 DEF Sending
  <2> QED
    BY <2>2, <2>3
<1> QED
  BY <1>3, <1>4, <1>5, <1>8, <1>9 DEF HandOf, SeenIsKept, WorkInHand
-----------------------------------------------------------------------------
(* The invariant of Delivery, and what follows from it.                    *)

\* The invariant of the publication holds while others move.
LEMMA StutterKeepsInv ==
  ASSUME PublishInv, UNCHANGED publishVars
  PROVE  PublishInv'
<1> USE DEF PublishInv, publishVars
<1>1. PublishTypeOK' /\ OwnOrMain' /\ AnnouncedAtEnd'
  BY DEF PublishTypeOK, OwnOrMain, AnnouncedAtEnd
<1>2. SeenIsKept' /\ WorkInHand' /\ PullsHaveWork'
  BY DEF SeenIsKept, WorkInHand, PullsHaveWork, Whole
<1>3. LateIsSound' /\ CommitsAreOver'
  BY DEF LateIsSound, CommitsAreOver, Whole, MoveOf
<1> QED
  BY <1>1, <1>2, <1>3

\* Every step of Delivery keeps the invariant.
LEMMA InvStep == IInv /\ [Next]_vars => IInv'
<1> SUFFICES ASSUME PublishInv, SandboxInv, [Next]_vars
             PROVE  PublishInv' /\ SandboxInv'
  BY DEF IInv
<1>1. ASSUME NEW t \in Testers, Test(t)
      PROVE  PublishInv' /\ SandboxInv'
  BY <1>1, StutterKeepsInv, TesterKeepsInv DEF Test
<1>2. CASE TestersTurn \/ DockersTurn
  BY <1>2, StutterKeepsInv, TesterKeepsInv, CallKeepsInv
     DEF TestersTurn, DockersTurn
<1>3. ASSUME NEW a \in Attempts, Document(a)
      PROVE  PublishInv' /\ SandboxInv'
  BY <1>3, AttemptKeepsInv, ChangeKeepsInv, TesterKeepsInv DEF Document, Request
<1>4. CASE Outside
  BY <1>4, GitHubKeepsInv, TesterKeepsInv DEF Outside
<1>5. CASE Crash
  BY <1>5, KillKeepsInv, TesterKeepsInv DEF Crash
<1>6. CASE UNCHANGED vars
  BY <1>6, StutterKeepsInv, TesterKeepsInv DEF vars
<1> QED
  BY <1>1, <1>2, <1>3, <1>4, <1>5, <1>6 DEF Next

\* The inductive invariant holds in every state of testing and publishing.
THEOREM InvariantHolds == Spec => []IInv
<1>1. Init => IInv
  BY PublishStarts, SandboxStarts DEF Init, IInv
<1> QED
  BY <1>1, InvStep, PTL DEF Spec

\* Every variable of Delivery keeps its type.
THEOREM TypeCorrect == Spec => []TypeOK
<1>1. IInv => TypeOK
  BY DEF IInv, TypeOK, PublishInv, SandboxInv
<1> QED
  BY <1>1, InvariantHolds, PTL

\* No branch ever reaches a commit with a part of the files only, whichever
\* requests to GitHub failed, were repeated or came late
\* (github_tool.create_commit).
THEOREM CommitsAreWhole == Spec => []PublishedCommitsAreWhole
<1>1. IInv => PublishedCommitsAreWhole
  BY DEF IInv, PublishInv, CommitsAreOver, Refs, Whole, PublishedCommitsAreWhole
<1> QED
  BY <1>1, InvariantHolds, PTL

\* The documentation agent announces a pull request only for a branch with a
\* commit made for it (documentation._try_create_pr).
THEOREM AnnouncementsHaveWork == Spec => []AnnouncedPullHasWork
<1>1. IInv => AnnouncedPullHasWork
  BY BranchAssumption DEF IInv, PublishInv, PullsHaveWork, AnnouncedPullHasWork
<1> QED
  BY <1>1, InvariantHolds, PTL

\* execute_in_sandbox leaves no container behind that Docker would have
\* removed for it, on any way out.
THEOREM NoContainerIsLeft == Spec => []ContainersAreRemoved
<1>1. IInv => ContainersAreRemoved
  BY DEF IInv, SandboxInv
<1> QED
  BY <1>1, InvariantHolds, PTL

\* The tester reports "all passed" from the sandbox only when a command of
\* the run exited with 0 (tester.run).
THEOREM PassedIsEarned == Spec => []PassedMeansExitedZero
<1>1. IInv => PassedMeansExitedZero
  BY DEF IInv, SandboxInv
<1> QED
  BY <1>1, InvariantHolds, PTL
-----------------------------------------------------------------------------
(* What a step may not do, and the promise of PullRequests.                *)

\* A step of the publication loses no commit.
LEMMA HistoryStep ==
  ASSUME PublishInv,
         \/ GitHub
         \/ \E a \in Attempts : Skip(a) \/ Begin(a) \/ Request(a)
         \/ \E A \in SUBSET Attempts : KillAttempts(A)
         \/ UNCHANGED publishVars
  PROVE  \A b \in Refs : refs[b] \subseteq refs'[b]
<1>1. CASE UNCHANGED refs
  BY <1>1
<1>2. CASE PushMain \/ \E b \in Branches : MergePull(b)
  <2>1. PICK more : refs' = [refs EXCEPT ![Main] = @ \cup more]
    BY <1>2 DEF PushMain, MergePull
  <2> QED
    BY <2>1 DEF PublishInv, PublishTypeOK, Refs
<1>3. ASSUME NEW q \in Requests, CarryOut(q)
      PROVE  \A b \in Refs : refs[b] \subseteq refs'[b]
  BY <1>3, CarryOutGrows
<1>4. ASSUME NEW a \in Attempts, CreateRef(a) \/ MoveRef(a) \/ OpenPull(a)
      PROVE  CarryOut(RequestOf(a)) /\ RequestOf(a) \in Requests
  BY <1>4, RequestTyped
     DEF CreateRef, MoveRef, OpenPull, Sending, PublishInv
<1>5. ASSUME NEW q \in late, LateRequest(q)
      PROVE  CarryOut(q) /\ q \in Requests
  BY <1>5 DEF LateRequest, PublishInv, PublishTypeOK
<1> QED
  BY <1>1, <1>2, <1>3, <1>4, <1>5
     DEF GitHub, Request, Skip, Begin, ReadBase, CheckRef, Prepare, ReadHead,
         CreateBlob, CreateTree, CreateCommit, RequestFails, RequestTimesOut,
         KillAttempts, publishVars

\* What a step of Delivery is to the publication.
LEMMA StepOfPublication ==
  ASSUME [Next]_vars
  PROVE  \/ GitHub
         \/ \E a \in Attempts : Skip(a) \/ Begin(a) \/ Request(a)
         \/ \E A \in SUBSET Attempts : KillAttempts(A)
         \/ UNCHANGED publishVars
BY DEF Next, Test, TestersTurn, DockersTurn, Document, Outside, Crash, vars

\* No branch loses a commit, main included: updates are fast-forwards
\* (github_tool.py 227-232).
THEOREM NothingIsOverwritten == Spec => HistoryIsKept
<1>1. IInv /\ [Next]_vars =>
        [\A b \in Branches \cup {Main} : refs[b] \subseteq refs'[b]]_publishVars
  BY HistoryStep, StepOfPublication DEF IInv, Refs
<1> QED
  BY <1>1, InvariantHolds, PTL DEF Spec, HistoryIsKept

\* The state of PullRequests as the publication has it.
Work == {a \in Attempts : a \in refs[BranchOf[a]]}
Opened == {b \in Branches : pulls[b] # "none"}
Announced == {a \in Attempts : pr_url[a] = "url"}

\* Each step of the publication is one of these, or shows nothing.
Published(a) == Work' = Work \cup {a} /\ UNCHANGED <<Opened, Announced>>
OpenedOn(b) ==
  /\ \E a \in Work : BranchOf[a] = b
  /\ Opened' = Opened \cup {b}
  /\ UNCHANGED Work
AnnouncedBy(a) == Announced' = Announced \cup {a}

\* They are the actions of PullRequests.
LEMMA BoardActions ==
  ASSUME \/ \E a \in Attempts : Published(a)
         \/ \E b \in Branches : OpenedOn(b) /\ UNCHANGED Announced
         \/ \E a \in Attempts : OpenedOn(BranchOf[a]) /\ AnnouncedBy(a)
         \/ UNCHANGED <<Work, Opened, Announced>>
  PROVE  [Board!BoardNext]_<<Work, Opened, Announced>>
<1>1. ASSUME NEW a \in Attempts, Published(a)
      PROVE  Board!Publish(a)
  BY <1>1 DEF Published, Board!Publish, Work, Opened, Announced
<1>2. ASSUME NEW b \in Branches, OpenedOn(b), UNCHANGED Announced
      PROVE  Board!Open(b)
  BY <1>2 DEF OpenedOn, Board!Open, Board!HasWork, Work, Opened, Announced
<1>3. ASSUME NEW a \in Attempts, OpenedOn(BranchOf[a]), AnnouncedBy(a)
      PROVE  Board!OpenAndAnnounce(a)
  BY <1>3
     DEF OpenedOn, AnnouncedBy, Board!OpenAndAnnounce, Board!HasWork, Work,
         Opened, Announced
<1> QED
  BY <1>1, <1>2, <1>3 DEF Board!BoardNext

\* What GitHub does when it carries out a request, as the board sees it.
LEMMA CarriedOutOnBoard ==
  ASSUME PublishInv, PullsHaveWork', NEW q, Fits(q), CarryOut(q)
  PROVE  /\ q.kind # "pull" =>
              /\ UNCHANGED Opened
              /\ Work' = Work \/ \E a \in Attempts : Work' = Work \cup {a}
         /\ q.kind = "pull" => OpenedOn(q.branch)
<1> USE BranchAssumption, MainAssumption
<1>1. /\ refs \in [Refs -> SUBSET Commits] /\ pulls \in [Branches -> {"none", "open", "merged"}]
      /\ q.branch \in Branches /\ q.branch \in Refs
      /\ \A a \in Attempts : BranchOf[a] \in Refs
  BY DEF PublishInv, PublishTypeOK, Refs, Fits, Requests
<1>2. CASE q.kind = "ref"
  <2>1. \A a \in Attempts : a \in refs[Main] => a \in refs[BranchOf[a]]
    BY DEF PublishInv, CommitsAreOver, Refs
  <2>2. Work' = Work
    BY <1>1, <1>2, <2>1 DEF CarryOut, Fits, Work
  <2>3. UNCHANGED Opened
    BY <1>2 DEF CarryOut, Opened
  <2> QED
    BY <1>2, <2>2, <2>3
<1>3. CASE q.kind = "move"
  <2>1. PICK a \in Attempts : MoveOf(a, q)
    BY <1>3 DEF Fits
  <2>2. refs' = [refs EXCEPT ![q.branch] = q.history]
        /\ refs[q.branch] \subseteq q.history /\ UNCHANGED pulls
    BY <1>3 DEF CarryOut, UpdateAccepted
  <2>3. \A c \in Attempts :
          /\ c \in refs[BranchOf[c]] => c \in refs'[BranchOf[c]]
          /\ c \in refs'[BranchOf[c]] => c \in refs[BranchOf[c]] \/ c = a
    BY <1>1, <2>1, <2>2 DEF MoveOf
  <2>4. Work' = Work \/ Work' = Work \cup {a}
    <3>1. CASE a \in refs'[BranchOf[a]]
      BY <2>3, <3>1 DEF Work
    <3>2. CASE a \notin refs'[BranchOf[a]]
      BY <2>3, <3>2 DEF Work
    <3> QED
      BY <3>1, <3>2
  <2> QED
    BY <1>3, <2>2, <2>4 DEF Opened
<1>4. CASE q.kind = "pull"
  <2>1. pulls' = [pulls EXCEPT ![q.branch] = "open"] /\ UNCHANGED refs
    BY <1>4 DEF CarryOut
  <2>2. pulls'[q.branch] # "none"
    BY <1>1, <2>1
  <2>3. PICK w \in refs[q.branch] \cap Attempts : BranchOf[w] = q.branch
    BY <1>1, <2>1, <2>2 DEF PullsHaveWork
  <2>4. w \in Work /\ UNCHANGED Work
    BY <2>1, <2>3 DEF Work
  <2>5. Opened' = Opened \cup {q.branch}
    BY <1>1, <2>1 DEF Opened
  <2> QED
    BY <1>4, <2>3, <2>4, <2>5 DEF OpenedOn
<1> QED
  BY <1>2, <1>3, <1>4 DEF Fits, Requests

\* Every step of the publication is a step of PullRequests or shows nothing.
LEMMA BoardStep ==
  ASSUME IInv, IInv', [Next]_vars
  PROVE  [Board!BoardNext]_<<Work, Opened, Announced>>
<1> USE DEF IInv, PublishInv
<1>1. CASE UNCHANGED <<refs, pulls, Announced>>
  BY <1>1, BoardActions DEF Work, Opened
<1>2. CASE PushMain \/ \E b \in Branches : MergePull(b)
  <2>1. PICK more : refs' = [refs EXCEPT ![Main] = @ \cup more]
    BY <1>2 DEF PushMain, MergePull
  <2>2. Work' = Work
    <3>1. \A b \in Branches : refs'[b] = refs[b]
      BY <2>1, MainAssumption DEF PublishTypeOK
    <3>2. \A c \in Attempts : refs'[BranchOf[c]] = refs[BranchOf[c]]
      BY <3>1, BranchAssumption
    <3> QED
      BY <3>2 DEF Work
  <2>3. UNCHANGED <<Opened, Announced>>
    <3>1. \A b \in Branches : pulls'[b] # "none" <=> pulls[b] # "none"
      BY <1>2 DEF PushMain, MergePull, PublishTypeOK
    <3>2. UNCHANGED pr_url
      BY <1>2 DEF PushMain, MergePull
    <3> QED
      BY <3>1, <3>2 DEF Opened, Announced
  <2> QED
    BY <2>2, <2>3, BoardActions
<1>3. ASSUME NEW q \in late, LateRequest(q)
      PROVE  [Board!BoardNext]_<<Work, Opened, Announced>>
  <2>1. Fits(q) /\ CarryOut(q) /\ q.branch \in Branches
    BY <1>3 DEF Fits, LateIsSound, LateRequest, PublishTypeOK, Requests
  <2>2. UNCHANGED Announced
    BY <1>3 DEF LateRequest, Announced
  <2> QED
    BY <2>1, <2>2, CarriedOutOnBoard, BoardActions DEF Published
<1>4. ASSUME NEW a \in Attempts, CreateRef(a) \/ MoveRef(a) \/ OpenPull(a)
      PROVE  [Board!BoardNext]_<<Work, Opened, Announced>>
  <2> DEFINE q == RequestOf(a)
  <2>1. Sending(a) /\ CarryOut(q) /\ q \in Requests
        /\ q.kind = call[a] /\ q.branch = BranchOf[a] /\ BranchOf[a] \in Branches
    BY <1>4, RequestTyped, BranchAssumption
       DEF CreateRef, MoveRef, OpenPull, Sending, RequestOf
  <2>2. q.kind = "ref" => q.history = seen[a]
    BY DEF RequestOf
  <2>3. q.kind = "move" => q.history = seen[a] \cup {a}
    BY DEF RequestOf
  <2> HIDE DEF q
  <2>4. q.kind = "move" => call'[a] = "pull"
    BY <1>4, <2>1 DEF CreateRef, MoveRef, OpenPull, Goto, PublishTypeOK
  <2>5. Fits(q)
    BY <2>1, <2>2, <2>3, <2>4 DEF Fits, SeenIsKept, WorkInHand, MoveOf, Over
  <2>6. CASE OpenPull(a)
    <3>1. Announced' = Announced \cup {a} /\ q.kind = "pull"
      <4>1. \A c \in Attempts : pr_url'[c] = "url" <=> pr_url[c] = "url" \/ c = a
        BY <2>6 DEF OpenPull, PublishTypeOK
      <4>2. q.kind = "pull"
        BY <2>1, <2>6 DEF OpenPull
      <4> QED
        BY <4>1, <4>2 DEF Announced
    <3>2. OpenedOn(q.branch)
      BY <2>5, <2>1, <3>1, CarriedOutOnBoard
    <3> QED
      BY <2>1, <3>1, <3>2, BoardActions DEF AnnouncedBy
  <2>7. CASE CreateRef(a) \/ MoveRef(a)
    <3>1. UNCHANGED Announced /\ q.kind # "pull"
      BY <2>1, <2>7 DEF CreateRef, MoveRef, Announced
    <3> QED
      BY <2>1, <2>5, <3>1, CarriedOutOnBoard, BoardActions DEF Published
  <2> QED
    BY <1>4, <2>6, <2>7
<1>5. ASSUME NEW a \in Attempts, RequestFails(a) \/ RequestTimesOut(a)
      PROVE  UNCHANGED <<refs, pulls, Announced>>
  <2>1. InCall(a) /\ ErrorResult(a)
    BY <1>5
       DEF RequestFails, RequestTimesOut, InCall, Sending, CreateBranchCalls,
           CreateCommitCalls
  <2>2. \A c \in Attempts : pr_url'[c] = "url" <=> pr_url[c] = "url"
    BY <2>1, InCallNotEnded DEF AnnouncedAtEnd, ErrorResult, PublishTypeOK
  <2> QED
    BY <1>5, <2>2 DEF RequestFails, RequestTimesOut, Announced
<1>6. ASSUME \/ \E a \in Attempts :
                  \/ Skip(a) \/ Begin(a) \/ Prepare(a)
                  \/ ReadBase(a) \/ CheckRef(a)
                  \/ ReadHead(a) \/ CreateBlob(a) \/ CreateTree(a)
                  \/ CreateCommit(a)
             \/ \E A \in SUBSET Attempts : KillAttempts(A)
             \/ UNCHANGED publishVars
      PROVE  UNCHANGED <<refs, pulls, Announced>>
  BY <1>6
     DEF Skip, Begin, Prepare, ReadBase, CheckRef, ReadHead, CreateBlob,
         CreateTree, CreateCommit, KillAttempts, publishVars, Announced
<1> QED
  BY <1>1, <1>2, <1>3, <1>4, <1>5, <1>6, StepOfPublication
     DEF GitHub, Request

\* Publishing keeps the promise of PullRequests: commits only appear, a pull
\* request needs one of its own branch, and only an opened one is announced.
THEOREM PublishingImplementsBoard == Spec => BoardSpec
<1>1. Init => Board!BoardInit
  BY MainAssumption, BranchAssumption
     DEF Init, PublishInit, Board!BoardInit
<1>2. IInv /\ IInv' /\ [Next]_vars =>
        [Board!BoardNext]_<<Work, Opened, Announced>>
  BY BoardStep
<1> QED
  BY <1>1, <1>2, InvariantHolds, PTL
     DEF Spec, BoardSpec, Board!BoardSpec, Work, Opened, Announced
-----------------------------------------------------------------------------
(* Calls and publications end: what they may still do is used up.          *)

\* The requests to Docker that may follow one, and the one itself.
SandboxStepsFrom(s) ==
  CASE s = "workspace" -> 9
    [] s = "connect" -> 8
    [] s = "create" -> 7
    [] s = "start" -> 6
    [] s = "wait" -> 5
    [] s = "logs" -> 4
    [] s = "reload" -> 3
    [] s = "kill" -> 2
    [] s = "remove" -> 1
    [] OTHER -> 0

SandboxStepsLeft == SandboxStepsFrom(step)

LEMMA SandboxStepsEach ==
  /\ SandboxStepsFrom("workspace") = 9 /\ SandboxStepsFrom("connect") = 8
  /\ SandboxStepsFrom("create") = 7 /\ SandboxStepsFrom("start") = 6
  /\ SandboxStepsFrom("wait") = 5 /\ SandboxStepsFrom("logs") = 4
  /\ SandboxStepsFrom("reload") = 3 /\ SandboxStepsFrom("kill") = 2
  /\ SandboxStepsFrom("remove") = 1 /\ SandboxStepsFrom("idle") = 0
BY DEF SandboxStepsFrom

\* The event loop is held by a call, and by nothing else.
LoopIsHeld == loop # Nobody <=> step # "idle"

\* A step of execute_in_sandbox comes nearer to its return, and no other step
\* but the start of a call goes back: not the command in the container, not
\* GitHub, and the process does nothing else while the loop is held.
SandboxIsLeft ==
  [][/\ TestersTurn => SandboxStepsLeft' < SandboxStepsLeft
     /\ loop # Nobody => /\ SandboxStepsLeft' \in 0 .. SandboxStepsLeft
                         /\ call' = call \/ loop' = Nobody]_vars

\* Where a step of a call goes.
LEMMA SandboxGoesOn ==
  ASSUME SandboxInv, InSandbox
  PROVE  /\ SandboxStepsFrom(step) \in 1 .. 9
         /\ SandboxStepsFrom(step') \in 0 .. SandboxStepsFrom(step) - 1
         /\ \/ loop' = loop /\ step' # "idle"
            \/ loop' = Nobody /\ step' = "idle"
<1> USE SandboxStepsEach DEF Advance, ReturnWith, ForgetCall
<1>1. CASE CheckWorkspace \/ Connect
  BY <1>1 DEF CheckWorkspace, Connect
<1>2. CASE Create \/ CreateFails
  BY <1>2 DEF Create, CreateFails
<1>3. CASE Start \/ StartFails
  BY <1>3 DEF Start, StartFails
<1>4. CASE Wait \/ WaitFails
  BY <1>4 DEF Wait, WaitFails
<1>5. CASE ReadLogs
  BY <1>5 DEF ReadLogs
<1>6. CASE Reload \/ ReloadFails
  BY <1>6 DEF Reload, ReloadFails
<1>7. CASE Kill
  BY <1>7 DEF Kill
<1>8. CASE Remove \/ RemoveFails
  BY <1>8 DEF Remove, RemoveFails
<1> QED
  BY <1>1, <1>2, <1>3, <1>4, <1>5, <1>6, <1>7, <1>8 DEF InSandbox

LEMMA HeldStep ==
  ASSUME IInv, LoopIsHeld, [Next]_vars
  PROVE  LoopIsHeld'
<1> USE DEF LoopIsHeld
<1>1. CASE TestersTurn
  BY <1>1, SandboxGoesOn, SandboxStepsEach DEF TestersTurn, IInv
<1>2. CASE \E t \in Testers : Test(t)
  BY <1>2, HandlersAssumption, TestersAssumption
  DEF Test, EnterSandbox, Analyse, callVars
<1>3. CASE DockersTurn \/ Outside \/ UNCHANGED vars
           \/ \E a \in Attempts : Document(a)
  BY <1>3 DEF DockersTurn, ContainerExits, Outside, Document, vars,
              sandboxVars, callVars
<1>4. CASE Crash
  BY <1>4 DEF Crash, KillSandbox, ForgetCall
<1> QED
  BY <1>1, <1>2, <1>3, <1>4 DEF Next

LEMMA LoopHeld == Spec => [](IInv /\ LoopIsHeld)
<1>1. Init => LoopIsHeld
  BY DEF Init, SandboxInit, LoopIsHeld
<1>2. IInv /\ LoopIsHeld /\ [Next]_vars => LoopIsHeld'
  BY HeldStep
<1> QED
  BY <1>1, <1>2, InvariantHolds, PTL DEF Spec

\* A call of the sandbox takes at most nine steps of its own, whatever Docker
\* answers and however long the command runs (sandbox_exec_tool.py 99): what is left
\* for the time limits is that each of them is taken.
THEOREM SandboxCallsAreFinite == Spec => SandboxIsLeft
<1>1. ASSUME IInv, LoopIsHeld, [Next]_vars
      PROVE  /\ TestersTurn => SandboxStepsLeft' < SandboxStepsLeft
             /\ loop # Nobody => /\ SandboxStepsLeft' \in 0 .. SandboxStepsLeft
                                 /\ call' = call \/ loop' = Nobody
  <2> USE DEF SandboxStepsLeft
  <2>1. SandboxStepsFrom(step) \in 0 .. 9
    BY <1>1, SandboxStepsEach DEF IInv, SandboxInv, SandboxTypeOK, SandboxSteps
  <2>2. CASE TestersTurn
    BY <1>1, <2>1, <2>2, SandboxGoesOn
    DEF TestersTurn, IInv, publishVars
  <2>3. CASE loop # Nobody /\ (DockersTurn \/ Outside \/ UNCHANGED vars)
    <3>1. UNCHANGED <<step, loop>>
      BY <2>3 DEF DockersTurn, ContainerExits, Outside, vars, sandboxVars,
                  callVars
    <3>2. UNCHANGED call
      BY <2>3 DEF DockersTurn, Outside, GitHub, PushMain, MergePull,
                  LateRequest, vars, publishVars
    <3>3. ~ TestersTurn \/ SandboxStepsLeft' < SandboxStepsLeft
      BY <2>2
    <3> QED
      BY <2>1, <3>1, <3>2, <2>2
  <2>4. CASE Crash
    BY <2>1, <2>2, <2>4, SandboxStepsEach DEF Crash, KillSandbox, ForgetCall
  <2>5. ASSUME loop # Nobody
        PROVE  /\ ~ \E t \in Testers : Test(t)
               /\ ~ \E a \in Attempts : Document(a)
    BY <1>1, <2>5 DEF Test, EnterSandbox, Analyse, Document
  <2>6. CASE loop = Nobody
    <3>1. ~ TestersTurn
      BY <1>1, <2>6, SandboxGoesOn, SandboxStepsEach
      DEF TestersTurn, LoopIsHeld, IInv
    <3> QED
      BY <2>6, <3>1
  <2> QED
    BY <1>1, <2>2, <2>3, <2>4, <2>5, <2>6 DEF Next
<1>2. IInv /\ LoopIsHeld /\ [Next]_vars =>
        [/\ TestersTurn => SandboxStepsLeft' < SandboxStepsLeft
         /\ loop # Nobody => /\ SandboxStepsLeft' \in 0 .. SandboxStepsLeft
                             /\ call' = call \/ loop' = Nobody]_vars
  BY <1>1
<1> QED
  BY <1>2, LoopHeld, PTL DEF Spec, SandboxIsLeft

\* The requests to GitHub that an attempt may still send, with a step for the
\* start and for the choice of what to commit.
UploadsLeft(a) == Cardinality(files[a] \ blobs[a])

PublishStepsLeft(a) ==
  CASE call[a] = "start" -> Cardinality(Files) + 10
    [] call[a] = "base" -> Cardinality(Files) + 9
    [] call[a] = "ref" -> Cardinality(Files) + 8
    [] call[a] = "check" -> Cardinality(Files) + 7
    [] call[a] = "prepare" -> Cardinality(Files) + 6
    [] call[a] = "head" -> Cardinality(Files) + 5
    [] call[a] = "blob" -> UploadsLeft(a) + 4
    [] call[a] = "tree" -> 4
    [] call[a] = "commit" -> 3
    [] call[a] = "move" -> 2
    [] call[a] = "pull" -> 1
    [] call[a] \in Ended -> 0

\* An attempt that takes a step has fewer left; no step of another attempt,
\* of a tester, of GitHub or of a crash gives it one back.
AttemptsAdvance ==
  [][\A a \in Attempts :
       /\ PublishStepsLeft(a)' \in 0 .. PublishStepsLeft(a)
       /\ Document(a) => PublishStepsLeft(a)' < PublishStepsLeft(a)]_vars

LEMMA PublishStepsAt ==
  ASSUME NEW a \in Attempts
  PROVE  /\ call[a] = "start" => PublishStepsLeft(a) = Cardinality(Files) + 10
         /\ call[a] = "base" => PublishStepsLeft(a) = Cardinality(Files) + 9
         /\ call[a] = "ref" => PublishStepsLeft(a) = Cardinality(Files) + 8
         /\ call[a] = "check" => PublishStepsLeft(a) = Cardinality(Files) + 7
         /\ call[a] = "prepare" => PublishStepsLeft(a) = Cardinality(Files) + 6
         /\ call[a] = "head" => PublishStepsLeft(a) = Cardinality(Files) + 5
         /\ call[a] = "blob" => PublishStepsLeft(a) = UploadsLeft(a) + 4
         /\ call[a] = "tree" => PublishStepsLeft(a) = 4
         /\ call[a] = "commit" => PublishStepsLeft(a) = 3
         /\ call[a] = "move" => PublishStepsLeft(a) = 2
         /\ call[a] = "pull" => PublishStepsLeft(a) = 1
         /\ call[a] \in Ended => PublishStepsLeft(a) = 0
BY DEF PublishStepsLeft, Ended

\* The same of the state after a step.
LEMMA PublishStepsThen ==
  ASSUME NEW a \in Attempts
  PROVE  /\ call'[a] = "base" => PublishStepsLeft(a)' = Cardinality(Files) + 9
         /\ call'[a] = "ref" => PublishStepsLeft(a)' = Cardinality(Files) + 8
         /\ call'[a] = "check" => PublishStepsLeft(a)' = Cardinality(Files) + 7
         /\ call'[a] = "prepare" => PublishStepsLeft(a)' = Cardinality(Files) + 6
         /\ call'[a] = "head" => PublishStepsLeft(a)' = Cardinality(Files) + 5
         /\ call'[a] = "blob" => PublishStepsLeft(a)' = UploadsLeft(a)' + 4
         /\ call'[a] = "tree" => PublishStepsLeft(a)' = 4
         /\ call'[a] = "commit" => PublishStepsLeft(a)' = 3
         /\ call'[a] = "move" => PublishStepsLeft(a)' = 2
         /\ call'[a] = "pull" => PublishStepsLeft(a)' = 1
         /\ call'[a] \in Ended => PublishStepsLeft(a)' = 0
BY DEF PublishStepsLeft, Ended

LEMMA UploadsAreFinite ==
  ASSUME IsFiniteSet(Files), PublishTypeOK, NEW a \in Attempts
  PROVE  /\ IsFiniteSet(files[a] \ blobs[a])
         /\ Cardinality(Files) \in Nat
         /\ UploadsLeft(a) \in 0 .. Cardinality(Files)
<1>1. files[a] \ blobs[a] \subseteq Files
  BY DEF PublishTypeOK
<1>2. /\ IsFiniteSet(files[a] \ blobs[a])
      /\ Cardinality(files[a] \ blobs[a]) <= Cardinality(Files)
  BY <1>1, FS_Subset
<1> QED
  BY <1>2, FS_CardinalityType DEF UploadsLeft

\* A step of an attempt.
LEMMA AttemptAdvances ==
  ASSUME IsFiniteSet(Files), PublishTypeOK, PublishTypeOK', NEW a \in Attempts,
         Skip(a) \/ Begin(a) \/ Request(a)
  PROVE  PublishStepsLeft(a)' \in Nat /\ PublishStepsLeft(a)' < PublishStepsLeft(a)
<1> USE DEF Goto
<1>0. PICK n \in Nat : n = Cardinality(Files)
  BY FS_CardinalityType
<1>a. PICK u \in 0 .. n : u = UploadsLeft(a)
  BY <1>0, UploadsAreFinite
<1>b. call \in [Attempts -> Calls] /\ blobs \in [Attempts -> SUBSET Files]
      /\ files \in [Attempts -> SUBSET Files]
  BY DEF PublishTypeOK
<1>c. UploadsLeft(a)' \in 0 .. n
  <2>1. files'[a] \ blobs'[a] \subseteq Files
    BY DEF PublishTypeOK
  <2>2. /\ IsFiniteSet(files'[a] \ blobs'[a])
        /\ Cardinality(files'[a] \ blobs'[a]) <= Cardinality(Files)
    BY <2>1, FS_Subset
  <2> QED
    BY <1>0, <2>2, FS_CardinalityType DEF UploadsLeft
<1>1. CASE Skip(a) \/ Begin(a)
  <2>1. call[a] = "start" /\ (call'[a] = "base" \/ call'[a] \in Ended)
    BY <1>1, <1>b DEF Skip, Begin, Ended
  <2> QED
    BY <1>0, <2>1, PublishStepsAt, PublishStepsThen
<1>2. CASE ReadBase(a) \/ CreateRef(a) \/ CheckRef(a) \/ Prepare(a)
  <2>1. \/ call[a] = "base" /\ call'[a] = "ref"
        \/ call[a] = "ref" /\ call'[a] = "check"
        \/ call[a] = "check" /\ call'[a] = "prepare"
        \/ call[a] = "prepare" /\ call'[a] \in Ended
        \/ call[a] = "prepare" /\ call'[a] = "head"
    BY <1>2, <1>b DEF ReadBase, CreateRef, CheckRef, Prepare, Ended
  <2> QED
    BY <1>0, <2>1, PublishStepsAt, PublishStepsThen
<1>3. CASE ReadHead(a)
  <2>1. call[a] = "head" /\ call'[a] = "blob"
    BY <1>3, <1>b DEF ReadHead
  <2> QED
    BY <1>0, <1>c, <2>1, PublishStepsAt, PublishStepsThen
<1>4. CASE CreateBlob(a)
  <2>1. PICK f \in files[a] \ blobs[a] :
          blobs' = [blobs EXCEPT ![a] = @ \cup {f}]
    BY <1>4 DEF CreateBlob
  <2>2. files'[a] \ blobs'[a] = (files[a] \ blobs[a]) \ {f}
    BY <1>4, <1>b, <2>1 DEF CreateBlob
  <2>3. Cardinality((files[a] \ blobs[a]) \ {f}) = u - 1
    BY <1>a, <2>1, UploadsAreFinite, FS_RemoveElement DEF UploadsLeft
  <2>4. UploadsLeft(a)' = u - 1
    BY <2>2, <2>3 DEF UploadsLeft
  <2>5. call[a] = "blob" /\ call'[a] \in {"tree", "blob"}
    BY <1>4, <1>b DEF CreateBlob
  <2>6. PublishStepsLeft(a) = u + 4
    BY <1>a, <2>5, PublishStepsAt
  <2>7. PublishStepsLeft(a)' = 4 \/ PublishStepsLeft(a)' = u - 1 + 4
    BY <2>4, <2>5, PublishStepsThen
  <2>8. u # 0
    BY <1>c, <2>4
  <2> QED
    BY <1>0, <1>a, <2>6, <2>7, <2>8
<1>5. CASE CreateTree(a) \/ CreateCommit(a) \/ MoveRef(a) \/ OpenPull(a)
  <2>1. \/ call[a] = "tree" /\ call'[a] = "commit"
        \/ call[a] = "commit" /\ call'[a] = "move"
        \/ call[a] = "move" /\ call'[a] = "pull"
        \/ call[a] = "pull" /\ call'[a] \in Ended
    BY <1>5, <1>b DEF CreateTree, CreateCommit, MoveRef, OpenPull, Ended
  <2> QED
    BY <2>1, PublishStepsAt, PublishStepsThen
<1>6. CASE RequestFails(a) \/ RequestTimesOut(a)
  <2>1. \/ call[a] \in {"base", "ref", "check"} /\ call'[a] = "prepare"
        \/ /\ call[a] \in {"head", "blob", "tree", "commit", "move"}
           /\ call'[a] = "pull"
        \/ call[a] = "pull" /\ call'[a] \in Ended
    BY <1>6, <1>b DEF RequestFails, RequestTimesOut, InCall, Sending,
      ErrorResult, CreateBranchCalls, CreateCommitCalls, Ended
  <2>2. call[a] \in {"head", "blob", "tree", "commit", "move"} =>
          PublishStepsLeft(a) \in Nat /\ PublishStepsLeft(a) > 1
    BY <1>0, <1>a, PublishStepsAt
  <2> QED
    BY <1>0, <2>1, <2>2, PublishStepsAt, PublishStepsThen
<1> QED
  BY <1>1, <1>2, <1>3, <1>4, <1>5, <1>6 DEF Request

\* The other steps leave an attempt where it is, or kill it.
LEMMA OthersLeaveOrKill ==
  ASSUME PublishTypeOK, [Next]_vars, NEW b \in Attempts, ~ Document(b)
  PROVE  \/ call'[b] = "killed"
         \/ /\ call'[b] = call[b] /\ files'[b] = files[b]
            /\ blobs'[b] = blobs[b]
<1> USE DEF PublishTypeOK, Goto, ForgetLocals
<1>1. ASSUME NEW a \in Attempts, a # b, Skip(a) \/ Begin(a) \/ Request(a)
      PROVE  /\ call'[b] = call[b] /\ files'[b] = files[b]
             /\ blobs'[b] = blobs[b]
  BY <1>1
  DEF Skip, Begin, Request, ReadBase, CreateRef, CheckRef, Prepare, ReadHead,
      CreateBlob, CreateTree, CreateCommit, MoveRef, OpenPull, RequestFails,
      RequestTimesOut, ErrorResult
<1>2. ASSUME UNCHANGED publishVars \/ GitHub
      PROVE  /\ call'[b] = call[b] /\ files'[b] = files[b]
             /\ blobs'[b] = blobs[b]
  BY <1>2 DEF publishVars, GitHub, PushMain, MergePull, LateRequest
<1>3. ASSUME Crash
      PROVE  \/ call'[b] = "killed"
             \/ /\ call'[b] = call[b] /\ files'[b] = files[b]
                /\ blobs'[b] = blobs[b]
  BY <1>3 DEF Crash, KillAttempts
<1> QED
  BY <1>1, <1>2, <1>3
  DEF Next, Test, TestersTurn, DockersTurn, Document, Outside, vars

\* An attempt to publish ends after so many steps as there are files, and
\* ten: a request that fails, or is given up and carried out later, is never
\* sent again (documentation.py 121, github_tool.py 176).  A run has finitely
\* many files.
THEOREM PublicationsAreFinite ==
  ASSUME IsFiniteSet(Files)
  PROVE  Spec => AttemptsAdvance
<1>1. ASSUME PublishTypeOK, PublishTypeOK', [Next]_vars, NEW a \in Attempts
      PROVE  /\ PublishStepsLeft(a)' \in 0 .. PublishStepsLeft(a)
             /\ Document(a) => PublishStepsLeft(a)' < PublishStepsLeft(a)
  <2>1. PublishStepsLeft(a) \in Nat
    <3>1. /\ Cardinality(Files) \in Nat
          /\ UploadsLeft(a) \in 0 .. Cardinality(Files)
      BY <1>1, UploadsAreFinite
    <3>2. call[a] \in Calls
      BY <1>1 DEF PublishTypeOK
    <3> QED
      BY <3>1, <3>2, PublishStepsAt
      DEF Calls, CreateBranchCalls, CreateCommitCalls, Ended
  <2>2. CASE Document(a)
    BY <1>1, <2>1, <2>2, AttemptAdvances DEF Document
  <2>3. CASE ~ Document(a)
    <3>1. call'[a] = "killed" => PublishStepsLeft(a)' = 0
      BY PublishStepsThen DEF Ended
    <3>2. call'[a] = call[a] /\ files'[a] = files[a] /\ blobs'[a] = blobs[a] =>
            PublishStepsLeft(a)' = PublishStepsLeft(a)
      BY DEF PublishStepsLeft, UploadsLeft
    <3> QED
      BY <1>1, <2>1, <2>3, <3>1, <3>2, OthersLeaveOrKill
  <2> QED
    BY <2>2, <2>3
<1>2. TypeOK /\ TypeOK' /\ [Next]_vars =>
        [\A a \in Attempts :
           /\ PublishStepsLeft(a)' \in 0 .. PublishStepsLeft(a)
           /\ Document(a) => PublishStepsLeft(a)' < PublishStepsLeft(a)]_vars
  BY <1>1 DEF TypeOK
<1> QED
  BY <1>2, TypeCorrect, PTL DEF Spec, AttemptsAdvance
=============================================================================
