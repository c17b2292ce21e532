----------------------------- MODULE Publishing -----------------------------
(***************************************************************************)
(* The end of the documentation agent: a branch, a commit and a pull       *)
(* request (documentation.py, _try_create_pr) over the GitHub tool         *)
(* (github_tool.py), one action per HTTP request.                          *)
(*                                                                         *)
(* Every tool call goes through _dispatch_tool, which turns an exception   *)
(* into an ordinary result, so a call that failed is followed by the next  *)
(* one.  A request may fail, or be given up after 30 seconds; GitHub may   *)
(* still carry out a request that was given up, at any later time.         *)
(*                                                                         *)
(* A commit is the name of who made it: an attempt, or a number for the    *)
(* pushes of others.  A reference is represented by its history, the set   *)
(* of the commits it reaches, which determines its head; {} is a reference *)
(* that does not exist.  An update is a fast-forward when the new history  *)
(* contains the old one.                                                   *)
(***************************************************************************)
EXTENDS Naturals, FiniteSets

CONSTANTS
  Attempts,       \* executions of _try_create_pr, also of the same run
  Branches,       \* names of branches ai-dev/<run_id>
  BranchOf,       \* the branch of an attempt: attempts of one run share it
  Main,           \* the name of the branch "main"
  Files,          \* files an attempt may commit, README.md included
  FileSets,       \* the lists of files a state may ask it to commit
  MainPushes,     \* bound: commits others push to main
  MaxLate         \* bound: requests given up and not yet carried out

ASSUME BranchAssumption == BranchOf \in [Attempts -> Branches]
ASSUME FilesAssumption == FileSets \subseteq SUBSET Files
ASSUME MainAssumption == Main \notin Branches
ASSUME PushesAssumption == MainPushes \in Nat
ASSUME NamesAssumption == Attempts \cap (0 .. MainPushes) = {}

VARIABLES
  call,       \* the request an attempt is about to send
  files,      \* commit_files: what the attempt wants to commit
  seen,       \* the history of the last branch it has read
  blobs,      \* the files it has uploaded
  tree,       \* the files in the tree of its commit
  pr_url,     \* state["pr_url"]
  refs,       \* GitHub: the history of every branch
  pulls,      \* GitHub: the pull request of every branch
  late        \* requests that were given up and may still be carried out

publishVars == <<call, files, seen, blobs, tree, pr_url, refs, pulls, late>>

Commits == Attempts \cup 0 .. MainPushes

Requests ==
  [kind : {"ref", "move", "pull"}, branch : Branches, history : SUBSET Commits]

CreateBranchCalls == {"base", "ref", "check"}
CreateCommitCalls == {"head", "blob", "tree", "commit", "move"}
Calls == {"start", "prepare", "pull", "end", "killed"}
           \cup CreateBranchCalls \cup CreateCommitCalls

PublishTypeOK ==
  /\ call \in [Attempts -> Calls]
  /\ files \in [Attempts -> SUBSET Files]
  /\ seen \in [Attempts -> SUBSET Commits]
  /\ blobs \in [Attempts -> SUBSET Files]
  /\ tree \in [Attempts -> SUBSET Files]
  /\ pr_url \in [Attempts -> {"unset", "", "url"}]
  /\ refs \in [Branches \cup {Main} -> SUBSET Commits]
  /\ pulls \in [Branches -> {"none", "open", "merged"}]
  /\ late \in SUBSET Requests

PublishInit ==
  /\ call = [a \in Attempts |-> "start"]
  /\ files = [a \in Attempts |-> {}]
  /\ seen = [a \in Attempts |-> {}]
  /\ blobs = [a \in Attempts |-> {}]
  /\ tree = [a \in Attempts |-> {}]
  /\ pr_url = [a \in Attempts |-> "unset"]
  /\ refs = [b \in Branches \cup {Main} |-> IF b = Main THEN {0} ELSE {}]
  /\ pulls = [b \in Branches |-> "none"]
  /\ late = {}

-----------------------------------------------------------------------------
(***************************************************************************)
(* GitHub.                                                                 *)
(***************************************************************************)

\* Seeded fault: the update of the branch is forced.
ForcedUpdate(b, history) == refs[b] # {}

\* The PATCH carries a sha and no "force": only a fast-forward is accepted.
UpdateAccepted(b, history) == refs[b] # {} /\ refs[b] \subseteq history

\* A pull request needs a branch with commits main does not have, and there
\* is at most one open pull request for a branch.
PullAccepted(b) ==
  /\ ~ refs[b] \subseteq refs[Main]
  /\ pulls[b] # "open"

CarryOut(q) ==
  \/ /\ q.kind = "ref"
     /\ refs[q.branch] = {}
     /\ refs' = [refs EXCEPT ![q.branch] = q.history]
     /\ UNCHANGED pulls
  \/ /\ q.kind = "move"
     /\ UpdateAccepted(q.branch, q.history)
     /\ refs' = [refs EXCEPT ![q.branch] = q.history]
     /\ UNCHANGED pulls
  \/ /\ q.kind = "pull"
     /\ PullAccepted(q.branch)
     /\ pulls' = [pulls EXCEPT ![q.branch] = "open"]
     /\ UNCHANGED refs

\* The request an attempt that is about to change GitHub sends.
RequestOf(a) ==
  [kind |-> call[a],
   branch |-> BranchOf[a],
   history |-> CASE call[a] = "ref" -> seen[a]
                 [] call[a] = "move" -> seen[a] \cup {a}
                 [] OTHER -> {}]

Sending(a) == call[a] \in {"ref", "move", "pull"}

\* Others push to main, or merge a pull request.
PushMain ==
  /\ \E n \in 1 .. MainPushes :
       n \notin refs[Main] /\ refs' = [refs EXCEPT ![Main] = @ \cup {n}]
  /\ UNCHANGED <<call, files, seen, blobs, tree, pr_url, pulls, late>>

MergePull(b) ==
  /\ pulls[b] = "open"
  /\ pulls' = [pulls EXCEPT ![b] = "merged"]
  /\ refs' = [refs EXCEPT ![Main] = @ \cup refs[b]]
  /\ UNCHANGED <<call, files, seen, blobs, tree, pr_url, late>>

\* A request that was given up is carried out, or refused by GitHub.
LateRequest(q) ==
  /\ q \in late
  /\ CarryOut(q)
  /\ late' = late \ {q}
  /\ UNCHANGED <<call, files, seen, blobs, tree, pr_url>>
-----------------------------------------------------------------------------
(***************************************************************************)
(* The attempt.                                                            *)
(***************************************************************************)

Goto(a, next) == call' = [call EXCEPT ![a] = next]

\* No token, or no repository in the state: nothing is published.
Skip(a) ==
  /\ call[a] = "start"
  /\ Goto(a, "end")
  /\ UNCHANGED <<files, seen, blobs, tree, pr_url, refs, pulls, late>>

\* files_changed with content, and the documentation if there is any.
Begin(a) ==
  /\ call[a] = "start"
  /\ \E fs \in FileSets : files' = [files EXCEPT ![a] = fs]
  /\ Goto(a, "base")
  /\ UNCHANGED <<seen, blobs, tree, pr_url, refs, pulls, late>>

\* create_branch and create_commit return: their variables are gone.
ForgetLocals(a) ==
  /\ seen' = [seen EXCEPT ![a] = {}]
  /\ blobs' = [blobs EXCEPT ![a] = {}]

\* create_branch: read main, create the reference, read the new branch.
ReadBase(a) ==
  /\ call[a] = "base"
  /\ seen' = [seen EXCEPT ![a] = refs[Main]]
  /\ Goto(a, "ref")
  /\ UNCHANGED <<files, blobs, tree, pr_url, refs, pulls, late>>

CreateRef(a) ==
  /\ call[a] = "ref"
  /\ CarryOut(RequestOf(a))
  /\ Goto(a, "check")
  /\ UNCHANGED <<files, seen, blobs, tree, pr_url, late>>

CheckRef(a) ==
  /\ call[a] = "check"
  /\ refs[BranchOf[a]] # {}
  /\ Goto(a, "prepare")
  /\ ForgetLocals(a)
  /\ UNCHANGED <<files, tree, pr_url, refs, pulls, late>>

\* Nothing to commit: the attempt leaves a branch and no pull request.
Prepare(a) ==
  /\ call[a] = "prepare"
  /\ Goto(a, IF files[a] = {} THEN "end" ELSE "head")
  /\ UNCHANGED <<files, seen, blobs, tree, pr_url, refs, pulls, late>>

\* create_commit: head of the branch, a blob per file, tree, commit, update.
ReadHead(a) ==
  /\ call[a] = "head"
  /\ refs[BranchOf[a]] # {}
  /\ seen' = [seen EXCEPT ![a] = refs[BranchOf[a]]]
  /\ Goto(a, "blob")
  /\ UNCHANGED <<files, blobs, tree, pr_url, refs, pulls, late>>

CreateBlob(a) ==
  /\ call[a] = "blob"
  /\ \E f \in files[a] \ blobs[a] :
       /\ blobs' = [blobs EXCEPT ![a] = @ \cup {f}]
       /\ Goto(a, IF files[a] \subseteq blobs[a] \cup {f} THEN "tree" ELSE "blob")
  /\ UNCHANGED <<files, seen, tree, pr_url, refs, pulls, late>>

CreateTree(a) ==
  /\ call[a] = "tree"
  /\ tree' = [tree EXCEPT ![a] = blobs[a]]
  /\ Goto(a, "commit")
  /\ UNCHANGED <<files, seen, blobs, pr_url, refs, pulls, late>>

CreateCommit(a) ==
  /\ call[a] = "commit"
  /\ Goto(a, "move")
  /\ UNCHANGED <<files, seen, blobs, tree, pr_url, refs, pulls, late>>

MoveRef(a) ==
  /\ call[a] = "move"
  /\ CarryOut(RequestOf(a))
  /\ Goto(a, "pull")
  /\ ForgetLocals(a)
  /\ UNCHANGED <<files, tree, pr_url, late>>

\* create_pull_request answers: its url goes into the state.
OpenPull(a) ==
  /\ call[a] = "pull"
  /\ CarryOut(RequestOf(a))
  /\ pr_url' = [pr_url EXCEPT ![a] = "url"]
  /\ Goto(a, "end")
  /\ UNCHANGED <<files, seen, blobs, tree, late>>

\* Seeded fault: a url is made up when the tool returned none.
AnnounceAlways(a) ==
  /\ pr_url' = [pr_url EXCEPT ![a] = IF call[a] = "pull" THEN "url" ELSE @]
  /\ Goto(a, CASE call[a] \in CreateBranchCalls -> "prepare"
               [] call[a] \in CreateCommitCalls -> "pull"
               [] OTHER -> "end")
  /\ ForgetLocals(a)

\* Seeded fault: a blob that failed is left out, and the commit made.
GoOnWithoutBlob(a) ==
  /\ pr_url' = [pr_url EXCEPT ![a] = IF call[a] = "pull" THEN "" ELSE @]
  /\ Goto(a, CASE call[a] \in CreateBranchCalls -> "prepare"
               [] call[a] = "blob" -> "tree"
               [] call[a] \in CreateCommitCalls -> "pull"
               [] OTHER -> "end")
  /\ IF call[a] = "blob" THEN UNCHANGED <<seen, blobs>> ELSE ForgetLocals(a)

\* Seeded fault: a failed update is sent again, with no limit.
RetryUpdate(a) ==
  /\ pr_url' = [pr_url EXCEPT ![a] = IF call[a] = "pull" THEN "" ELSE @]
  /\ Goto(a, CASE call[a] \in CreateBranchCalls -> "prepare"
               [] call[a] = "move" -> "head"
               [] call[a] \in CreateCommitCalls -> "pull"
               [] OTHER -> "end")
  /\ ForgetLocals(a)

\* An exception in a request ends its tool call; the agent gets a result
\* without the expected fields and goes on with the next call.
ErrorResult(a) ==
  /\ pr_url' = [pr_url EXCEPT ![a] = IF call[a] = "pull" THEN "" ELSE @]
  /\ Goto(a, CASE call[a] \in CreateBranchCalls -> "prepare"
               [] call[a] \in CreateCommitCalls -> "pull"
               [] OTHER -> "end")
  /\ ForgetLocals(a)

InCall(a) == call[a] \in CreateBranchCalls \cup CreateCommitCalls \cup {"pull"}

\* GitHub refuses the request, or cannot be reached.
RequestFails(a) ==
  /\ InCall(a)
  /\ ErrorResult(a)
  /\ UNCHANGED <<files, tree, refs, pulls, late>>

\* No answer within 30 seconds: the request may be carried out later.
RequestTimesOut(a) ==
  /\ Sending(a)
  /\ Cardinality(late) < MaxLate
  /\ late' = late \cup {RequestOf(a)}
  /\ ErrorResult(a)
  /\ UNCHANGED <<files, tree, refs, pulls>>

\* The process dies in the middle of the attempts in A.
KillAttempts(A) ==
  /\ call' = [a \in Attempts |-> IF a \in A THEN "killed" ELSE call[a]]
  /\ seen' = [a \in Attempts |-> IF a \in A THEN {} ELSE seen[a]]
  /\ blobs' = [a \in Attempts |-> IF a \in A THEN {} ELSE blobs[a]]
  /\ \E lost \in SUBSET {a \in A : Sending(a)} :
       /\ Cardinality(late) + Cardinality(lost) <= MaxLate
       /\ late' = late \cup {RequestOf(a) : a \in lost}
  /\ UNCHANGED <<files, tree, pr_url, refs, pulls>>

Request(a) ==
  \/ ReadBase(a) \/ CreateRef(a) \/ CheckRef(a)
  \/ Prepare(a)
  \/ ReadHead(a) \/ CreateBlob(a) \/ CreateTree(a) \/ CreateCommit(a)
  \/ MoveRef(a) \/ OpenPull(a)
  \/ RequestFails(a) \/ RequestTimesOut(a)

GitHub ==
  \/ PushMain
  \/ \E b \in Branches : MergePull(b)
  \/ \E q \in late : LateRequest(q)
-----------------------------------------------------------------------------
(***************************************************************************)
(* Properties.                                                             *)
(***************************************************************************)

\* A commit of an attempt that a branch reaches has every file the attempt
\* was to commit: github_tool.create_commit never publishes a part of them,
\* whichever request failed.
PublishedCommitsAreWhole ==
  \A b \in Branches \cup {Main} : \A a \in Attempts \cap refs[b] :
    files[a] # {} /\ tree[a] = files[a]

\* When the agent announces a pull request (documentation.py 213-217), its
\* branch holds a commit made for this run, although the agent asks for the
\* pull request even after a failed commit.
AnnouncedPullHasWork ==
  \A a \in Attempts : pr_url[a] = "url" =>
    \E w \in refs[BranchOf[a]] \cap Attempts : BranchOf[w] = BranchOf[a]

\* No branch, main included, ever loses a commit: a second attempt of the
\* same run does not overwrite the work of the first (github_tool.py 228).
HistoryIsKept ==
  [][\A b \in Branches \cup {Main} : refs[b] \subseteq refs'[b]]_publishVars

Board ==
  INSTANCE PullRequests
    WITH work <- {a \in Attempts : a \in refs[BranchOf[a]]},
         opened <- {b \in Branches : pulls[b] # "none"},
         announced <- {a \in Attempts : pr_url[a] = "url"}

\* Publishing keeps the promise of PullRequests.
BoardSpec == Board!BoardSpec
=============================================================================
