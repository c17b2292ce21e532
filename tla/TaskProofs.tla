----------------------------- MODULE TaskProofs -----------------------------
(***************************************************************************)
(* Proofs about TaskRequests, for any sets of requests, models and paths.  *)
(*                                                                         *)
(* Nothing but the commit of its own session stores something for a        *)
(* request, and nothing but the end of its handler follows the commit.     *)
(* The inductive invariant says for each request how far it may be when    *)
(* its client has an answer, when its run is stored, and when its seed     *)
(* rows are.                                                               *)
(***************************************************************************)
EXTENDS TaskRequests, FiniteSetTheorems, TLAPS

\* A client has an answer only when its handler is done, and an error only
\* if nothing is stored or the handler is in doubt.
AnswerInv(r) ==
  /\ answer[r] = "error" => \/ pc[r] = "end" /\ runs[r] = "none"
                            \/ pc[r] = "in_doubt"
  /\ pc[r] \notin {"commit"} \cup Over => answer[r] = "none"

\* A run is stored by the last step of its handler, with its files.
StoreInv(r) ==
  /\ runs[r] # "none" => /\ pc[r] \in Over
                         /\ runs[r] = "completed"
                         /\ changes[r] = files_changed[r]
                         /\ pc[r] = "end" => answer[r] = "created"
  /\ runs[r] = "none" => changes[r] = {}

\* What the handler knows of its run when it comes to write it.
FlowInv(r) ==
  /\ pc[r] = "flush" => status[r] # "planning"
  /\ pc[r] = "commit" => run_row[r] = "completed"
  /\ workspace[r] \subseteq files_changed[r]

\* The seed rows of a request are stored with its run, all or none; a handler
\* that did not seed has seen a row, and rows are never deleted.
SeedInv(r) ==
  /\ (\E row \in SeedRows(r) : profiles[row] # "absent") =>
       /\ runs[r] # "none"
       /\ \A row \in SeedRows(r) : profiles[row] # "absent"
  /\ pc[r] = "select" /\ ~seeding[r] => Stored # {}

RequestInv(r) == AnswerInv(r) /\ StoreInv(r) /\ FlowInv(r) /\ SeedInv(r)

IInv == TypeOK /\ \A r \in Requests : RequestInv(r)

-----------------------------------------------------------------------------
\* A seed row is a row.
LEMMA SeedRowsAreRows ==
  ASSUME NEW r \in Requests
  PROVE  SeedRows(r) \subseteq Rows
BY DEF SeedRows, Rows

\* Seed rows name the request that inserted them.
LEMMA SeedRowsApart ==
  ASSUME NEW r \in Requests, NEW s \in Requests, r # s
  PROVE  SeedRows(r) \cap SeedRows(s) = {}
BY DEF SeedRows

\* A commit adds the seed rows of the request and changes no other row.
LEMMA CommitOfSeeds ==
  ASSUME TypeOK, NEW r \in Requests, profiles' = WithSeeds(r)
  PROVE  /\ profiles' \in [Rows -> ProfileState]
         /\ \A row \in Rows \ SeedRows(r) : profiles'[row] = profiles[row]
         /\ seeding[r] => \A row \in SeedRows(r) : profiles'[row] # "absent"
         /\ ~seeding[r] => profiles' = profiles
         /\ \A row \in Rows : profiles[row] # "absent" => profiles'[row] # "absent"
BY SeedRowsAreRows DEF TypeOK, WithSeeds, ProfileState

\* The candidates of a session are rows.
LEMMA CodeRowsAreRows ==
  ASSUME NEW r \in Requests
  PROVE  CodeRows(r) \subseteq Rows
BY ModelsAssumption DEF CodeRows, Rows

-----------------------------------------------------------------------------
(* Type correctness.                                                       *)

\* The initial state has the types.
LEMMA TypeInit == Init => TypeOK
BY DEF Init, TypeOK, ProfileState, RunRow, Steps

\* Every step of a handler keeps the types.
LEMMA TypeRequest ==
  ASSUME TypeOK, NEW r \in Requests, FlowInv(r),
         Accept(r) \/ Proceed(r) \/ DatabaseFails(r)
  PROVE  TypeOK'
<1> USE DEF TypeOK, RunRow, Steps, Over, Goto, storeVars, sessionVars, agentVars
<1>1. CASE Accept(r)
  BY <1>1 DEF Accept
<1>2. CASE Seed(r)
  BY <1>2 DEF Seed
<1>3. CASE NoModel(r)
  BY <1>3 DEF NoModel, AgentFails
<1>4. CASE SelectModels(r)
  BY <1>4, CodeRowsAreRows DEF SelectModels
<1>5. CASE CandidateFails(r)
  BY <1>5 DEF CandidateFails, AllFailed, AgentFails
<1>6. CASE CandidateAnswers(r)
  BY <1>6 DEF CandidateAnswers
<1>7. CASE WriteFile(r)
  BY <1>7 DEF WriteFile
<1>8. CASE CoderReturns(r)
  BY <1>8 DEF CoderReturns, CoderStatus
<1>9. CASE FlushResults(r)
  BY <1>9 DEF FlushResults, FlushStatus, FlowInv
<1>10. CASE TaskFails(r) \/ StatementFails(r)
  BY <1>10 DEF TaskFails, StatementFails, Fail, RollBack, CloseSession
<1>11. CASE AnswerEarly(r)
  BY <1>11 DEF AnswerEarly
<1>12. CASE Commit(r) \/ AcknowledgementLost(r)
  <2>1. profiles' \in [Rows -> ProfileState]
    BY <1>12, CommitOfSeeds DEF Commit, AcknowledgementLost, CommitSession
  <2>2. CASE Commit(r)
    BY <2>1, <2>2 DEF Commit, CommitSession, CloseSession
  <2>3. CASE AcknowledgementLost(r)
    <3>1. answer' \in [Requests -> {"none", "created", "error"}]
      BY <2>3 DEF AcknowledgementLost
    <3> QED
      BY <2>1, <2>3, <3>1
         DEF AcknowledgementLost, CommitSession, CloseSession, FlowInv
  <2> QED
    BY <1>12, <2>2, <2>3
<1> QED
  BY <1>1, <1>2, <1>3, <1>4, <1>5, <1>6, <1>7, <1>8, <1>9, <1>10, <1>11,
     <1>12 DEF Proceed, DatabaseFails

\* A crash and the steps of the administrator keep the types.
LEMMA TypeOutside ==
  ASSUME TypeOK,
         \/ Crash
         \/ \E model \in AddedModels : CreateModel(model)
         \/ \E row \in Rows : UpdateModel(row)
  PROVE  TypeOK'
<1> USE DEF TypeOK, storeVars, sessionVars, agentVars
<1>1. CASE Crash
  BY <1>1 DEF Crash, RunRow, Steps, Over
<1>2. CASE \E model \in AddedModels : CreateModel(model)
  BY <1>2 DEF CreateModel, ProfileState
<1>3. CASE \E row \in Rows : UpdateModel(row)
  BY <1>3 DEF UpdateModel, ProfileState
<1> QED
  BY <1>1, <1>2, <1>3

\* Every step keeps the types.
LEMMA TypeStep == IInv /\ [Next]_vars => TypeOK'
<1> SUFFICES ASSUME IInv, [Next]_vars PROVE TypeOK'
  OBVIOUS
<1>1. CASE UNCHANGED vars
  BY <1>1 DEF IInv, TypeOK, vars, storeVars, sessionVars, agentVars
<1>2. CASE Next
  BY <1>2, TypeRequest, TypeOutside DEF Next, IInv, RequestInv
<1> QED
  BY <1>1, <1>2

-----------------------------------------------------------------------------
(* The invariant.                                                          *)

\* Before any request is accepted nothing is stored and nobody is answered.
LEMMA RequestInit == Init => \A r \in Requests : RequestInv(r)
<1> SUFFICES ASSUME Init, NEW r \in Requests PROVE RequestInv(r)
  OBVIOUS
<1>1. AnswerInv(r) /\ StoreInv(r) /\ FlowInv(r)
  BY DEF Init, AnswerInv, StoreInv, FlowInv
<1>2. \A row \in SeedRows(r) : profiles[row] = "absent"
  BY SeedRowsAreRows DEF Init
<1>3. pc[r] = "received"
  BY DEF Init
<1> QED
  BY <1>1, <1>2, <1>3 DEF RequestInv, SeedInv

\* What a step must leave as it is for the invariant of a request to hold
\* again: everything of the request but the candidates, and the rows.
LEMMA OtherRequest ==
  ASSUME TypeOK, NEW r \in Requests, RequestInv(r),
         runs'[r] = runs[r], changes'[r] = changes[r],
         run_row'[r] = run_row[r], seeding'[r] = seeding[r],
         pc'[r] = pc[r], status'[r] = status[r],
         files_changed'[r] = files_changed[r],
         workspace'[r] = workspace[r], answer'[r] = answer[r],
         \A row \in SeedRows(r) :
           (profiles'[row] = "absent") = (profiles[row] = "absent"),
         \A row \in Rows : profiles[row] # "absent" => profiles'[row] # "absent"
  PROVE  RequestInv(r)'
<1>1. AnswerInv(r)' /\ StoreInv(r)' /\ FlowInv(r)'
  BY DEF RequestInv, AnswerInv, StoreInv, FlowInv
<1>2. SeedInv(r)'
  <2>1. Stored \subseteq Stored'
    BY DEF Stored
  <2>2. SeedRows(r)' = SeedRows(r)
    BY DEF SeedRows
  <2> QED
    BY <2>1, <2>2 DEF RequestInv, SeedInv
<1> QED
  BY <1>1, <1>2 DEF RequestInv

\* A step of the handler of r keeps the invariant of r.
LEMMA OwnStep ==
  ASSUME TypeOK, NEW r \in Requests, RequestInv(r),
         Accept(r) \/ Proceed(r) \/ DatabaseFails(r)
  PROVE  RequestInv(r)'
<1> USE DEF TypeOK, Over, Goto, storeVars, sessionVars, agentVars
<1>0. SeedRows(r)' = SeedRows(r)
  BY DEF SeedRows
<1> DEFINE Local == AnswerInv(r)' /\ StoreInv(r)' /\ FlowInv(r)'
<1>1. CASE Accept(r)
  BY <1>0, <1>1
     DEF Accept, RequestInv, AnswerInv, StoreInv, FlowInv, SeedInv
<1>2. CASE Seed(r)
  <2>1. Local
    BY <1>2 DEF Seed, RequestInv, AnswerInv, StoreInv, FlowInv
  <2>2. SeedInv(r)'
    BY <1>0, <1>2 DEF Seed, RequestInv, SeedInv, Stored
  <2> QED
    BY <2>1, <2>2 DEF RequestInv
<1>3. CASE NoModel(r)
  BY <1>0, <1>3 DEF NoModel, AgentFails,
     RequestInv, AnswerInv, StoreInv, FlowInv, SeedInv
<1>4. CASE SelectModels(r)
  BY <1>0, <1>4 DEF SelectModels,
     RequestInv, AnswerInv, StoreInv, FlowInv, SeedInv
<1>5. CASE CandidateFails(r)
  BY <1>0, <1>5 DEF CandidateFails, AllFailed, AgentFails,
     RequestInv, AnswerInv, StoreInv, FlowInv, SeedInv
<1>6. CASE CandidateAnswers(r)
  BY <1>0, <1>6 DEF CandidateAnswers,
     RequestInv, AnswerInv, StoreInv, FlowInv, SeedInv
<1>7. CASE WriteFile(r)
  BY <1>0, <1>7 DEF WriteFile,
     RequestInv, AnswerInv, StoreInv, FlowInv, SeedInv
<1>8. CASE CoderReturns(r)
  BY <1>0, <1>8 DEF CoderReturns, CoderStatus,
     RequestInv, AnswerInv, StoreInv, FlowInv, SeedInv
<1>9. CASE FlushResults(r)
  BY <1>0, <1>9 DEF FlushResults, FlushStatus,
     RequestInv, AnswerInv, StoreInv, FlowInv, SeedInv
<1>10. CASE TaskFails(r) \/ StatementFails(r)
  BY <1>0, <1>10 DEF TaskFails, StatementFails, Fail, RollBack, CloseSession,
     RequestInv, AnswerInv, StoreInv, FlowInv, SeedInv
<1>11. CASE AnswerEarly(r)
  BY <1>0, <1>11 DEF AnswerEarly,
     RequestInv, AnswerInv, StoreInv, FlowInv, SeedInv
<1>12. CASE Commit(r) \/ AcknowledgementLost(r)
  <2>1. Local
    BY <1>12 DEF Commit, AcknowledgementLost, CommitSession, CloseSession,
       RequestInv, AnswerInv, StoreInv, FlowInv
  <2>2. SeedInv(r)'
    <3>1. runs[r] = "none" /\ runs'[r] # "none" /\ pc'[r] \in Over
      BY <1>12 DEF Commit, AcknowledgementLost, CommitSession, RequestInv,
         StoreInv, FlowInv
    <3>2. \A row \in SeedRows(r) : profiles[row] = "absent"
      BY <3>1 DEF RequestInv, SeedInv
    <3>3. \/ \A row \in SeedRows(r) : profiles'[row] # "absent"
          \/ profiles' = profiles
      BY <1>12, CommitOfSeeds DEF Commit, AcknowledgementLost, CommitSession
    <3> QED
      BY <1>0, <3>1, <3>2, <3>3 DEF SeedInv
  <2> QED
    BY <2>1, <2>2 DEF RequestInv
<1> QED
  BY <1>1, <1>2, <1>3, <1>4, <1>5, <1>6, <1>7, <1>8, <1>9, <1>10, <1>11,
     <1>12 DEF Proceed, DatabaseFails

\* A step of the handler of r leaves alone what is another request's, and
\* deletes no row.
LEMMA OthersKept ==
  ASSUME TypeOK, NEW r \in Requests, NEW s \in Requests, s # r,
         RequestInv(s),
         Accept(r) \/ Proceed(r) \/ DatabaseFails(r)
  PROVE  RequestInv(s)'
<1> USE DEF Goto, storeVars, sessionVars, agentVars
<1>1. /\ runs'[s] = runs[s] /\ changes'[s] = changes[s]
      /\ run_row'[s] = run_row[s] /\ seeding'[s] = seeding[s]
      /\ pc'[s] = pc[s] /\ status'[s] = status[s]
      /\ files_changed'[s] = files_changed[s]
      /\ workspace'[s] = workspace[s] /\ answer'[s] = answer[s]
  BY DEF TypeOK, Proceed, Accept, DatabaseFails, StatementFails,
     AcknowledgementLost, Seed, NoModel, SelectModels,
     CandidateFails, CandidateAnswers, WriteFile, CoderReturns, FlushResults,
     FlushStatus, TaskFails, AnswerEarly, Commit, CommitSession,
     CloseSession, RollBack, Fail, AgentFails, AllFailed
<1>2. profiles' = profiles \/ profiles' = WithSeeds(r)
  BY DEF Proceed, Accept, DatabaseFails, StatementFails,
     AcknowledgementLost, Seed, NoModel, SelectModels,
     CandidateFails, CandidateAnswers, WriteFile, CoderReturns, FlushResults,
     FlushStatus, TaskFails, AnswerEarly, Commit, CommitSession, RollBack, Fail
<1>3. /\ \A row \in SeedRows(s) : profiles'[row] = profiles[row]
      /\ \A row \in Rows : profiles[row] # "absent" => profiles'[row] # "absent"
  BY <1>2, CommitOfSeeds, SeedRowsAreRows, SeedRowsApart
<1> QED
  BY <1>1, <1>3, OtherRequest

\* A crash and the steps of the administrator keep the invariant.
LEMMA OutsideStep ==
  ASSUME TypeOK, NEW s \in Requests, RequestInv(s),
         \/ Crash
         \/ \E model \in AddedModels : CreateModel(model)
         \/ \E row \in Rows : UpdateModel(row)
  PROVE  RequestInv(s)'
<1> USE DEF TypeOK, Over, storeVars, sessionVars, agentVars
<1>1. CASE Crash
  <2>0. SeedRows(s)' = SeedRows(s)
    BY DEF SeedRows
  <2>1. CASE s \in InProgress
    BY <1>1, <2>0, <2>1 DEF Crash, InProgress,
       RequestInv, AnswerInv, StoreInv, FlowInv, SeedInv
  <2>2. CASE s \notin InProgress
    BY <1>1, <2>2, OtherRequest DEF Crash
  <2> QED
    BY <2>1, <2>2
<1>2. CASE \E model \in AddedModels : CreateModel(model)
  <2>1. PICK model \in AddedModels : CreateModel(model)
    BY <1>2
  <2>2. <<model, Admin>> \notin SeedRows(s)
    BY AdminAssumption DEF SeedRows
  <2>3. /\ \A row \in SeedRows(s) : profiles'[row] = profiles[row]
        /\ \A row \in Rows : profiles[row] # "absent" => profiles'[row] # "absent"
    BY <2>1, <2>2, SeedRowsAreRows DEF CreateModel
  <2> QED
    BY <2>1, <2>3, OtherRequest DEF CreateModel
<1>3. CASE \E row \in Rows : UpdateModel(row)
  <2>1. PICK row \in Rows : UpdateModel(row)
    BY <1>3
  <2>2. \A other \in Rows :
          (profiles'[other] = "absent") = (profiles[other] = "absent")
    BY <2>1 DEF UpdateModel, Stored
  <2> QED
    BY <2>1, <2>2, SeedRowsAreRows, OtherRequest DEF UpdateModel
<1> QED
  BY <1>1, <1>2, <1>3

\* Every step keeps the invariant of every request.
LEMMA RequestStep == IInv /\ [Next]_vars => \A s \in Requests : RequestInv(s)'
<1> SUFFICES ASSUME IInv, [Next]_vars, NEW s \in Requests
             PROVE  RequestInv(s)'
  OBVIOUS
<1>1. TypeOK /\ RequestInv(s)
  BY DEF IInv
<1>2. CASE UNCHANGED vars
  BY <1>1, <1>2, OtherRequest DEF vars, storeVars, sessionVars, agentVars
<1>3. CASE \E r \in Requests : Accept(r) \/ Proceed(r) \/ DatabaseFails(r)
  BY <1>1, <1>3, OwnStep, OthersKept
<1>4. CASE \/ Crash
           \/ \E model \in AddedModels : CreateModel(model)
           \/ \E row \in Rows : UpdateModel(row)
  BY <1>1, <1>4, OutsideStep
<1> QED
  BY <1>2, <1>3, <1>4 DEF Next

\* The inductive invariant holds in every reachable state.
THEOREM TaskInvariance == Spec => []IInv
<1>1. Init => IInv
  BY TypeInit, RequestInit DEF IInv
<1>2. IInv /\ [Next]_vars => IInv'
  BY TypeStep, RequestStep DEF IInv
<1> QED
  BY <1>1, <1>2, PTL DEF Spec

\* Every variable of POST /tasks has its type.
THEOREM TaskTypeCorrect == Spec => []TypeOK
<1>1. IInv => TypeOK
  BY DEF IInv
<1> QED
  BY <1>1, TaskInvariance, PTL

\* A request that was answered with an error left nothing in the database,
\* unless the acknowledgement of its commit was lost (session.py 27).
THEOREM FailureIsClean == Spec => []FailureLeavesNothing
<1>1. IInv => FailureLeavesNothing
  BY DEF IInv, RequestInv, AnswerInv, StoreInv, SeedInv, FailureLeavesNothing
<1> QED
  BY <1>1, TaskInvariance, PTL

\* A stored run is completed and lists every file in its workspace.
THEOREM StoredIsWhole == Spec => []StoredRunIsWhole
<1>1. IInv => StoredRunIsWhole
  BY DEF IInv, RequestInv, StoreInv, FlowInv, StoredRunIsWhole
<1> QED
  BY <1>1, TaskInvariance, PTL

-----------------------------------------------------------------------------
(* The agent finds no model only after an administrator has acted.         *)

\* The handler that finds no model did not seed, so it saw a row; a row is
\* the administrator's or comes with the other seed rows of its request.
LEMMA NoModelSeen ==
  ASSUME IInv, NEW r \in Requests, NoModel(r)
  PROVE  \/ \E model \in AddedModels : profiles[<<model, Admin>>] # "absent"
         \/ \E row \in CodeModels \X Requests : profiles[row] = "idle"
<1>1. PICK code \in CodeModels : TRUE
  BY ModelsAssumption
<1>2. ~seeding[r]
  <2>1. CASE seeding[r]
    <3>1. <<code, r>> \in CodeRows(r)
      BY <2>1 DEF CodeRows
    <3> QED
      BY <3>1 DEF NoModel
  <2> QED
    BY <2>1 DEF IInv, TypeOK
<1>3. PICK row \in Rows : profiles[row] # "absent"
  BY <1>2 DEF IInv, RequestInv, SeedInv, NoModel, Stored
<1>4. CASE row \in AddedModels \X {Admin}
  BY <1>3, <1>4
<1>5. CASE row \in SeedModels \X Requests
  <2>1. PICK s \in Requests : row \in SeedRows(s)
    BY <1>5 DEF SeedRows
  <2>2. <<code, s>> \in SeedRows(s) /\ <<code, s>> \in Rows
    BY <1>1, <2>1, ModelsAssumption DEF SeedRows, Rows
  <2>3. profiles[<<code, s>>] # "absent"
    BY <1>3, <2>1, <2>2 DEF IInv, RequestInv, SeedInv
  <2>4. profiles[<<code, s>>] # "code"
    BY <2>2 DEF NoModel, CodeRows
  <2>5. profiles[<<code, s>>] = "idle"
    BY <2>2, <2>3, <2>4 DEF IInv, TypeOK, ProfileState
  <2> QED
    BY <1>1, <2>5
<1> QED
  BY <1>3, <1>4, <1>5 DEF Rows

\* Only NoModel gives a request the error no_model.
LEMMA OnlyNoModel ==
  ASSUME IInv, [Next]_vars, NEW r \in Requests,
         error[r] # "no_model", error'[r] = "no_model"
  PROVE  NoModel(r)
<1> USE DEF IInv, TypeOK, storeVars, sessionVars, agentVars
<1>1. PICK s \in Requests : NoModel(s) \/ CandidateFails(s)
  BY DEF vars, Next, Proceed, Accept, DatabaseFails, StatementFails,
     AcknowledgementLost, Seed, SelectModels,
     CandidateAnswers, WriteFile, CoderReturns, FlushResults, TaskFails,
     AnswerEarly, Commit, Fail, Crash, CreateModel, UpdateModel
<1>2. ~CandidateFails(s) /\ s = r
  BY <1>1 DEF NoModel, CandidateFails, AllFailed, AgentFails
<1> QED
  BY <1>1, <1>2

\* The agent finds no model for code_generation only after an administrator
\* has added a row or switched a seed row off.
THEOREM NoModelIsAdmins == Spec => NoModelMeansAdmin
<1>1. IInv /\ [Next]_vars =>
        [\A r \in Requests :
           error[r] # "no_model" /\ error'[r] = "no_model" =>
             \/ \E model \in AddedModels : profiles[<<model, Admin>>] # "absent"
             \/ \E row \in CodeModels \X Requests : profiles[row] = "idle"]_vars
  BY NoModelSeen, OnlyNoModel
<1> QED
  BY <1>1, TaskInvariance, PTL DEF Spec, NoModelMeansAdmin

-----------------------------------------------------------------------------
(* What the table of models holds, and what a call works with.             *)

\* The rows the session of r can read.
Seen(r) == Stored \cup (IF seeding[r] THEN SeedRows(r) ELSE {})

SeedsTogether ==
  \A r \in Requests : \A row, other \in SeedRows(r) :
    row \in Stored <=> other \in Stored

CandidatesExist ==
  \A r \in Requests :
    pc[r] = "call" => untried[r] # {} /\ untried[r] \subseteq Seen(r)

\* The seed rows of a request are stored all or none (registry.py 72):
\* concurrent first requests may store them twice, but nobody ever reads a
\* part of them.
THEOREM SeedsComeTogether == Spec => []SeedsTogether
<1>1. IInv => SeedsTogether
  BY SeedRowsAreRows DEF IInv, RequestInv, SeedInv, SeedsTogether, Stored
<1> QED
  BY <1>1, TaskInvariance, PTL

\* No step deletes a row.
LEMMA RowsAreKept == IInv /\ [Next]_vars => Stored \subseteq Stored'
<1> SUFFICES ASSUME IInv, [Next]_vars PROVE Stored \subseteq Stored'
  OBVIOUS
<1> USE DEF storeVars, sessionVars, agentVars
<1>1. ASSUME NEW r \in Requests, Accept(r) \/ Proceed(r) \/ DatabaseFails(r)
      PROVE  profiles' = profiles \/ profiles' = WithSeeds(r)
  BY <1>1 DEF Proceed, Accept, DatabaseFails, StatementFails,
     AcknowledgementLost, Seed, NoModel, SelectModels,
     CandidateFails, CandidateAnswers, WriteFile, CoderReturns, FlushResults,
     FlushStatus, TaskFails, AnswerEarly, Commit, CommitSession, RollBack, Fail
<1>2. ASSUME NEW r \in Requests, profiles' = WithSeeds(r)
      PROVE  Stored \subseteq Stored'
  BY <1>2, CommitOfSeeds DEF IInv, Stored
<1>3. CASE profiles' = profiles
  BY <1>3 DEF Stored
<1>4. CASE \E model \in AddedModels : CreateModel(model)
  BY <1>4 DEF CreateModel, Stored, IInv, TypeOK
<1>5. CASE \E row \in Rows : UpdateModel(row)
  BY <1>5 DEF UpdateModel, Stored, IInv, TypeOK
<1> QED
  BY <1>1, <1>2, <1>3, <1>4, <1>5 DEF Next, Crash, vars

\* A request comes to a call, or stays in it, by its own steps; the others
\* leave its candidates alone.
LEMMA HowACallGoesOn ==
  ASSUME IInv, [Next]_vars, NEW r \in Requests, pc'[r] = "call"
  PROVE  \/ SelectModels(r)
         \/ CandidateFails(r)
         \/ /\ pc[r] = "call"
            /\ untried'[r] = untried[r] /\ seeding'[r] = seeding[r]
<1> USE DEF IInv, TypeOK, Goto, storeVars, sessionVars, agentVars
<1>1. ASSUME NEW s \in Requests, Accept(s) \/ Proceed(s) \/ DatabaseFails(s),
             s # r
      PROVE  /\ pc'[r] = pc[r] /\ untried'[r] = untried[r]
             /\ seeding'[r] = seeding[r]
  BY <1>1 DEF Proceed, Accept, DatabaseFails, StatementFails,
     AcknowledgementLost, Seed, NoModel, SelectModels,
     CandidateFails, CandidateAnswers, WriteFile, CoderReturns, FlushResults,
     TaskFails, AnswerEarly, Commit, CommitSession, CloseSession, RollBack,
     Fail, AgentFails, AllFailed
<1>2. ASSUME Accept(r) \/ Proceed(r) \/ DatabaseFails(r)
      PROVE  SelectModels(r) \/ CandidateFails(r)
  BY <1>2 DEF Proceed, Accept, DatabaseFails, StatementFails,
     AcknowledgementLost, Seed, NoModel,
     CandidateAnswers, WriteFile, CoderReturns, FlushResults,
     TaskFails, AnswerEarly, Commit, Fail, AgentFails
<1>3. CASE Crash
  <2>1. pc[r] = "call" => pc'[r] = "end"
    BY <1>3 DEF Crash, InProgress, Over
  <2>2. pc'[r] \in {pc[r], "end"}
    BY <1>3 DEF Crash
  <2> QED
    BY <2>1, <2>2
<1>4. CASE \/ \E model \in AddedModels : CreateModel(model)
           \/ \E row \in Rows : UpdateModel(row)
           \/ UNCHANGED vars
  BY <1>4 DEF vars, CreateModel, UpdateModel
<1> QED
  BY <1>1, <1>2, <1>3, <1>4 DEF Next

\* A step keeps the candidates of a call.
LEMMA CandidatesStep ==
  ASSUME IInv, [Next]_vars, CandidatesExist
  PROVE  CandidatesExist'
<1> SUFFICES ASSUME NEW r \in Requests, pc'[r] = "call"
             PROVE  untried'[r] # {} /\ untried'[r] \subseteq Seen(r)'
  BY DEF CandidatesExist
<1>1. seeding'[r] = seeding[r] => Seen(r) \subseteq Seen(r)'
  BY RowsAreKept DEF Seen, SeedRows
<1>2. CASE SelectModels(r)
  <2>1. /\ untried'[r] = CodeRows(r) /\ CodeRows(r) # {}
        /\ seeding'[r] = seeding[r]
    BY <1>2 DEF SelectModels, IInv, TypeOK, sessionVars
  <2>2. CodeRows(r) \subseteq Seen(r)
    BY ModelsAssumption DEF CodeRows, Seen, SeedRows, Stored
  <2> QED
    BY <1>1, <2>1, <2>2
<1>3. CASE CandidateFails(r)
  <2>1. /\ pc[r] = "call" /\ untried'[r] \subseteq untried[r]
        /\ seeding'[r] = seeding[r]
    BY <1>3 DEF CandidateFails, IInv, TypeOK, sessionVars
  <2>2. untried'[r] # {}
    BY <1>3 DEF CandidateFails, AllFailed, AgentFails, Goto, IInv, TypeOK
  <2> QED
    BY <1>1, <2>1, <2>2 DEF CandidatesExist
<1>4. CASE /\ pc[r] = "call"
           /\ untried'[r] = untried[r] /\ seeding'[r] = seeding[r]
  BY <1>1, <1>4 DEF CandidatesExist
<1> QED
  BY <1>2, <1>3, <1>4, HowACallGoesOn

\* While a call goes through its candidates there is always one left, and
\* each is a row its session still reads, although the administrator edits
\* the table and other sessions commit to it meanwhile (model_router.py 157
\* reads the candidates once).  That a candidate is still enabled does not
\* follow, and does not hold.
THEOREM CandidatesRemain == Spec => []CandidatesExist
<1>1. Init => CandidatesExist
  BY DEF Init, CandidatesExist
<1>2. IInv /\ [Next]_vars /\ CandidatesExist => CandidatesExist'
  BY CandidatesStep
<1> QED
  BY <1>1, <1>2, TaskInvariance, PTL DEF Spec

-----------------------------------------------------------------------------
(* The handler implements RunStore.                                        *)

\* A commit stores the run of its request, and of no other.
LEMMA CommitStores ==
  ASSUME IInv, NEW r \in Requests, Commit(r) \/ AcknowledgementLost(r)
  PROVE  Store!StoreNext
<1> DEFINE Runs == [s \in Requests |-> IF runs[s] = "none" THEN {}
                                                        ELSE {changes[s]}]
<1> USE DEF IInv, TypeOK
<1>1. runs[r] = "none" /\ answer[r] # "error" /\ run_row[r] = "completed"
  BY DEF Commit, AcknowledgementLost, RequestInv, AnswerInv, StoreInv, FlowInv,
     Over
<1>2. /\ runs' = [runs EXCEPT ![r] = "completed"]
      /\ changes' = [changes EXCEPT ![r] = files_changed[r]]
      /\ \E told \in {"created", "error", "none"} :
           answer' = [answer EXCEPT ![r] = IF @ = "none" THEN told ELSE @]
  <2>1. CASE Commit(r)
    <3>1. answer[r] \in {"none", "created"}
      BY <1>1
    <3>2. answer' = [answer EXCEPT ![r] = IF @ = "none" THEN "created" ELSE @]
      BY <2>1, <3>1 DEF Commit
    <3> QED
      BY <1>1, <2>1, <3>2 DEF Commit, CommitSession
  <2>2. CASE AcknowledgementLost(r)
    BY <1>1, <2>2 DEF AcknowledgementLost, CommitSession
  <2> QED
    BY <2>1, <2>2
<1>3. Runs[r] = {}
  BY <1>1
<1>4. Runs' = [Runs EXCEPT ![r] = {files_changed[r]}]
  BY <1>2
<1>5. files_changed[r] \in SUBSET Paths
  OBVIOUS
<1>6. \E files \in SUBSET Paths : Store!Store(r, files)
  BY <1>1, <1>2, <1>3, <1>4, <1>5 DEF Store!Store
<1> QED
  BY <1>6 DEF Store!StoreNext

\* The other steps of a handler leave the stored runs as they are.
LEMMA RequestMaps ==
  ASSUME IInv, NEW r \in Requests,
         Accept(r) \/ Proceed(r) \/ DatabaseFails(r)
  PROVE  [Store!StoreNext]_Store!storeVars
<1> USE DEF storeVars
<1>1. CASE Commit(r) \/ AcknowledgementLost(r)
  BY <1>1, CommitStores
<1>2. CASE AnswerEarly(r)
  <2>1. runs[r] = "none"
    BY <1>2 DEF AnswerEarly, IInv, RequestInv, StoreInv, Over
  <2>2. Store!Promise(r)
    BY <1>2, <2>1 DEF AnswerEarly, Store!Promise
  <2> QED
    BY <2>2 DEF Store!StoreNext
<1>3. CASE TaskFails(r) \/ StatementFails(r)
  <2>1. /\ UNCHANGED <<runs, changes>>
        /\ answer' = [answer EXCEPT ![r] = IF @ = "none" THEN "error" ELSE @]
    BY <1>3 DEF TaskFails, StatementFails, Fail, RollBack
  <2>2. CASE answer[r] = "none"
    <3>1. runs[r] = "none"
      BY <1>3, <2>2
         DEF TaskFails, StatementFails, IInv, RequestInv, StoreInv, Over
    <3>2. Store!Refuse(r)
      BY <2>1, <2>2, <3>1 DEF Store!Refuse
    <3> QED
      BY <3>2 DEF Store!StoreNext
  <2>3. CASE answer[r] # "none"
    <3>1. answer' = answer
      BY <2>1, <2>3 DEF IInv, TypeOK
    <3> QED
      BY <2>1, <3>1 DEF Store!storeVars
  <2> QED
    BY <2>2, <2>3
<1>4. ASSUME ~Commit(r), ~AcknowledgementLost(r), ~AnswerEarly(r),
             ~(TaskFails(r) \/ StatementFails(r))
      PROVE  UNCHANGED <<runs, changes, answer>>
  BY <1>4 DEF DatabaseFails, Proceed, Accept, Seed, NoModel, SelectModels,
     CandidateFails,
     CandidateAnswers, WriteFile, CoderReturns, FlushResults, FlushStatus
<1> QED
  BY <1>1, <1>2, <1>3, <1>4 DEF Store!storeVars

\* The database behaves as RunStore promises: a run and its file changes are
\* stored together, once, and not after an error.
THEOREM RequestsImplementStore == Spec => RunsAreStoredOnce
<1>1. Init => Store!StoreInit
  BY DEF Init, Store!StoreInit
<1>2. IInv /\ [Next]_vars => [Store!StoreNext]_Store!storeVars
  <2> SUFFICES ASSUME IInv, [Next]_vars
               PROVE  [Store!StoreNext]_Store!storeVars
    OBVIOUS
  <2>1. CASE \E r \in Requests : Accept(r) \/ Proceed(r) \/ DatabaseFails(r)
    BY <2>1, RequestMaps
  <2>2. CASE \/ UNCHANGED vars
             \/ Crash
             \/ \E model \in AddedModels : CreateModel(model)
             \/ \E row \in Rows : UpdateModel(row)
    BY <2>2 DEF Store!storeVars, vars, storeVars, Crash, CreateModel,
       UpdateModel
  <2> QED
    BY <2>1, <2>2 DEF Next
<1> QED
  BY <1>1, <1>2, TaskInvariance, PTL
     DEF Spec, RunsAreStoredOnce, Store!StoreSpec

-----------------------------------------------------------------------------
(* Requests end.  A handler tries each candidate and writes each file once, *)
(* so what it may still do is used up step by step.                        *)

\* The steps of the handler of r.
Handling(r) == Accept(r) \/ Proceed(r) \/ DatabaseFails(r)

\* The most steps a handler may take once it selects its models.
MostSteps == Cardinality(Rows) + Cardinality(Paths) + 6

StepsLeft(r) ==
  CASE pc[r] = "received" -> MostSteps + 2
    [] pc[r] = "seed"     -> MostSteps + 1
    [] pc[r] = "select"   -> MostSteps
    [] pc[r] = "call"     -> Cardinality(untried[r]) + Cardinality(Paths) + 5
    [] pc[r] = "write"    -> Cardinality(to_write[r]) + 4
    [] pc[r] = "flush"    -> 3
    [] pc[r] = "commit"   -> IF answer[r] = "none" THEN 2 ELSE 1
    [] pc[r] \in Over     -> 0

RequestsAdvance ==
  [][\A r \in Requests :
       /\ StepsLeft(r)' \in 0 .. StepsLeft(r)
       /\ Handling(r) => StepsLeft(r)' < StepsLeft(r)]_vars

LEMMA StepsAt ==
  ASSUME NEW r \in Requests
  PROVE  /\ pc[r] = "received" => StepsLeft(r) = MostSteps + 2
         /\ pc[r] = "seed" => StepsLeft(r) = MostSteps + 1
         /\ pc[r] = "select" => StepsLeft(r) = MostSteps
         /\ pc[r] = "call" =>
              StepsLeft(r) = Cardinality(untried[r]) + Cardinality(Paths) + 5
         /\ pc[r] = "write" => StepsLeft(r) = Cardinality(to_write[r]) + 4
         /\ pc[r] = "flush" => StepsLeft(r) = 3
         /\ pc[r] = "commit" =>
              StepsLeft(r) = IF answer[r] = "none" THEN 2 ELSE 1
         /\ pc[r] \in Over => StepsLeft(r) = 0
BY DEF StepsLeft, Over

\* The same of the state after a step.
LEMMA StepsThen ==
  ASSUME NEW r \in Requests
  PROVE  /\ pc'[r] = "seed" => StepsLeft(r)' = MostSteps + 1
         /\ pc'[r] = "select" => StepsLeft(r)' = MostSteps
         /\ pc'[r] = "call" =>
              StepsLeft(r)' = Cardinality(untried'[r]) + Cardinality(Paths) + 5
         /\ pc'[r] = "write" => StepsLeft(r)' = Cardinality(to_write'[r]) + 4
         /\ pc'[r] = "flush" => StepsLeft(r)' = 3
         /\ pc'[r] = "commit" =>
              StepsLeft(r)' = IF answer'[r] = "none" THEN 2 ELSE 1
         /\ pc'[r] \in Over => StepsLeft(r)' = 0
BY DEF StepsLeft, MostSteps, Rows, Over

LEMMA CandidatesAreFinite ==
  ASSUME IsFiniteSet(Rows), IsFiniteSet(Paths), NEW S \in SUBSET Rows,
         NEW T \in SUBSET Paths
  PROVE  /\ IsFiniteSet(S) /\ Cardinality(S) \in 0 .. Cardinality(Rows)
         /\ IsFiniteSet(T) /\ Cardinality(T) \in 0 .. Cardinality(Paths)
         /\ Cardinality(Rows) \in Nat /\ Cardinality(Paths) \in Nat
BY FS_Subset, FS_CardinalityType

LEMMA OneLess ==
  ASSUME NEW S, IsFiniteSet(S), NEW x \in S
  PROVE  Cardinality(S \ {x}) = Cardinality(S) - 1
BY FS_RemoveElement

\* A step of a handler uses up some of its steps.
LEMMA HandlingAdvances ==
  ASSUME IsFiniteSet(Rows), IsFiniteSet(Paths),
         TypeOK, NEW r \in Requests, Handling(r)
  PROVE  StepsLeft(r)' \in Nat /\ StepsLeft(r)' < StepsLeft(r)
<1> USE DEF Goto, MostSteps
<1>0. PICK n \in Nat, m \in Nat :
        n = Cardinality(Rows) /\ m = Cardinality(Paths)
  BY FS_CardinalityType
<1>a. PICK u \in 0 .. n : u = Cardinality(untried[r])
  BY <1>0, CandidatesAreFinite DEF TypeOK
<1>b. PICK w \in 0 .. m : w = Cardinality(to_write[r])
  BY <1>0, CandidatesAreFinite DEF TypeOK
<1>c. IsFiniteSet(untried[r]) /\ IsFiniteSet(to_write[r])
  BY CandidatesAreFinite DEF TypeOK
<1>1. CASE Accept(r)
  BY <1>0, <1>1, StepsAt, StepsThen DEF Accept, TypeOK
<1>2. CASE Seed(r)
  BY <1>0, <1>2, StepsAt, StepsThen DEF Seed, TypeOK
<1>3. CASE NoModel(r)
  BY <1>0, <1>3, StepsAt, StepsThen DEF NoModel, AgentFails, TypeOK
<1>4. CASE SelectModels(r)
  <2>1. Cardinality(CodeRows(r)) \in 0 .. n
    BY <1>0, CodeRowsAreRows, CandidatesAreFinite
  <2>2. /\ pc[r] = "select" /\ pc'[r] = "call"
        /\ untried'[r] = CodeRows(r)
    BY <1>4 DEF SelectModels, TypeOK
  <2>3. /\ StepsLeft(r) = n + m + 6
        /\ StepsLeft(r)' = Cardinality(CodeRows(r)) + m + 5
    BY <1>0, <2>2, StepsAt, StepsThen
  <2> QED
    BY <1>0, <2>1, <2>3
<1>5. CASE CandidateFails(r)
  <2>1. PICK row \in First(untried[r]) :
          untried' = [untried EXCEPT ![r] = @ \ {row}]
    BY <1>5 DEF CandidateFails
  <2>2. row \in untried[r] /\ untried'[r] = untried[r] \ {row}
    BY <2>1 DEF First, TypeOK
  <2>3. Cardinality(untried'[r]) = u - 1
    BY <1>a, <1>c, <2>2, OneLess
  <2>4. Cardinality(untried'[r]) \in Nat
    BY <1>0, <2>2, CandidatesAreFinite DEF TypeOK
  <2>5. pc[r] = "call" /\ pc'[r] \in {"call", "flush"}
    BY <1>5 DEF CandidateFails, AllFailed, AgentFails, TypeOK
  <2>6. StepsLeft(r) = u + m + 5
    BY <1>0, <1>a, <2>5, StepsAt
  <2>7. StepsLeft(r)' = u - 1 + m + 5 \/ StepsLeft(r)' = 3
    BY <1>0, <2>3, <2>5, StepsThen
  <2> QED
    BY <1>0, <1>a, <2>3, <2>4, <2>6, <2>7
<1>6. CASE CandidateAnswers(r)
  <2>1. /\ pc[r] = "call" /\ pc'[r] = "write"
        /\ to_write'[r] \in SUBSET Paths
    BY <1>6 DEF CandidateAnswers, TypeOK
  <2>2. Cardinality(to_write'[r]) \in 0 .. m
    BY <1>0, <2>1, CandidatesAreFinite
  <2>3. /\ StepsLeft(r) = u + m + 5
        /\ StepsLeft(r)' = Cardinality(to_write'[r]) + 4
    BY <1>0, <1>a, <2>1, StepsAt, StepsThen
  <2> QED
    BY <1>0, <1>a, <2>2, <2>3
<1>7. CASE WriteFile(r)
  <2>1. PICK path \in to_write[r] :
          to_write' = [to_write EXCEPT ![r] = @ \ {path}]
    BY <1>7 DEF WriteFile
  <2>2. /\ pc[r] = "write" /\ pc'[r] = "write"
        /\ to_write'[r] = to_write[r] \ {path}
    BY <1>7, <2>1 DEF WriteFile, TypeOK
  <2>3. Cardinality(to_write'[r]) = w - 1
    BY <1>b, <1>c, <2>1, <2>2, OneLess
  <2>4. Cardinality(to_write'[r]) \in Nat
    BY <1>0, <2>2, CandidatesAreFinite DEF TypeOK
  <2>5. StepsLeft(r) = w + 4 /\ StepsLeft(r)' = w - 1 + 4
    BY <1>b, <2>2, <2>3, StepsAt, StepsThen
  <2> QED
    BY <1>0, <1>b, <2>3, <2>4, <2>5
<1>8. CASE CoderReturns(r)
  <2>1. pc[r] = "write" /\ pc'[r] = "flush"
    BY <1>8 DEF CoderReturns, TypeOK
  <2>2. StepsLeft(r) = w + 4 /\ StepsLeft(r)' = 3
    BY <1>b, <2>1, StepsAt, StepsThen
  <2> QED
    BY <1>0, <1>b, <2>2
<1>9. CASE FlushResults(r)
  BY <1>9, StepsAt, StepsThen DEF FlushResults, TypeOK
<1>10. CASE TaskFails(r)
  BY <1>10, StepsAt, StepsThen DEF TaskFails, Fail, TypeOK, Over
<1>11. CASE AnswerEarly(r)
  <2>1. /\ pc[r] = "commit" /\ pc'[r] = "commit"
        /\ answer[r] = "none" /\ answer'[r] # "none"
    BY <1>11 DEF AnswerEarly, TypeOK
  <2> QED
    BY <2>1, StepsAt, StepsThen
<1>12. CASE Commit(r)
  BY <1>12, StepsAt, StepsThen DEF Commit, TypeOK, Over
<1>13. CASE DatabaseFails(r)
  BY <1>0, <1>13, StepsAt, StepsThen
  DEF DatabaseFails, StatementFails, AcknowledgementLost, Fail, TypeOK, Over
<1> QED
  BY <1>1, <1>2, <1>3, <1>4, <1>5, <1>6, <1>7, <1>8, <1>9, <1>10, <1>11,
     <1>12, <1>13 DEF Handling, Proceed

\* The other steps leave a request where it is, or end it.
LEMMA OthersLeaveOrEnd ==
  ASSUME TypeOK, [Next]_vars, NEW q \in Requests, ~ Handling(q)
  PROVE  \/ pc'[q] = "end"
         \/ /\ pc'[q] = pc[q] /\ untried'[q] = untried[q]
            /\ to_write'[q] = to_write[q] /\ answer'[q] = answer[q]
<1> USE DEF TypeOK, Goto, storeVars, sessionVars, agentVars
<1>1. ASSUME NEW r \in Requests, r # q, Handling(r)
      PROVE  /\ pc'[q] = pc[q] /\ untried'[q] = untried[q]
             /\ to_write'[q] = to_write[q] /\ answer'[q] = answer[q]
  BY <1>1
  DEF Handling, Accept, Proceed, DatabaseFails, StatementFails,
     AcknowledgementLost, Seed, NoModel, SelectModels,
      CandidateFails, CandidateAnswers, WriteFile, CoderReturns, FlushResults,
      TaskFails, AnswerEarly, Commit, Fail, AgentFails, AllFailed
<1>2. ASSUME Crash
      PROVE  \/ pc'[q] = "end"
             \/ /\ pc'[q] = pc[q] /\ untried'[q] = untried[q]
                /\ to_write'[q] = to_write[q] /\ answer'[q] = answer[q]
  BY <1>2 DEF Crash
<1>3. ASSUME \/ \E model \in AddedModels : CreateModel(model)
             \/ \E row \in Rows : UpdateModel(row)
             \/ UNCHANGED vars
      PROVE  /\ pc'[q] = pc[q] /\ untried'[q] = untried[q]
             /\ to_write'[q] = to_write[q] /\ answer'[q] = answer[q]
  BY <1>3 DEF CreateModel, UpdateModel, vars
<1> QED
  BY <1>1, <1>2, <1>3 DEF Next, Handling

\* Every step of a handler uses up one of a number of steps that is bounded
\* by the rows of the table and the paths of an answer; the other requests,
\* the administrator who edits the rows meanwhile and a crash give it none
\* back (tasks.py 48, model_router.py 166): what is left for a fair scheduler
\* is to take them.  Table and paths are finite sets.
THEOREM RequestsAreFinite ==
  ASSUME IsFiniteSet(Rows), IsFiniteSet(Paths)
  PROVE  Spec => RequestsAdvance
<1>1. ASSUME TypeOK, [Next]_vars, NEW q \in Requests
      PROVE  /\ StepsLeft(q)' \in 0 .. StepsLeft(q)
             /\ Handling(q) => StepsLeft(q)' < StepsLeft(q)
  <2>1. StepsLeft(q) \in Nat
    <3>1. /\ Cardinality(Rows) \in Nat /\ Cardinality(Paths) \in Nat
          /\ Cardinality(untried[q]) \in Nat
          /\ Cardinality(to_write[q]) \in Nat
      BY <1>1, CandidatesAreFinite DEF TypeOK
    <3>2. pc[q] \in Steps
      BY <1>1 DEF TypeOK
    <3> QED
      BY <3>1, <3>2, StepsAt DEF Steps, MostSteps
  <2>2. CASE Handling(q)
    BY <1>1, <2>1, <2>2, HandlingAdvances
  <2>3. CASE ~ Handling(q)
    <3>1. StepsLeft(q)' = 0 \/ StepsLeft(q)' = StepsLeft(q)
      BY <1>1, <2>3, OthersLeaveOrEnd, StepsThen
      DEF StepsLeft, MostSteps, Rows, Over
    <3> QED
      BY <2>1, <2>3, <3>1
  <2> QED
    BY <2>2, <2>3
<1>2. TypeOK /\ [Next]_vars =>
        [\A r \in Requests :
           /\ StepsLeft(r)' \in 0 .. StepsLeft(r)
           /\ Handling(r) => StepsLeft(r)' < StepsLeft(r)]_vars
  BY <1>1
<1> QED
  BY <1>2, TaskTypeCorrect, PTL DEF Spec, RequestsAdvance
=============================================================================
