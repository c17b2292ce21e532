--------------------------- MODULE AccountProofs ---------------------------
(***************************************************************************)
(* Proofs about Accounts, for any requests, forms, clients and number of   *)
(* pairs.  The three invariants are inductive together: the form of a      *)
(* request never changes, accounts are never removed, and an insert waits  *)
(* for every session that has inserted the same.                           *)
(***************************************************************************)
EXTENDS Accounts, TLAPS

IInv == TypeOK /\ AccountsAreUnique /\ ConflictIsReal

LEMMA InitIInv ==
  ASSUME Init
  PROVE  IInv
<1>1. TypeOK
  BY FormsAssumption DEF Init, TypeOK, Over, Steps, Answers, Replies
<1>2. AccountsAreUnique
  BY DEF Init, AccountsAreUnique, Inserted
<1>3. ConflictIsReal
  BY DEF Init, ConflictIsReal
<1> QED
  BY <1>1, <1>2, <1>3 DEF IInv

(***************************************************************************)
(* Types.                                                                  *)
(***************************************************************************)

\* A step of a registration or of the database.
LEMMA RegisterTypeOK ==
  ASSUME TypeOK, NEW r \in Requests,
         Arrive(r) \/ Register(r) \/ DatabaseFails(r) \/ SetActive(r)
  PROVE  TypeOK'
<1> USE DEF TypeOK, Over, Goto, clientVars, dbVars, regVars
<1>1. ASSUME NEW what \in Answers, Refuse(r, what)
      PROVE  TypeOK'
  BY <1>1 DEF Refuse, Answer, Answers
<1>2. ASSUME Arrive(r) \/ Free(r) \/ Insert(r)
      PROVE  TypeOK'
  BY <1>2 DEF Arrive, Free, Insert
<1>3. ASSUME Taken(r)
      PROVE  TypeOK'
  <2>1. \/ Refuse(r, "email_taken")
        \/ Refuse(r, "username_taken")
    BY <1>3 DEF Taken
  <2>2. {"email_taken", "username_taken"} \subseteq Answers
    BY DEF Answers
  <2> QED
    BY <2>1, <2>2, <1>1
<1>4. ASSUME TwiceTaken(r) \/ InsertRaises(r) \/ StatementFails(r)
      PROVE  TypeOK'
  <2>1. Refuse(r, "error") /\ "error" \in Answers
    BY <1>4 DEF TwiceTaken, InsertRaises, StatementFails, Answers
  <2> QED
    BY <2>1, <1>1
<1>5. ASSUME AnswerEarly(r)
      PROVE  TypeOK'
  BY <1>5 DEF AnswerEarly, Answer, Answers
<1>6. ASSUME Commit(r)
      PROVE  TypeOK'
  BY <1>6 DEF Commit, Store, Answer, Answers
<1>7. ASSUME SetActive(r)
      PROVE  TypeOK'
  BY <1>7 DEF SetActive
<1>8. ASSUME AcknowledgementLost(r)
      PROVE  TypeOK'
  BY <1>8 DEF AcknowledgementLost, Store, Answer, Answers
<1> QED
  BY <1>2, <1>3, <1>4, <1>5, <1>6, <1>7, <1>8 DEF Register, DatabaseFails

\* A step of a client's session.
LEMMA ClientTypeOK ==
  ASSUME TypeOK, NEW c \in Clients,
         SendLogin(c) \/ SendToken(c) \/ Handle(c) \/ Unavailable(c)
  PROVE  TypeOK'
<1> USE DEF TypeOK, dbVars, regVars
<1>1. ASSUME NEW what \in Replies, Respond(c, what),
             UNCHANGED <<token, issued>>, revoked' \in SUBSET (Clients \X Nat)
      PROVE  TypeOK'
  BY <1>1 DEF Respond, Steps, Replies
<1>2. ASSUME NEW a \in Requests, IssuePair(c, a),
             revoked' \in SUBSET (Clients \X Nat)
      PROVE  TypeOK'
  BY <1>2 DEF IssuePair, Respond, Steps, Replies
<1>3. ASSUME SendLogin(c)
      PROVE  TypeOK'
  BY <1>3 DEF SendLogin, Send, Steps, Replies
<1>4. ASSUME SendToken(c)
      PROVE  TypeOK'
  BY <1>4 DEF SendToken, Send, Steps, Replies
<1>5. ASSUME LoginRefused(c) \/ Deactivated(c) \/ RefreshRefused(c)
             \/ Unavailable(c)
      PROVE  TypeOK'
  <2>1. \E what \in Replies : Respond(c, what)
    BY <1>5 DEF LoginRefused, Deactivated, RefreshRefused, Unavailable, Replies
  <2>2. UNCHANGED <<token, issued, revoked>>
    BY <1>5 DEF LoginRefused, Deactivated, RefreshRefused, Unavailable
  <2> QED
    BY <1>1, <2>1, <2>2
<1>6. ASSUME Login(c)
      PROVE  TypeOK'
  <2>1. PICK a \in Named(name[c]) \cap active : IssuePair(c, a)
    BY <1>6 DEF Login
  <2>2. a \in Requests /\ revoked' = revoked
    BY <1>6 DEF Login
  <2> QED
    BY <1>2, <2>1, <2>2
<1>7. ASSUME NotRevoked(c)
      PROVE  TypeOK'
  BY <1>7 DEF NotRevoked, Steps
<1>8. Revoke(c) => revoked' \in SUBSET (Clients \X Nat)
  BY DEF Revoke
<1>9. {"error", "unauthorized", "gone"} \subseteq Replies
  BY DEF Replies
<1>10. ASSUME Exchange(c)
       PROVE  TypeOK'
  <2>1. CASE Ttl = 0
    BY <1>1, <1>9, <1>10, <2>1 DEF Exchange
  <2>2. CASE Ttl # 0 /\ token[c] \in active
    BY <1>2, <1>8, <1>10, <2>2 DEF Exchange
  <2>3. CASE Ttl # 0 /\ token[c] \notin active
    BY <1>1, <1>8, <1>9, <1>10, <2>3 DEF Exchange
  <2> QED
    BY <2>1, <2>2, <2>3
<1>11. ASSUME Logout(c)
       PROVE  TypeOK'
  <2>1. CASE Ttl = 0
    BY <1>1, <1>9, <1>11, <2>1 DEF Logout
  <2>2. CASE Ttl # 0
    BY <1>1, <1>8, <1>9, <1>11, <2>2 DEF Logout
  <2> QED
    BY <2>1, <2>2
<1> QED
  BY <1>3, <1>4, <1>5, <1>6, <1>7, <1>10, <1>11 DEF Handle

LEMMA NextTypeOK ==
  ASSUME TypeOK, [Next]_vars
  PROVE  TypeOK'
<1>1. ASSUME Crash
      PROVE  TypeOK'
  BY <1>1 DEF Crash, TypeOK, Over, dbVars, Steps
<1>2. ASSUME UNCHANGED vars
      PROVE  TypeOK'
  BY <1>2 DEF vars, TypeOK, regVars, dbVars, clientVars
<1> QED
  BY <1>1, <1>2, RegisterTypeOK, ClientTypeOK DEF Next

(***************************************************************************)
(* Accounts.                                                               *)
(***************************************************************************)

\* No step of a client touches a registration, a form or an account.
LEMMA ClientLeavesAccounts ==
  ASSUME NEW c \in Clients,
         SendLogin(c) \/ SendToken(c) \/ Handle(c) \/ Unavailable(c)
  PROVE  UNCHANGED <<regVars, dbVars>>
BY DEF SendLogin, SendToken, Handle, Unavailable, Send, Respond, IssuePair,
       LoginRefused, Deactivated, Login, RefreshRefused, NotRevoked,
       Exchange, Logout

\* Forms stay, accounts are not removed.
LEMMA AccountsStay ==
  ASSUME [Next]_vars
  PROVE  UNCHANGED form /\ stored \subseteq stored'
<1>1. ASSUME NEW r \in Requests,
             Arrive(r) \/ Register(r) \/ DatabaseFails(r) \/ SetActive(r)
      PROVE  UNCHANGED form /\ stored \subseteq stored'
  BY <1>1 DEF Arrive, Register, DatabaseFails, StatementFails,
              AcknowledgementLost, SetActive, Free, Taken, TwiceTaken, Insert,
              InsertRaises, AnswerEarly, Commit, Store, Refuse, regVars, dbVars
<1>2. ASSUME Crash \/ UNCHANGED vars
      PROVE  UNCHANGED form /\ stored \subseteq stored'
  BY <1>2 DEF Crash, vars, regVars, dbVars
<1> QED
  BY <1>1, <1>2, ClientLeavesAccounts DEF Next, regVars, dbVars

\* The accounts that are held, stored or inserted, are those there were and
\* at most one that conflicts with none of them.
LEMMA HeldAccounts ==
  ASSUME TypeOK, [Next]_vars
  PROVE  \/ (stored \cup Inserted)' \subseteq stored \cup Inserted
         \/ \E r \in Requests :
              /\ (stored \cup Inserted)' \subseteq stored \cup Inserted \cup {r}
              /\ \A a \in stored \cup Inserted : ~ Conflict(a, r)
<1> USE DEF TypeOK, Inserted
<1>1. ASSUME NEW r \in Requests, Insert(r)
      PROVE  /\ (stored \cup Inserted)' \subseteq stored \cup Inserted \cup {r}
             /\ \A a \in stored \cup Inserted : ~ Conflict(a, r)
  BY <1>1 DEF Insert, MayInsert, Goto, dbVars
<1>2. ASSUME NEW r \in Requests, Commit(r) \/ AcknowledgementLost(r)
      PROVE  (stored \cup Inserted)' \subseteq stored \cup Inserted
  BY <1>2 DEF Commit, AcknowledgementLost, Store, Goto
<1>3. ASSUME NEW r \in Requests,
             Arrive(r) \/ Free(r) \/ Taken(r) \/ TwiceTaken(r)
             \/ InsertRaises(r) \/ AnswerEarly(r) \/ StatementFails(r)
             \/ SetActive(r)
      PROVE  (stored \cup Inserted)' \subseteq stored \cup Inserted
  BY <1>3 DEF Arrive, Free, Taken, TwiceTaken, InsertRaises, AnswerEarly,
              StatementFails, SetActive, Refuse, Goto, regVars, dbVars
<1>4. ASSUME UNCHANGED <<regVars, dbVars>>
      PROVE  (stored \cup Inserted)' \subseteq stored \cup Inserted
  BY <1>4 DEF regVars, dbVars
<1>5. ASSUME Crash
      PROVE  (stored \cup Inserted)' \subseteq stored \cup Inserted
  BY <1>5 DEF Crash, InProgress, dbVars
<1> QED
  BY <1>1, <1>2, <1>3, <1>4, <1>5, ClientLeavesAccounts
  DEF Next, Register, DatabaseFails, vars

LEMMA NextUnique ==
  ASSUME TypeOK, AccountsAreUnique, [Next]_vars
  PROVE  AccountsAreUnique'
<1>1. \A a, b : Conflict(a, b)' <=> Conflict(a, b)
  BY AccountsStay DEF Conflict, SameEmail, SameName
<1>2. \A a, b : Conflict(a, b) <=> Conflict(b, a)
  BY DEF Conflict, SameEmail, SameName
<1>3. \A a : ~ Conflict(a, a)
  BY DEF Conflict
<1>4. CASE (stored \cup Inserted)' \subseteq stored \cup Inserted
  BY <1>1, <1>4 DEF AccountsAreUnique
<1>5. ASSUME NEW r \in Requests,
             (stored \cup Inserted)' \subseteq stored \cup Inserted \cup {r},
             \A a \in stored \cup Inserted : ~ Conflict(a, r)
      PROVE  AccountsAreUnique'
  BY <1>1, <1>2, <1>3, <1>5 DEF AccountsAreUnique
<1> QED
  BY <1>4, <1>5, HeldAccounts

\* An answer is given once.
LEMMA AnswerOnce ==
  ASSUME TypeOK, NEW r \in Requests, NEW what, Answer(r, what)
  PROVE  \A q \in Requests :
           answer'[q] = answer[q] \/ (q = r /\ answer'[q] = what)
BY DEF Answer, TypeOK

\* A step that answers 409 has seen the account.
LEMMA NewConflict ==
  ASSUME TypeOK, [Next]_vars, NEW q \in Requests
  PROVE  \/ answer'[q] = answer[q]
         \/ answer'[q] \in {"created", "error"}
         \/ answer'[q] = "email_taken" /\ \E a \in stored : a # q /\ SameEmail(a, q)
         \/ answer'[q] = "username_taken" /\ \E a \in stored : a # q /\ SameName(a, q)
<1> DEFINE Goal ==
         \/ answer'[q] = answer[q]
         \/ answer'[q] \in {"created", "error"}
         \/ answer'[q] = "email_taken" /\ \E a \in stored : a # q /\ SameEmail(a, q)
         \/ answer'[q] = "username_taken" /\ \E a \in stored : a # q /\ SameName(a, q)
<1>1. ASSUME NEW r \in Requests, Taken(r)
      PROVE  Goal
  <2>1. PICK a \in Existing(r) :
          Refuse(r, IF SameEmail(a, r) THEN "email_taken" ELSE "username_taken")
    BY <1>1 DEF Taken
  <2>2. a \in stored /\ a # r /\ (SameEmail(a, r) \/ SameName(a, r))
    BY DEF Existing, Conflict
  <2>3. CASE SameEmail(a, r)
    <3>1. Answer(r, "email_taken")
      BY <2>1, <2>3 DEF Refuse
    <3> QED
      BY <3>1, <2>2, <2>3, AnswerOnce
  <2>4. CASE ~ SameEmail(a, r)
    <3>1. Answer(r, "username_taken")
      BY <2>1, <2>4 DEF Refuse
    <3> QED
      BY <3>1, <2>2, <2>4, AnswerOnce
  <2> QED
    BY <2>3, <2>4
<1>2. ASSUME NEW r \in Requests, Answer(r, "error") \/ Answer(r, "created")
      PROVE  Goal
  BY <1>2, AnswerOnce
<1>3. ASSUME NEW r \in Requests,
             TwiceTaken(r) \/ InsertRaises(r) \/ DatabaseFails(r)
             \/ AnswerEarly(r) \/ Commit(r)
      PROVE  Goal
  <2>1. Answer(r, "error") \/ Answer(r, "created") \/ UNCHANGED answer
    BY <1>3 DEF TwiceTaken, InsertRaises, DatabaseFails, StatementFails,
                AcknowledgementLost, AnswerEarly, Commit, Refuse
  <2> QED
    BY <2>1, <1>2
<1>4. ASSUME NEW r \in Requests,
             Arrive(r) \/ Free(r) \/ Insert(r) \/ SetActive(r)
      PROVE  Goal
  BY <1>4 DEF Arrive, Free, Insert, SetActive, regVars
<1>5. ASSUME Crash \/ UNCHANGED <<regVars, dbVars>>
      PROVE  Goal
  BY <1>5 DEF Crash, regVars
<1> QED
  BY <1>1, <1>3, <1>4, <1>5, ClientLeavesAccounts DEF Next, Register, vars

LEMMA NextReal ==
  ASSUME TypeOK, ConflictIsReal, [Next]_vars
  PROVE  ConflictIsReal'
<1>1. /\ stored \subseteq stored'
      /\ \A a, q : SameEmail(a, q)' <=> SameEmail(a, q)
      /\ \A a, q : SameName(a, q)' <=> SameName(a, q)
  BY AccountsStay DEF SameEmail, SameName
<1> SUFFICES ASSUME NEW q \in Requests
             PROVE
    /\ answer'[q] = "email_taken" => \E a \in stored : a # q /\ SameEmail(a, q)
    /\ answer'[q] = "username_taken" => \E a \in stored : a # q /\ SameName(a, q)
  BY <1>1 DEF ConflictIsReal
<1> QED
  BY NewConflict DEF ConflictIsReal

LEMMA NextIInv ==
  ASSUME IInv, [Next]_vars
  PROVE  IInv'
BY NextTypeOK, NextUnique, NextReal DEF IInv

\* The inductive invariant of registration.
THEOREM InvariantHolds == Spec => []IInv
BY InitIInv, NextIInv, PTL DEF Spec

\* Requests, accounts and sessions keep their types.
THEOREM TypeCorrect == Spec => []TypeOK
<1>1. IInv => TypeOK
  BY DEF IInv
<1> QED
  BY <1>1, InvariantHolds, PTL

\* Concurrent registrations never make two accounts with one email or one
\* username (auth.py 123).
THEOREM AccountsStayUnique == Spec => []AccountsAreUnique
<1>1. IInv => AccountsAreUnique
  BY DEF IInv
<1> QED
  BY <1>1, InvariantHolds, PTL

\* A 409 is about an account that is stored (auth.py 128).
THEOREM ConflictsAreReal == Spec => []ConflictIsReal
<1>1. IInv => ConflictIsReal
  BY DEF IInv
<1> QED
  BY <1>1, InvariantHolds, PTL

(***************************************************************************)
(* Answers.  A response is decided at one place of the handler, so what a  *)
(* request has answered follows from where it is, whatever was rolled back *)
(* beside it.                                                              *)
(***************************************************************************)
AnswerFollowsStep ==
  \A r \in Requests :
    /\ pc[r] \in {"received", "check", "insert"} => answer[r] = "none"
    /\ pc[r] = "commit" => answer[r] \in {"none", "created"}
    /\ pc[r] = "in_doubt" => answer[r] \in {"none", "created", "error"}
    /\ r \in stored => \/ pc[r] = "end" /\ answer[r] = "created"
                       \/ pc[r] = "in_doubt"

\* The handlers of register, with what a failure of the database adds.
RegisterStep(r) == Arrive(r) \/ Register(r) \/ DatabaseFails(r)

\* What one request does to itself; the others stay as they are.
LEMMA OneRequestMoves ==
  ASSUME TypeOK, NEW r \in Requests, RegisterStep(r)
  PROVE  \E next \in {"check", "insert", "commit"} \cup Over,
            what \in Answers :
           /\ pc' = [pc EXCEPT ![r] = next]
           /\ answer' = [answer EXCEPT ![r] = what]
           /\ UNCHANGED form
           /\ \/ next = "check" /\ pc[r] = "received" /\ what = answer[r]
              \/ next = "insert" /\ pc[r] = "check" /\ what = answer[r]
              \/ next = "commit" /\ pc[r] = "insert" /\ what = answer[r]
              \/ /\ next = "commit" /\ pc[r] = "commit"
                 /\ answer[r] = "none" /\ what = "created"
              \/ next = "end" /\ pc[r] \in {"check", "insert", "commit"}
              \/ /\ next = "in_doubt" /\ pc[r] = "commit"
                 /\ what \in {answer[r], "error"}
           /\ \/ stored' = stored
              \/ /\ stored' = stored \cup {r} /\ pc[r] = "commit"
                 /\ next = "end"
                 /\ what = IF answer[r] = "none" THEN "created" ELSE answer[r]
              \/ stored' = stored \cup {r} /\ next = "in_doubt"
<1> USE DEF TypeOK, Over, Goto, Answer, Answers, dbVars, clientVars
<1>1. ASSUME NEW what \in {"email_taken", "username_taken", "error"},
             Refuse(r, what), pc[r] \in {"check", "insert", "commit"}
      PROVE  /\ pc' = [pc EXCEPT ![r] = "end"]
             /\ answer' = [answer EXCEPT ![r] =
                             IF answer[r] = "none" THEN what ELSE answer[r]]
             /\ UNCHANGED form
             /\ stored' = stored
             /\ (IF answer[r] = "none" THEN what ELSE answer[r]) \in Answers
  BY <1>1 DEF Refuse
<1>2. CASE \E what \in {"email_taken", "username_taken", "error"} : Refuse(r, what)
  <2>1. PICK what \in {"email_taken", "username_taken", "error"} : Refuse(r, what)
    BY <1>2
  <2>2. pc[r] \in {"check", "insert", "commit"}
    BY <2>1 DEF RegisterStep, Register, Refuse, Arrive, Free, Taken,
      TwiceTaken, Insert, MayInsert, InsertRaises, Violates, AnswerEarly,
      Commit, DatabaseFails, StatementFails, AcknowledgementLost
  <2> QED
    BY <1>1, <2>1, <2>2
<1>3. CASE Arrive(r)
  BY <1>3 DEF Arrive
<1>4. CASE Free(r)
  BY <1>4 DEF Free
<1>5. CASE Insert(r)
  BY <1>5 DEF Insert, MayInsert
<1>6. CASE AnswerEarly(r)
  BY <1>6 DEF AnswerEarly
<1>7. CASE Commit(r)
  BY <1>7 DEF Commit, Store
<1>8. Taken(r) \/ TwiceTaken(r) \/ InsertRaises(r) \/ StatementFails(r) =>
        \E what \in {"email_taken", "username_taken", "error"} : Refuse(r, what)
  BY DEF Taken, TwiceTaken, InsertRaises, StatementFails
<1>9. CASE AcknowledgementLost(r)
  <2>1. \/ answer' = [answer EXCEPT ![r] = answer[r]]
        \/ answer' = [answer EXCEPT ![r] = IF answer[r] = "none" THEN "error"
                                                           ELSE answer[r]]
    BY <1>9 DEF AcknowledgementLost
  <2>2. PICK what \in Answers \cap {answer[r], "error"} :
          answer' = [answer EXCEPT ![r] = what]
    BY <2>1
  <2> QED
    BY <1>9, <2>2 DEF AcknowledgementLost, Store
<1> QED
  BY <1>2, <1>3, <1>4, <1>5, <1>6, <1>7, <1>8, <1>9
  DEF RegisterStep, Register, DatabaseFails

\* A step that is no step of a registration leaves answers and accounts; a
\* crash ends the registrations that are in progress.
LEMMA OtherSteps ==
  ASSUME TypeOK, [Next]_vars, ~ \E r \in Requests : RegisterStep(r)
  PROVE  /\ UNCHANGED <<form, answer, stored>>
         /\ \/ pc' = pc
            \/ pc' = [r \in Requests |->
                        IF r \in InProgress THEN "end" ELSE pc[r]]
BY ClientLeavesAccounts
DEF Next, RegisterStep, SetActive, Crash, vars, regVars, dbVars

LEMMA NextAnswerFollows ==
  ASSUME TypeOK, AnswerFollowsStep, [Next]_vars
  PROVE  AnswerFollowsStep'
<1> USE DEF AnswerFollowsStep, TypeOK, Over
<1>1. ASSUME NEW r \in Requests, RegisterStep(r)
      PROVE  AnswerFollowsStep'
  BY <1>1, OneRequestMoves
<1>2. ASSUME ~ \E r \in Requests : RegisterStep(r)
      PROVE  AnswerFollowsStep'
  BY <1>2, OtherSteps DEF InProgress
<1> QED
  BY <1>1, <1>2

LEMMA AnswersFollow == Spec => [](TypeOK /\ AnswerFollowsStep)
<1>1. Init => AnswerFollowsStep
  BY DEF Init, AnswerFollowsStep
<1>2. TypeOK /\ AnswerFollowsStep /\ [Next]_vars => AnswerFollowsStep'
  BY NextAnswerFollows
<1> QED
  BY <1>1, <1>2, TypeCorrect, PTL DEF Spec

\* A registration that was refused, with a 409 or a 500, has left no account
\* behind: whoever is told to try another name does not hold the first one.
\* The exception is a 500 for a commit whose acknowledgement was lost.
RefusedLeavesNoAccount ==
  \A r \in Requests :
    answer[r] \in {"email_taken", "username_taken", "error"} =>
      r \notin stored \/ (pc[r] = "in_doubt" /\ answer[r] = "error")

\* A refused registration has no account, in whatever order the sessions of
\* the others commit or fail (auth.py 128, session.py 28).
THEOREM RefusalsLeaveNothing == Spec => []RefusedLeavesNoAccount
<1>1. AnswerFollowsStep => RefusedLeavesNoAccount
  BY DEF AnswerFollowsStep, RefusedLeavesNoAccount
<1> QED
  BY <1>1, AnswersFollow, PTL

(***************************************************************************)
(* Registrations end.  Each has at most five steps; none of another takes  *)
(* one back.                                                               *)
(***************************************************************************)
StepsLeft(r) ==
  CASE pc[r] = "received" -> 5
    [] pc[r] = "check" -> 4
    [] pc[r] = "insert" -> 3
    [] pc[r] = "commit" /\ answer[r] = "none" -> 2
    [] pc[r] = "commit" /\ answer[r] # "none" -> 1
    [] pc[r] \in Over -> 0

RegistrationsAdvance ==
  [][\A r \in Requests :
       /\ StepsLeft(r)' \in 0 .. StepsLeft(r)
       /\ RegisterStep(r) => StepsLeft(r)' < StepsLeft(r)]_vars

LEMMA NextAdvances ==
  ASSUME TypeOK, AnswerFollowsStep, [Next]_vars, NEW q \in Requests
  PROVE  /\ StepsLeft(q)' \in 0 .. StepsLeft(q)
         /\ RegisterStep(q) => StepsLeft(q)' < StepsLeft(q)
<1> USE DEF StepsLeft, TypeOK, Over
<1>1. ASSUME RegisterStep(q)
      PROVE  StepsLeft(q)' \in 0 .. StepsLeft(q) - 1
  BY <1>1, OneRequestMoves
<1>2. ASSUME NEW r \in Requests, r # q, RegisterStep(r)
      PROVE  pc'[q] = pc[q] /\ answer'[q] = answer[q]
  BY <1>2, OneRequestMoves
<1>3. ASSUME ~ \E r \in Requests : RegisterStep(r)
      PROVE  answer'[q] = answer[q] /\ pc'[q] \in {pc[q], "end"}
  BY <1>3, OtherSteps
<1>4. StepsLeft(q) \in 0 .. 5
  OBVIOUS
<1>5. pc'[q] = pc[q] /\ answer'[q] = answer[q] => StepsLeft(q)' = StepsLeft(q)
  OBVIOUS
<1>6. pc'[q] = "end" => StepsLeft(q)' = 0
  OBVIOUS
<1> HIDE DEF StepsLeft
<1>7. CASE RegisterStep(q)
  BY <1>1, <1>4, <1>7
<1>8. CASE ~ RegisterStep(q)
  <2>1. StepsLeft(q)' = StepsLeft(q) \/ StepsLeft(q)' = 0
    BY <1>2, <1>3, <1>5, <1>6, <1>8
  <2> QED
    BY <2>1, <1>4, <1>8
<1> QED
  BY <1>7, <1>8

\* A step of a registration uses up one of its steps, and no other step, be
\* it of another registration or a crash, gives it one back: what is left for
\* a fair scheduler is to take them.  An insert that waits is the one that
\* needs it, and what it waits for is at its commit, which waits for nothing.
THEOREM RegistrationsAreFinite == Spec => RegistrationsAdvance
<1>1. TypeOK /\ AnswerFollowsStep /\ [Next]_vars =>
        [\A r \in Requests :
           /\ StepsLeft(r)' \in 0 .. StepsLeft(r)
           /\ RegisterStep(r) => StepsLeft(r)' < StepsLeft(r)]_vars
  BY NextAdvances
<1> QED
  BY <1>1, AnswersFollow, PTL DEF Spec, RegistrationsAdvance

(***************************************************************************)
(* Sessions.  With the days the code has, the time to live is 0.           *)
(***************************************************************************)
LEMMA NoTimeToLive == Ttl = 0
BY SMT DEF Ttl, RefreshDays, DaySeconds

\* The blacklist stays empty: logging out, or refreshing, takes no refresh
\* token back, and whoever has one keeps it until it expires.
NothingIsRevoked == revoked = {}

\* A refresh or a logout answers neither with a pair nor with success: the
\* tokens a client has come from its logins.
OnlyLoginsSucceed ==
  [][\A c \in Clients :
       step[c] \in {"refresh", "exchange", "logout"} =>
         reply'[c] \notin {"pair", "gone"}]_vars

\* A client that waits for an answer has none yet.
UnansweredWhileBusy == \A c \in Clients : step[c] # "idle" => reply[c] = "none"

\* What a step of a session answers.
LEMMA SessionReplies ==
  ASSUME TypeOK, NEW c \in Clients,
         SendLogin(c) \/ SendToken(c) \/ Handle(c) \/ Unavailable(c)
  PROVE  /\ revoked' = revoked
         /\ \A d \in Clients \ {c} : reply'[d] = reply[d] /\ step'[d] = step[d]
         /\ reply'[c] \in {"pair", "gone"} =>
              \/ step[c] \notin {"refresh", "exchange", "logout"}
              \/ reply'[c] = reply[c]
         /\ step'[c] # "idle" =>
              \/ reply'[c] = "none"
              \/ reply'[c] = reply[c] /\ step[c] # "idle"
<1> USE NoTimeToLive DEF TypeOK
<1>1. CASE SendLogin(c) \/ SendToken(c)
  BY <1>1 DEF SendLogin, SendToken, Send
<1>2. CASE LoginRefused(c) \/ Deactivated(c) \/ RefreshRefused(c) \/ Unavailable(c)
  BY <1>2 DEF LoginRefused, Deactivated, RefreshRefused, Unavailable, Respond
<1>3. CASE Login(c)
  BY <1>3 DEF Login, IssuePair, Respond
<1>4. CASE NotRevoked(c)
  BY <1>4 DEF NotRevoked
<1>5. CASE Exchange(c) \/ Logout(c)
  BY <1>5 DEF Exchange, Logout, Respond
<1> QED
  BY <1>1, <1>2, <1>3, <1>4, <1>5 DEF Handle

\* Steps that are no session's leave the replies and the blacklist, and make
\* no client wait.
LEMMA RepliesStay ==
  ASSUME [Next]_vars,
         ~ \E c \in Clients :
             SendLogin(c) \/ SendToken(c) \/ Handle(c) \/ Unavailable(c)
  PROVE  /\ UNCHANGED <<reply, revoked>>
         /\ step' = step \/ step' = [c \in Clients |-> "idle"]
BY DEF Next, Arrive, Register, DatabaseFails, StatementFails,
       AcknowledgementLost, SetActive, Free, Taken, TwiceTaken, Insert,
       InsertRaises, AnswerEarly, Commit, Refuse, Crash, vars, clientVars

\* No refresh token is ever blacklisted (auth.py 243, 278).
THEOREM BlacklistStaysEmpty == Spec => []NothingIsRevoked
<1>1. Init => NothingIsRevoked
  BY DEF Init, NothingIsRevoked
<1>2. TypeOK /\ NothingIsRevoked /\ [Next]_vars => NothingIsRevoked'
  BY SessionReplies, RepliesStay DEF NothingIsRevoked
<1> QED
  BY <1>1, <1>2, TypeCorrect, PTL DEF Spec

LEMMA BusyClientsWait == Spec => [](TypeOK /\ UnansweredWhileBusy)
<1>1. Init => UnansweredWhileBusy
  BY DEF Init, UnansweredWhileBusy
<1>2. ASSUME TypeOK, UnansweredWhileBusy, [Next]_vars
      PROVE  UnansweredWhileBusy'
  <2> USE DEF UnansweredWhileBusy, TypeOK
  <2>1. CASE \E c \in Clients :
               SendLogin(c) \/ SendToken(c) \/ Handle(c) \/ Unavailable(c)
    BY <1>2, <2>1, SessionReplies
  <2>2. CASE ~ \E c \in Clients :
                 SendLogin(c) \/ SendToken(c) \/ Handle(c) \/ Unavailable(c)
    BY <1>2, <2>2, RepliesStay
  <2> QED
    BY <2>1, <2>2
<1> QED
  BY <1>1, <1>2, TypeCorrect, PTL DEF Spec

\* No refresh gives a pair and no logout succeeds (auth.py 205, 258).
THEOREM RefreshAndLogoutFail == Spec => OnlyLoginsSucceed
<1>1. ASSUME TypeOK, UnansweredWhileBusy, [Next]_vars,
             NEW c \in Clients, step[c] \in {"refresh", "exchange", "logout"}
      PROVE  reply'[c] \notin {"pair", "gone"}
  <2> USE DEF UnansweredWhileBusy, TypeOK
  <2>1. reply[c] = "none"
    BY <1>1
  <2>2. CASE \E d \in Clients :
               SendLogin(d) \/ SendToken(d) \/ Handle(d) \/ Unavailable(d)
    BY <1>1, <2>1, <2>2, SessionReplies
  <2>3. CASE ~ \E d \in Clients :
                 SendLogin(d) \/ SendToken(d) \/ Handle(d) \/ Unavailable(d)
    BY <1>1, <2>1, <2>3, RepliesStay
  <2> QED
    BY <2>2, <2>3
<1>2. TypeOK /\ UnansweredWhileBusy /\ [Next]_vars =>
        [\A c \in Clients :
           step[c] \in {"refresh", "exchange", "logout"} =>
             reply'[c] \notin {"pair", "gone"}]_vars
  BY <1>1
<1> QED
  BY <1>2, BusyClientsWait, PTL DEF Spec, OnlyLoginsSucceed

\* A refresh token is of a stored account, and was issued to its client.
TokensHaveAccounts ==
  \A c \in Clients : token[c] # "none" => token[c] \in stored /\ issued[c] > 0

\* How a step of a session changes its token: only by a login, which takes
\* the account from the table.
LEMMA SessionTokens ==
  ASSUME TypeOK, NEW c \in Clients,
         SendLogin(c) \/ SendToken(c) \/ Handle(c) \/ Unavailable(c)
  PROVE  \/ UNCHANGED <<token, issued>>
         \/ \E a \in stored : /\ token' = [token EXCEPT ![c] = a]
                              /\ issued' = [issued EXCEPT ![c] = @ + 1]
<1>1. CASE Login(c)
  BY <1>1 DEF Login, IssuePair, Named
<1>2. CASE ~ Login(c)
  BY <1>2, NoTimeToLive
  DEF SendLogin, SendToken, Send, Handle, Unavailable, LoginRefused,
      Deactivated, RefreshRefused, NotRevoked, Exchange, Logout
<1> QED
  BY <1>1, <1>2

\* Whoever holds a refresh token has an account that no rollback took away,
\* whenever it logged in beside the sessions of others (auth.py 179).
THEOREM TokensAreOfAccounts == Spec => []TokensHaveAccounts
<1>1. Init => TokensHaveAccounts
  BY NoAccountAssumption DEF Init, TokensHaveAccounts
<1>2. ASSUME TypeOK, TokensHaveAccounts, [Next]_vars
      PROVE  TokensHaveAccounts'
  <2>1. stored \subseteq stored'
    BY <1>2, AccountsStay
  <2>2. CASE \E c \in Clients :
               SendLogin(c) \/ SendToken(c) \/ Handle(c) \/ Unavailable(c)
    BY <1>2, <2>1, <2>2, SessionTokens DEF TokensHaveAccounts, TypeOK
  <2>3. CASE ~ \E c \in Clients :
                 SendLogin(c) \/ SendToken(c) \/ Handle(c) \/ Unavailable(c)
    <3>1. UNCHANGED <<token, issued>>
      BY <1>2, <2>3 DEF Next, Arrive, Register, DatabaseFails,
        StatementFails, AcknowledgementLost, SetActive, Free, Taken,
        TwiceTaken, Insert, InsertRaises, AnswerEarly, Commit, Refuse, Crash,
        vars, clientVars
    <3> QED
      BY <1>2, <2>1, <3>1 DEF TokensHaveAccounts
  <2> QED
    BY <2>2, <2>3
<1> QED
  BY <1>1, <1>2, TypeCorrect, PTL DEF Spec
=============================================================================
