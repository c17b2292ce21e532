------------------------------ MODULE Accounts ------------------------------
(***************************************************************************)
(* Accounts and sessions (apps/api/routers/auth.py, core/auth): concurrent *)
(* POST /auth/register requests, each with a database session of its own   *)
(* (db/session.py), and clients that log in, refresh and log out.          *)
(*                                                                         *)
(* register checks and then inserts; what it inserts is unseen by others   *)
(* until its session is committed, and the unique indexes of users make    *)
(* another insert of the same email or username wait for that.  An account *)
(* is named by the request that made it.  Passwords and access tokens are  *)
(* left out, and of a refresh token its account and number are kept.  The  *)
(* limit of ten requests a minute comes before the handlers.               *)
(***************************************************************************)
EXTENDS Naturals

CONSTANTS
  Requests,             \* the POST /auth/register requests
  Emails, Usernames,
  Forms,                \* what the requests may bring: functions to Form
  Clients,              \* clients with a session
  Pairs                 \* bound: token pairs a client obtains

Form == [email : Emails, username : Usernames]

ASSUME FormsAssumption == Forms \subseteq [Requests -> Form]
ASSUME PairsAssumption == Pairs \in Nat
ASSUME NoAccountAssumption == "none" \notin Requests

VARIABLES
  \* Registration.
  pc,                   \* what the handler does next
  form,                 \* the RegisterRequest
  answer,               \* the response the client has
  \* The database: what is committed.
  stored,               \* the accounts in users
  active,               \* those with is_active
  \* The session of a client.
  step,                 \* the request that is handled, or "idle"
  name,                 \* the username it logs in with, or "none"
  token,                \* the account of its refresh token, "none" without
  issued,               \* pairs it has obtained: its token is the last one
  reply,                \* the response to its last request
  \* Redis.
  revoked               \* the blacklisted refresh tokens

regVars == <<pc, form, answer>>
dbVars == <<stored, active>>
clientVars == <<step, name, token, issued, reply>>
vars == <<regVars, dbVars, clientVars, revoked>>

\* A handler is over, and in doubt if it does not know of its commit.
Over == {"end", "in_doubt"}

Answers == {"none", "created", "email_taken", "username_taken", "error"}
Steps == {"idle", "login", "refresh", "exchange", "logout"}

\* "error" is what the code raises while everything is up, "unavailable" a
\* database or Redis that is not: both are a 500 to the client.
Replies == {"none", "pair", "unauthorized", "forbidden", "gone", "error",
            "unavailable"}

TypeOK ==
  /\ pc \in [Requests -> {"received", "check", "insert", "commit"} \cup Over]
  /\ form \in [Requests -> Form]
  /\ answer \in [Requests -> Answers]
  /\ stored \in SUBSET Requests
  /\ active \in SUBSET stored
  /\ step \in [Clients -> Steps]
  /\ name \in [Clients -> Usernames \cup {"none"}]
  /\ token \in [Clients -> Requests \cup {"none"}]
  /\ issued \in [Clients -> Nat]
  /\ reply \in [Clients -> Replies]
  /\ revoked \in SUBSET (Clients \X Nat)

Init ==
  /\ pc = [r \in Requests |-> "received"]
  /\ form \in Forms
  /\ answer = [r \in Requests |-> "none"]
  /\ stored = {} /\ active = {}
  /\ step = [c \in Clients |-> "idle"]
  /\ name = [c \in Clients |-> "none"]
  /\ token = [c \in Clients |-> "none"]
  /\ issued = [c \in Clients |-> 0]
  /\ reply = [c \in Clients |-> "none"]
  /\ revoked = {}
-----------------------------------------------------------------------------
(***************************************************************************)
(* Registration.                                                           *)
(***************************************************************************)
SameEmail(a, b) == form[a].email = form[b].email
SameName(a, b) == form[a].username = form[b].username
Conflict(a, b) == a # b /\ (SameEmail(a, b) \/ SameName(a, b))

\* Accounts that are inserted and not committed.
Inserted == {r \in Requests : pc[r] = "commit"}

\* Seeded fault: a session sees what others have not committed.
SeesInserted(r) == {a \in stored \cup Inserted : Conflict(a, r)}

\* The accounts the check of register selects.
Existing(r) == {a \in stored : Conflict(a, r)}

Goto(r, next) == pc' = [pc EXCEPT ![r] = next]

Answer(r, what) ==
  answer' = [answer EXCEPT ![r] = IF @ = "none" THEN what ELSE @]

\* The handler raises: get_db rolls back.
Refuse(r, what) ==
  /\ Goto(r, "end")
  /\ Answer(r, what)
  /\ UNCHANGED <<form, dbVars, clientVars, revoked>>

Arrive(r) ==
  /\ pc[r] = "received"
  /\ Goto(r, "check")
  /\ UNCHANGED <<form, answer, dbVars, clientVars, revoked>>

Free(r) ==
  /\ pc[r] = "check"
  /\ Existing(r) = {}
  /\ Goto(r, "insert")
  /\ UNCHANGED <<form, answer, dbVars, clientVars, revoked>>

Taken(r) ==
  /\ pc[r] = "check"
  /\ \E a \in Existing(r) :
       /\ Existing(r) = {a}
       /\ Refuse(r, IF SameEmail(a, r) THEN "email_taken" ELSE "username_taken")

\* The email of one account and the username of another: scalar_one_or_none
\* raises MultipleResultsFound, which is no HTTPException.
TwiceTaken(r) ==
  /\ pc[r] = "check"
  /\ \E a, b \in Existing(r) : a # b
  /\ Refuse(r, "error")

\* Seeded fault: users has no unique indexes.
Insertable(r) == pc[r] = "insert"

\* db.flush: the insert waits for the sessions that inserted the same.
MayInsert(r) ==
  /\ pc[r] = "insert"
  /\ ~ \E a \in stored \cup Inserted : Conflict(a, r)

Insert(r) ==
  /\ MayInsert(r)
  /\ Goto(r, "commit")
  /\ UNCHANGED <<form, answer, dbVars, clientVars, revoked>>

Violates(r) == pc[r] = "insert" /\ Existing(r) # {}

\* Seeded fault: an insert that fails is tried again.
InsertAgain(r) == Violates(r) /\ UNCHANGED vars

\* IntegrityError, which nothing catches.
InsertRaises(r) == Violates(r) /\ Refuse(r, "error")

\* See TaskRequests: the response may leave before the commit.
AnswerEarly(r) ==
  /\ pc[r] = "commit"
  /\ answer[r] = "none"
  /\ Answer(r, "created")
  /\ UNCHANGED <<pc, form, dbVars, clientVars, revoked>>

\* Seeded fault: the account is activated in a session of its own.
Activate(r) == active' = active \cup {r} /\ UNCHANGED stored

Store(r) ==
  /\ stored' = stored \cup {r}
  /\ active' = active \cup {r}

Commit(r) ==
  /\ pc[r] = "commit"
  /\ Store(r)
  /\ Answer(r, "created")
  /\ Goto(r, "end")
  /\ UNCHANGED <<form, clientVars, revoked>>

StatementFails(r) ==
  /\ pc[r] \in {"check", "insert", "commit"}
  /\ Refuse(r, "error")

\* The account is stored, and the acknowledgement of the commit is lost: see
\* TaskRequests.
AcknowledgementLost(r) ==
  /\ pc[r] = "commit"
  /\ Store(r)
  /\ Answer(r, "error") \/ UNCHANGED answer
  /\ Goto(r, "in_doubt")
  /\ UNCHANGED <<form, clientVars, revoked>>

DatabaseFails(r) == StatementFails(r) \/ AcknowledgementLost(r)
-----------------------------------------------------------------------------
(***************************************************************************)
(* Sessions.                                                               *)
(***************************************************************************)
RefreshDays == 7                              \* REFRESH_TOKEN_EXPIRE_DAYS
DaySeconds == 24 * 60 * 60

\* timedelta(days = RefreshDays).seconds is the part of it below a day.
Ttl == (RefreshDays * DaySeconds) % DaySeconds

Send(c, request) ==
  /\ step[c] = "idle"
  /\ step' = [step EXCEPT ![c] = request]
  /\ reply' = [reply EXCEPT ![c] = "none"]
  /\ UNCHANGED <<regVars, dbVars, token, issued, revoked>>

Respond(c, what) ==
  /\ step' = [step EXCEPT ![c] = "idle"]
  /\ reply' = [reply EXCEPT ![c] = what]
  /\ name' = [name EXCEPT ![c] = "none"]
  /\ UNCHANGED <<regVars, dbVars>>

\* create_token_pair.
IssuePair(c, account) ==
  /\ token' = [token EXCEPT ![c] = account]
  /\ issued' = [issued EXCEPT ![c] = @ + 1]
  /\ Respond(c, "pair")

SendLogin(c) ==
  /\ issued[c] < Pairs
  /\ Send(c, "login")
  /\ \E n \in Usernames : name' = [name EXCEPT ![c] = n]

\* No account has the name, or the password is another.
LoginRefused(c) ==
  /\ step[c] = "login"
  /\ Respond(c, "unauthorized")
  /\ UNCHANGED <<token, issued, revoked>>

\* The account with a name: scalar_one_or_none relies on there being one.
Named(n) == {a \in stored : form[a].username = n}

Deactivated(c) ==
  /\ step[c] = "login"
  /\ Named(name[c]) \ active # {}
  /\ Respond(c, "forbidden")
  /\ UNCHANGED <<token, issued, revoked>>

Login(c) ==
  /\ step[c] = "login"
  /\ \E a \in Named(name[c]) \cap active : IssuePair(c, a)
  /\ UNCHANGED revoked

SendToken(c) ==
  /\ token[c] # "none"
  /\ Send(c, "refresh") \/ Send(c, "logout")
  /\ UNCHANGED name

\* The token has expired, or is blacklisted.
RefreshRefused(c) ==
  /\ step[c] = "refresh"
  /\ Respond(c, "unauthorized")
  /\ UNCHANGED <<token, issued, revoked>>

NotRevoked(c) ==
  /\ step[c] = "refresh"
  /\ <<c, issued[c]>> \notin revoked
  /\ step' = [step EXCEPT ![c] = "exchange"]
  /\ UNCHANGED <<regVars, dbVars, name, token, issued, reply, revoked>>

Revoke(c) == revoked' = revoked \cup {<<c, issued[c]>>}

\* SETEX refuses a time to live of 0: then the call raises, before the user
\* is looked at.
Exchange(c) ==
  /\ step[c] = "exchange"
  /\ IF Ttl = 0
       THEN Respond(c, "error") /\ UNCHANGED <<token, issued, revoked>>
       ELSE /\ Revoke(c)
            /\ IF token[c] \in active
                 THEN IssuePair(c, token[c])
                 ELSE Respond(c, "unauthorized") /\ UNCHANGED <<token, issued>>

Logout(c) ==
  /\ step[c] = "logout"
  /\ IF Ttl = 0
       THEN Respond(c, "error") /\ UNCHANGED revoked
       ELSE Respond(c, "gone") /\ Revoke(c)
  /\ UNCHANGED <<token, issued>>

Unavailable(c) ==
  /\ step[c] # "idle"
  /\ Respond(c, "unavailable")
  /\ UNCHANGED <<token, issued, revoked>>
-----------------------------------------------------------------------------
\* Nothing in the code changes is_active: somebody does it in the database.
SetActive(a) ==
  /\ a \in stored
  /\ active' = IF a \in active THEN active \ {a} ELSE active \cup {a}
  /\ UNCHANGED <<regVars, stored, clientVars, revoked>>

\* The server dies: open database sessions are rolled back.
InProgress == {r \in Requests : pc[r] \notin {"received"} \cup Over}

Crash ==
  /\ InProgress # {}
  /\ pc' = [r \in Requests |-> IF r \in InProgress THEN "end" ELSE pc[r]]
  /\ step' = [c \in Clients |-> "idle"]
  /\ UNCHANGED <<form, answer, dbVars, name, token, issued, reply, revoked>>

Register(r) ==
  \/ Free(r) \/ Taken(r) \/ TwiceTaken(r)
  \/ Insert(r) \/ InsertRaises(r)
  \/ AnswerEarly(r) \/ Commit(r)

Handle(c) ==
  \/ LoginRefused(c) \/ Deactivated(c) \/ Login(c)
  \/ RefreshRefused(c) \/ NotRevoked(c) \/ Exchange(c) \/ Logout(c)

Next ==
  \/ \E r \in Requests : Arrive(r) \/ Register(r) \/ DatabaseFails(r) \/ SetActive(r)
  \/ \E c \in Clients : SendLogin(c) \/ SendToken(c) \/ Handle(c) \/ Unavailable(c)
  \/ Crash

Spec == Init /\ [][Next]_vars

\* Every await of a handler returns or raises, but for an insert that waits
\* for another session.
FairSpec ==
  /\ Spec
  /\ \A r \in Requests : WF_vars(Register(r))
  /\ \A c \in Clients : WF_vars(Handle(c))
-----------------------------------------------------------------------------
(***************************************************************************)
(* Properties.                                                             *)
(***************************************************************************)

\* No two accounts share an email or a username, be they stored or inserted
\* by a session that may already have answered 201: the check of register
\* does not see the sessions that run beside it (auth.py 124), and login
\* takes the one account of a name (auth.py 180).
AccountsAreUnique ==
  \A a, b \in stored \cup Inserted : ~ Conflict(a, b)

\* A 409 tells the truth, for good: the email, or the username, belongs to a
\* stored account, also when the sessions beside it were rolled back.
ConflictIsReal ==
  \A r \in Requests :
    /\ answer[r] = "email_taken" => \E a \in stored : a # r /\ SameEmail(a, r)
    /\ answer[r] = "username_taken" => \E a \in stored : a # r /\ SameName(a, r)

\* Every registration ends, also one that waits for the insert of another,
\* and every request of a client is answered.
RequestsEnd ==
  /\ \A r \in Requests : pc[r] = "check" ~> pc[r] \in Over
  /\ \A c \in Clients : step[c] # "idle" ~> step[c] = "idle"

\* The docstring of refresh_token says "Exchange a refresh token for a new
\* token pair." (auth.py 206): the answer to a token that is neither expired
\* nor revoked, of an active account, while database and Redis are up.
RefreshGivesPair ==
  [][\A c \in Clients :
       step[c] = "exchange" /\ step'[c] = "idle" /\ token[c] \in active =>
         reply'[c] \in {"pair", "unavailable", "none"}]_vars
=============================================================================
