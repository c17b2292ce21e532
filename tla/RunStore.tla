------------------------------ MODULE RunStore ------------------------------
(***************************************************************************)
(* What POST /tasks promises about the database, and nothing of how: the   *)
(* run and its file changes are stored together, once, and never changed   *)
(* afterwards; a request that was answered with an error stores nothing    *)
(* any more, and an answer is not taken back.                              *)
(* A stored run is represented by the set of files it lists, a request by  *)
(* the set of its stored runs.                                             *)
(***************************************************************************)
CONSTANTS
  Requests,                     \* the POST /tasks requests
  Paths                         \* the file paths a run may list

VARIABLES
  stored,                       \* request -> {}, or the set of one file list
  answer                        \* request -> "none", "created" or "error"

storeVars == <<stored, answer>>

StoreInit ==
  /\ stored = [r \in Requests |-> {}]
  /\ answer = [r \in Requests |-> "none"]

\* The client is promised a run that is not stored yet.
Promise(r) ==
  /\ stored[r] = {}
  /\ answer[r] = "none"
  /\ answer' = [answer EXCEPT ![r] = "created"]
  /\ UNCHANGED stored

\* Who has no answer yet is told of the run as it is stored, or, when the
\* acknowledgement of the database is lost, is answered with an error or not
\* at all.
Store(r, files) ==
  /\ stored[r] = {}
  /\ answer[r] # "error"
  /\ stored' = [stored EXCEPT ![r] = {files}]
  /\ \E told \in {"created", "error", "none"} :
       answer' = [answer EXCEPT ![r] = IF @ = "none" THEN told ELSE @]

Refuse(r) ==
  /\ stored[r] = {}
  /\ answer[r] = "none"
  /\ answer' = [answer EXCEPT ![r] = "error"]
  /\ UNCHANGED stored

StoreNext ==
  \E r \in Requests :
    \/ Promise(r)
    \/ Refuse(r)
    \/ \E files \in SUBSET Paths : Store(r, files)

StoreSpec == StoreInit /\ [][StoreNext]_storeVars
=============================================================================
