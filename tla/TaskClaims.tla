----------------------------- MODULE TaskClaims -----------------------------
(***************************************************************************)
(* What the repository says of POST /tasks and its code does not do.       *)
(***************************************************************************)
EXTENDS MCTaskRequests

\* seed_model_profiles (registry.py:73) says "Insert seed model profiles if
\* the table is empty.": the seeds are stored by one request only.  The read
\* of one session does not see the rows another one has flushed.
SeededOnce ==
  \A r, s \in Requests :
    r # s => \/ \A row \in SeedRows(r) : profiles[row] = "absent"
             \/ \A row \in SeedRows(s) : profiles[row] = "absent"

\* db/models.py:190 says of file_changes "Records every file created,
\* modified, or deleted by the Coder agent", and coder.py:192-193 means to
\* leave out a file whose write failed.  The call never raises, so the file
\* is recorded as created.
RecordedFilesExist ==
  \A r \in Requests : changes[r] \subseteq workspace[r]
=============================================================================
