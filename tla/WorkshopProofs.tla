--------------------------- MODULE WorkshopProofs ---------------------------
(***************************************************************************)
(* Proofs about Workshop, for any plans, paths, names of status files,     *)
(* numbers of iterations and executions.                                   *)
(*                                                                         *)
(* The inductive invariant IInv says, next to the types: what is in work   *)
(* has a task, a kept text and met dependencies (WorkInHand, KeptTexts);   *)
(* the counters count every task but the one in work (Counted); a done     *)
(* task is on the disk, up to the one that is being saved (OnDisk); and a  *)
(* status names a file that was written (CompletedFilesExist).             *)
(***************************************************************************)
EXTENDS Workshop, FiniteSetTheorems, TLAPS

Saving == {"save", "record"}
Live == Working \cup {"ended"}

\* What is in work has a task, and the status that goes with the step.
WorkInHand ==
  /\ at \in Working \ {"save_plan", "pick"} => cur \in Tasks
  /\ at = "generate" =>
       /\ status[cur] = "generating"
       /\ plan[cur].dependencies \subseteq DonePaths(plan, status)
  /\ at \in {"validate", "revalidate", "repair"} =>
       /\ status[cur] \in InFlight
       /\ hand # "none"
  /\ at \in Saving \cup {"log_done"} => status[cur] = "done"
  /\ at = "log_bad" => status[cur] = "failed"

\* A done task has kept a text, and one that parses if it is Python.
KeptTexts ==
  \A i \in DoneTasks :
    /\ content[i] # "none"
    /\ LanguageOf[Path(i)] = "python" => content[i] # "broken"

\* A task in work that the counters have still to count.
Uncounted(steps) == IF at \in steps THEN {cur} ELSE {}

Counted ==
  script # "retry" /\ at \in Live =>
    /\ generated = Cardinality(DoneTasks \ Uncounted(Saving \cup {"log_done"}))
    /\ failed = Cardinality(FailedTasks \ Uncounted({"log_bad"}))

\* A done task has its file, and its status file names a done task.
OnDisk ==
  at \in Live =>
    \A i \in DoneTasks \ Uncounted(Saving) :
      /\ workspace[Path(i)] = "whole"
      /\ \E j \in DoneTasks :
           /\ NameOf[Path(j)] = NameOf[Path(i)]
           /\ record[NameOf[Path(i)]] = Path(j)

\* save_file has been called before save_file_status is.
FileFirst == at = "record" => workspace[Path(cur)] = "whole"

IInv ==
  /\ TypeOK
  /\ WorkInHand
  /\ KeptTexts
  /\ Counted
  /\ OnDisk
  /\ FileFirst
  /\ CompletedFilesExist
-----------------------------------------------------------------------------
(***************************************************************************)
(* Types.                                                                  *)
(***************************************************************************)

\* A task has a path, and depends on paths.
LEMMA PathTyped ==
  ASSUME TypeOK, NEW i \in Tasks
  PROVE  Path(i) \in Paths /\ plan[i].dependencies \in SUBSET Paths
<1>1. plan \in Seq(FileTask)
  <2>1. plan \in Plans \cup {RetryPlan} \/ plan = << >>
    BY DEF TypeOK
  <2>2. << >> \in Seq(FileTask)
    OBVIOUS
  <2> QED
    BY <2>1, <2>2, PlansAssumption
<1>2. plan[i] \in FileTask
  BY <1>1 DEF Tasks
<1> QED
  BY <1>2 DEF FileTask, Path

\* There are finitely many tasks.
LEMMA TasksAreFinite ==
  ASSUME TypeOK
  PROVE  /\ IsFiniteSet(DoneTasks)
         /\ IsFiniteSet(FailedTasks)
<1>1. plan \in Seq(FileTask)
  <2>1. plan \in Plans \cup {RetryPlan} \/ plan = << >>
    BY DEF TypeOK
  <2>2. << >> \in Seq(FileTask)
    OBVIOUS
  <2> QED
    BY <2>1, <2>2, PlansAssumption
<1>2. Tasks = 1 .. Len(plan) /\ Len(plan) \in Nat
  BY <1>1 DEF Tasks
<1>3. IsFiniteSet(Tasks)
  BY <1>2, FS_Interval
<1> QED
  BY <1>3, FS_Subset DEF DoneTasks, FailedTasks

\* What an execution that is cut off leaves on the disk has its types.
LEMMA HalfDoneTyped ==
  ASSUME TypeOK, WorkInHand, at \in Working, HalfDone
  PROVE  /\ workspace' \in [Paths -> FileState]
         /\ record' \in [Names -> RecordState]
<1>1. CASE at = "save"
  <2>1. SaveFileCut(Path(cur)) /\ UNCHANGED record
    BY <1>1 DEF HalfDone
  <2>2. \A x : CutOff(x) \in FileState
    BY DEF CutOff, FileState
  <2> QED
    BY <2>1, <2>2 DEF SaveFileCut, TypeOK
<1>2. CASE at = "record"
  BY <1>2 DEF HalfDone, SaveStatusCut, TypeOK, RecordState
<1>3. CASE at \notin {"save", "record"}
  BY <1>3 DEF HalfDone, disk, TypeOK
<1> QED
  BY <1>1, <1>2, <1>3

LEMMA InitTypeOK ==
  ASSUME Init
  PROVE  TypeOK
BY ExecutionsAssumption
DEF Init, TypeOK, Tasks, Resting, Texts, FileState, RecordState

LEMMA NextTypeOK ==
  ASSUME TypeOK, WorkInHand, [Next]_vars
  PROVE  TypeOK'
<1> USE DEF TypeOK, Tasks, Goto
<1> USE DEF memory, disk
<1>1. ASSUME NEW s \in Scripts, Begin(s)
      PROVE  TypeOK'
  <2>1. plan' \in Plans \cup {RetryPlan}
    BY <1>1 DEF Begin, PlansOf
  <2>2. executions' \in 0 .. Executions
    BY <1>1, ExecutionsAssumption DEF Begin
  <2> QED
    BY <1>1, <2>1, <2>2 DEF Begin, Texts, FileStatus, Working
<1>2. ASSUME NEW s \in Scripts, NoBegin(s)
      PROVE  TypeOK'
  <2>1. executions' \in 0 .. Executions
    BY <1>2, ExecutionsAssumption DEF NoBegin
  <2> QED
    BY <1>2, <2>1 DEF NoBegin, Forget, Texts, Resting
<1>3. ASSUME Pick
      PROVE  TypeOK'
  BY <1>3 DEF Pick, FirstReady, ReadyTasks, FileStatus, Working
<1>4. ASSUME EndLoop
      PROVE  TypeOK'
  BY <1>4 DEF EndLoop, Texts, Resting
<1>5. ASSUME Generate
      PROVE  TypeOK'
  BY <1>5 DEF Generate, SetStatus, FileStatus, Working
<1>6. ASSUME GenerateFails
      PROVE  TypeOK'
  <2>1. failed' \in Nat /\ at' \in Working
    BY <1>6 DEF GenerateFails, Working
  <2> QED
    BY <1>6, <2>1 DEF GenerateFails, SetStatus, FileStatus
<1>7. ASSUME Valid
      PROVE  TypeOK'
  BY <1>7 DEF Valid, Keep, SetStatus, FileStatus, Working
<1>8. ASSUME Invalid
      PROVE  TypeOK'
  BY <1>8 DEF Invalid, SetStatus, FileStatus, Working
<1>9. ASSUME Repair
      PROVE  TypeOK'
  BY <1>9 DEF Repair, Texts, Working
<1>10. ASSUME RepairFails
       PROVE  TypeOK'
  <2>1. failed' \in Nat /\ at' \in Working
    BY <1>10 DEF RepairFails, Working
  <2> QED
    BY <1>10, <2>1 DEF RepairFails, SetStatus, FileStatus
<1>11. ASSUME Save
       PROVE  TypeOK'
  BY <1>11 DEF Save, SaveFile, FileState, Working
<1>12. ASSUME Record
       PROVE  TypeOK'
  <2>1. Path(cur) \in Paths
    BY <1>12, PathTyped DEF Record, WorkInHand, Working
  <2>2. record' \in [Names -> RecordState]
    BY <1>12, <2>1 DEF Record, SaveStatus, RecordState
  <2> QED
    BY <1>12, <2>2 DEF Record, Count, Working
<1>13. ASSUME Log
       PROVE  TypeOK'
  BY <1>13 DEF Log, Count, Working
<1>14. ASSUME WriteFails
       PROVE  TypeOK'
  BY <1>14, HalfDoneTyped DEF WriteFails, Working, Resting
<1>15. ASSUME Crash
       PROVE  TypeOK'
  BY <1>15, HalfDoneTyped DEF Crash, Forget, Texts, Resting
<1>16. ASSUME UNCHANGED vars
       PROVE  TypeOK'
  BY <1>16 DEF vars
<1>17. ASSUME SavePlan
       PROVE  TypeOK'
  BY <1>17 DEF SavePlan, Working
<1>18. ASSUME ValidatorRaises
       PROVE  TypeOK'
  BY <1>18 DEF ValidatorRaises, Resting, Working
<1> QED
  BY <1>1, <1>2, <1>3, <1>4, <1>5, <1>6, <1>7, <1>8, <1>9, <1>10, <1>11,
     <1>12, <1>13, <1>14, <1>15, <1>16, <1>17, <1>18 DEF Next, Step
-----------------------------------------------------------------------------
(***************************************************************************)
(* The task in work, and what is kept.                                     *)
(***************************************************************************)

LEMMA NextWorkInHand ==
  ASSUME TypeOK, WorkInHand, [Next]_vars
  PROVE  WorkInHand'
<1> USE DEF WorkInHand, TypeOK, Tasks, Goto, Saving, memory
<1>1. ASSUME NEW s \in Scripts, Begin(s)
      PROVE  WorkInHand'
  BY <1>1 DEF Begin
<1>2. ASSUME NEW s \in Scripts, NoBegin(s)
      PROVE  WorkInHand'
  BY <1>2 DEF NoBegin, Working
<1>3. ASSUME Pick
      PROVE  WorkInHand'
  <2>1. PICK i \in FirstReady(plan, status) :
          cur' = i /\ status' = [status EXCEPT ![i] = "generating"]
    BY <1>3 DEF Pick
  <2>2. /\ i \in Tasks
        /\ status[i] = "pending"
        /\ plan[i].dependencies \subseteq DonePaths(plan, status)
    BY <2>1 DEF FirstReady, ReadyTasks
  <2>3. DonePaths(plan, status) \subseteq DonePaths(plan, status')
    BY <2>1, <2>2 DEF DonePaths
  <2> QED
    BY <1>3, <2>1, <2>2, <2>3 DEF Pick
<1>4. ASSUME EndLoop
      PROVE  WorkInHand'
  BY <1>4 DEF EndLoop, Working
<1>5. ASSUME Generate
      PROVE  WorkInHand'
  BY <1>5 DEF Generate, SetStatus, Rejected, InFlight, Working
<1>6. ASSUME GenerateFails
      PROVE  WorkInHand'
  BY <1>6 DEF GenerateFails, SetStatus, Working
<1>7. ASSUME Valid
      PROVE  WorkInHand'
  BY <1>7 DEF Valid, Keep, SetStatus, Working
<1>8. ASSUME Invalid
      PROVE  WorkInHand'
  BY <1>8 DEF Invalid, SetStatus, InFlight, Working
<1>9. ASSUME Repair
      PROVE  WorkInHand'
  BY <1>9 DEF Repair, Working
<1>10. ASSUME RepairFails
       PROVE  WorkInHand'
  BY <1>10 DEF RepairFails, SetStatus, Working
<1>11. ASSUME Save
       PROVE  WorkInHand'
  BY <1>11 DEF Save, Working
<1>12. ASSUME Record
       PROVE  WorkInHand'
  BY <1>12 DEF Record, Working
<1>13. ASSUME Log
       PROVE  WorkInHand'
  BY <1>13 DEF Log
<1>14. ASSUME WriteFails
       PROVE  WorkInHand'
  BY <1>14 DEF WriteFails, Working
<1>15. ASSUME Crash
       PROVE  WorkInHand'
  BY <1>15 DEF Crash, Working
<1>16. ASSUME UNCHANGED vars
       PROVE  WorkInHand'
  BY <1>16 DEF vars
<1>17. ASSUME SavePlan
       PROVE  WorkInHand'
  BY <1>17 DEF SavePlan
<1>18. ASSUME ValidatorRaises
       PROVE  WorkInHand'
  BY <1>18 DEF ValidatorRaises, Working
<1> QED
  BY <1>1, <1>2, <1>3, <1>4, <1>5, <1>6, <1>7, <1>8, <1>9, <1>10, <1>11,
     <1>12, <1>13, <1>14, <1>15, <1>16, <1>17, <1>18 DEF Next, Step

\* A task is done with a text at hand, and nothing takes the text away.
LEMMA NextKeptTexts ==
  ASSUME TypeOK, WorkInHand, KeptTexts, [Next]_vars
  PROVE  KeptTexts'
<1> USE DEF TypeOK, WorkInHand, KeptTexts, DoneTasks, Tasks, Path, Goto, memory
<1>1. ASSUME NEW s \in Scripts, Begin(s)
      PROVE  KeptTexts'
  BY <1>1 DEF Begin
<1>2. ASSUME NEW s \in Scripts, NoBegin(s)
      PROVE  KeptTexts'
  BY <1>2 DEF NoBegin, Forget
<1>3. ASSUME Pick
      PROVE  KeptTexts'
  BY <1>3 DEF Pick
<1>4. ASSUME EndLoop
      PROVE  KeptTexts'
  BY <1>4 DEF EndLoop
<1>5. ASSUME Generate
      PROVE  KeptTexts'
  BY <1>5 DEF Generate, SetStatus
<1>6. ASSUME GenerateFails
      PROVE  KeptTexts'
  BY <1>6 DEF GenerateFails, SetStatus
<1>7. ASSUME Valid
      PROVE  KeptTexts'
  <2>1. cur \in Tasks /\ hand # "none"
    BY <1>7 DEF Valid, Working
  <2>2. LanguageOf[Path(cur)] = "python" => hand # "broken"
    BY <1>7 DEF Valid, Verdicts, PythonSays
  <2> QED
    BY <1>7, <2>1, <2>2 DEF Valid, Keep, SetStatus
<1>8. ASSUME Invalid
      PROVE  KeptTexts'
  BY <1>8 DEF Invalid, SetStatus
<1>9. ASSUME Repair
      PROVE  KeptTexts'
  BY <1>9 DEF Repair
<1>10. ASSUME RepairFails
       PROVE  KeptTexts'
  BY <1>10 DEF RepairFails, SetStatus
<1>11. ASSUME Save
       PROVE  KeptTexts'
  BY <1>11 DEF Save
<1>12. ASSUME Record
       PROVE  KeptTexts'
  BY <1>12 DEF Record
<1>13. ASSUME Log
       PROVE  KeptTexts'
  BY <1>13 DEF Log
<1>14. ASSUME WriteFails
       PROVE  KeptTexts'
  BY <1>14 DEF WriteFails
<1>15. ASSUME Crash
       PROVE  KeptTexts'
  BY <1>15 DEF Crash, Forget
<1>16. ASSUME UNCHANGED vars
       PROVE  KeptTexts'
  BY <1>16 DEF vars
<1>17. ASSUME SavePlan
       PROVE  KeptTexts'
  BY <1>17 DEF SavePlan
<1>18. ASSUME ValidatorRaises
       PROVE  KeptTexts'
  BY <1>18 DEF ValidatorRaises
<1> QED
  BY <1>1, <1>2, <1>3, <1>4, <1>5, <1>6, <1>7, <1>8, <1>9, <1>10, <1>11,
     <1>12, <1>13, <1>14, <1>15, <1>16, <1>17, <1>18 DEF Next, Step

-----------------------------------------------------------------------------
(***************************************************************************)
(* The disk.                                                               *)
(***************************************************************************)

\* The status of a file is written right after the file.
LEMMA NextFileFirst ==
  ASSUME TypeOK, WorkInHand, FileFirst, [Next]_vars
  PROVE  FileFirst'
<1> USE DEF TypeOK, WorkInHand, FileFirst, Goto, memory, disk
<1>1. ASSUME NEW s \in Scripts, Begin(s)
      PROVE  FileFirst'
  BY <1>1 DEF Begin
<1>2. ASSUME NEW s \in Scripts, NoBegin(s)
      PROVE  FileFirst'
  BY <1>2 DEF NoBegin
<1>3. ASSUME Pick
      PROVE  FileFirst'
  BY <1>3 DEF Pick
<1>4. ASSUME EndLoop
      PROVE  FileFirst'
  BY <1>4 DEF EndLoop
<1>5. ASSUME Generate
      PROVE  FileFirst'
  BY <1>5 DEF Generate
<1>6. ASSUME GenerateFails
      PROVE  FileFirst'
  BY <1>6 DEF GenerateFails
<1>7. ASSUME Valid
      PROVE  FileFirst'
  BY <1>7 DEF Valid
<1>8. ASSUME Invalid
      PROVE  FileFirst'
  BY <1>8 DEF Invalid
<1>9. ASSUME Repair
      PROVE  FileFirst'
  BY <1>9 DEF Repair
<1>10. ASSUME RepairFails
       PROVE  FileFirst'
  BY <1>10 DEF RepairFails
<1>11. ASSUME Save
       PROVE  FileFirst'
  <2>1. Path(cur) \in Paths
    BY <1>11, PathTyped DEF Save, Working
  <2> QED
    BY <1>11, <2>1 DEF Save, SaveFile, Path
<1>12. ASSUME Record
       PROVE  FileFirst'
  BY <1>12 DEF Record
<1>13. ASSUME Log
       PROVE  FileFirst'
  BY <1>13 DEF Log
<1>14. ASSUME WriteFails
       PROVE  FileFirst'
  BY <1>14 DEF WriteFails
<1>15. ASSUME Crash
       PROVE  FileFirst'
  BY <1>15 DEF Crash
<1>16. ASSUME UNCHANGED vars
       PROVE  FileFirst'
  BY <1>16 DEF vars, Path
<1>17. ASSUME SavePlan
       PROVE  FileFirst'
  BY <1>17 DEF SavePlan
<1>18. ASSUME ValidatorRaises
       PROVE  FileFirst'
  BY <1>18 DEF ValidatorRaises
<1> QED
  BY <1>1, <1>2, <1>3, <1>4, <1>5, <1>6, <1>7, <1>8, <1>9, <1>10, <1>11,
     <1>12, <1>13, <1>14, <1>15, <1>16, <1>17, <1>18 DEF Next, Step
\* An execution cut off in the middle of a write leaves no status without
\* its file: a status file that was cut off is no status.
LEMMA HalfDoneSound ==
  ASSUME TypeOK, WorkInHand, CompletedFilesExist, at \in Working, HalfDone
  PROVE  CompletedFilesExist'
<1> USE DEF TypeOK, CompletedFilesExist, Completed
<1>1. CASE at = "save"
  <2>1. SaveFileCut(Path(cur)) /\ UNCHANGED record
    BY <1>1 DEF HalfDone
  <2>2. ASSUME NEW p \in Paths, workspace[p] \in {"whole", "spoiled"}
        PROVE  workspace'[p] \in {"whole", "spoiled"}
    BY <2>1, <2>2 DEF SaveFileCut, CutOff
  <2> QED
    BY <2>1, <2>2
<1>2. CASE at = "record"
  <2>1. SaveStatusCut(Path(cur)) /\ UNCHANGED workspace
    BY <1>2 DEF HalfDone
  <2>2. ASSUME NEW p \in Paths, record'[NameOf[p]] = p
        PROVE  record[NameOf[p]] = p
    BY <2>1, <2>2, RecordsAssumption, NamesAssumption DEF SaveStatusCut
  <2> QED
    BY <2>1, <2>2
<1>3. CASE at \notin {"save", "record"}
  BY <1>3 DEF HalfDone, disk
<1> QED
  BY <1>1, <1>2, <1>3

LEMMA NextCompleted ==
  ASSUME TypeOK, WorkInHand, FileFirst, CompletedFilesExist, [Next]_vars
  PROVE  CompletedFilesExist'
<1> USE DEF TypeOK, CompletedFilesExist, Completed
<1>1. ASSUME NEW s \in Scripts, Begin(s)
      PROVE  CompletedFilesExist'
  BY <1>1 DEF Begin, disk
<1>2. ASSUME NEW s \in Scripts, NoBegin(s)
      PROVE  CompletedFilesExist'
  BY <1>2 DEF NoBegin, disk
<1>3. ASSUME Pick
      PROVE  CompletedFilesExist'
  BY <1>3 DEF Pick, disk
<1>4. ASSUME EndLoop
      PROVE  CompletedFilesExist'
  BY <1>4 DEF EndLoop, disk
<1>5. ASSUME Generate
      PROVE  CompletedFilesExist'
  BY <1>5 DEF Generate, disk
<1>6. ASSUME GenerateFails
      PROVE  CompletedFilesExist'
  BY <1>6 DEF GenerateFails, disk
<1>7. ASSUME Valid
      PROVE  CompletedFilesExist'
  BY <1>7 DEF Valid, disk
<1>8. ASSUME Invalid
      PROVE  CompletedFilesExist'
  BY <1>8 DEF Invalid, disk
<1>9. ASSUME Repair
      PROVE  CompletedFilesExist'
  BY <1>9 DEF Repair, disk
<1>10. ASSUME RepairFails
       PROVE  CompletedFilesExist'
  BY <1>10 DEF RepairFails, disk
<1>11. ASSUME Save
       PROVE  CompletedFilesExist'
  BY <1>11 DEF Save, SaveFile
<1>12. ASSUME Record
       PROVE  CompletedFilesExist'
  <2>1. cur \in Tasks /\ workspace[Path(cur)] = "whole"
    BY <1>12 DEF Record, WorkInHand, FileFirst, Working
  <2>2. Path(cur) \in Paths
    BY <2>1, PathTyped
  <2>3. ASSUME NEW p \in Paths, record'[NameOf[p]] = p
        PROVE  p = Path(cur) \/ record[NameOf[p]] = p
    BY <1>12, <2>3, NamesAssumption DEF Record, SaveStatus
  <2>4. UNCHANGED workspace
    BY <1>12 DEF Record
  <2> QED
    BY <2>1, <2>3, <2>4
<1>13. ASSUME Log
       PROVE  CompletedFilesExist'
  BY <1>13 DEF Log, disk
<1>14. ASSUME WriteFails
       PROVE  CompletedFilesExist'
  BY <1>14, HalfDoneSound DEF WriteFails, Working
<1>15. ASSUME Crash
       PROVE  CompletedFilesExist'
  BY <1>15, HalfDoneSound DEF Crash
<1>16. ASSUME UNCHANGED vars
       PROVE  CompletedFilesExist'
  BY <1>16 DEF vars, disk
<1>17. ASSUME SavePlan
       PROVE  CompletedFilesExist'
  BY <1>17 DEF SavePlan, disk
<1>18. ASSUME ValidatorRaises
       PROVE  CompletedFilesExist'
  BY <1>18 DEF ValidatorRaises, disk
<1> QED
  BY <1>1, <1>2, <1>3, <1>4, <1>5, <1>6, <1>7, <1>8, <1>9, <1>10, <1>11,
     <1>12, <1>13, <1>14, <1>15, <1>16, <1>17, <1>18 DEF Next, Step

\* What OnDisk says of one task.
IsOnDisk(i) ==
  /\ workspace[Path(i)] = "whole"
  /\ \E j \in DoneTasks :
       /\ NameOf[Path(j)] = NameOf[Path(i)]
       /\ record[NameOf[Path(i)]] = Path(j)

\* A task stays on disk while the disk and the other done tasks stay.
LEMMA OnDiskStays ==
  ASSUME UNCHANGED <<plan, disk>>, DoneTasks \subseteq DoneTasks',
         NEW i, IsOnDisk(i)
  PROVE  IsOnDisk(i)'
BY DEF IsOnDisk, Path, disk

\* A step that leaves the disk alone, and adds no task but one being saved.
LEMMA OnDiskUnmoved ==
  ASSUME OnDisk, at \in Live, UNCHANGED <<plan, disk>>,
         DoneTasks \subseteq DoneTasks',
         (DoneTasks \ Uncounted(Saving))' \subseteq DoneTasks \ Uncounted(Saving)
  PROVE  OnDisk'
<1> SUFFICES ASSUME NEW i \in (DoneTasks \ Uncounted(Saving))'
             PROVE  IsOnDisk(i)'
  BY DEF OnDisk, IsOnDisk
<1>1. IsOnDisk(i)
  BY DEF OnDisk, IsOnDisk
<1> QED
  BY <1>1, OnDiskStays

\* The steps that write nothing: they add no done task but the one that is
\* to be saved.
LEMMA OnDiskInMemory ==
  ASSUME TypeOK, WorkInHand, OnDisk,
         \/ Pick \/ EndLoop
         \/ Generate \/ GenerateFails \/ Valid \/ Invalid
         \/ Repair \/ RepairFails \/ Log
  PROVE  OnDisk'
<1> USE DEF DoneTasks, Uncounted, Saving, Goto, TypeOK, WorkInHand, Tasks,
            Working
<1> DEFINE Saved == DoneTasks \ Uncounted(Saving)
<1>1. at \in Live /\ UNCHANGED <<plan, disk>>
  BY DEF Pick, EndLoop, Generate, GenerateFails, Valid, Invalid, Repair,
         RepairFails, Log, Live
<1>2. DoneTasks \subseteq DoneTasks' /\ Saved' \subseteq Saved
  <2>1. CASE Pick
    BY <2>1 DEF Pick, FirstReady, ReadyTasks
  <2>2. CASE EndLoop
    BY <2>2 DEF EndLoop
  <2>3. CASE Generate
    BY <2>3 DEF Generate, SetStatus, InFlight
  <2>4. CASE GenerateFails
    BY <2>4 DEF GenerateFails, SetStatus, InFlight
  <2>5. CASE Valid
    BY <2>5 DEF Valid, Keep, SetStatus
  <2>6. CASE Invalid
    BY <2>6 DEF Invalid, SetStatus, InFlight
  <2>7. CASE Repair
    BY <2>7 DEF Repair
  <2>8. CASE RepairFails
    BY <2>8 DEF RepairFails, SetStatus, InFlight
  <2>9. CASE Log
    BY <2>9 DEF Log, memory
  <2> QED
    BY <2>1, <2>2, <2>3, <2>4, <2>5, <2>6, <2>7, <2>8, <2>9
<1> QED
  BY <1>1, <1>2, OnDiskUnmoved

\* Saving a file, and then its status, puts a task on the disk.
LEMMA NextOnDisk ==
  ASSUME TypeOK, WorkInHand, FileFirst, OnDisk, [Next]_vars
  PROVE  OnDisk'
<1>1. ASSUME \/ Pick \/ EndLoop
             \/ Generate \/ GenerateFails \/ Valid \/ Invalid
             \/ Repair \/ RepairFails \/ Log
      PROVE  OnDisk'
  BY <1>1, OnDiskInMemory
<1>2. ASSUME NEW s \in Scripts, Begin(s)
      PROVE  OnDisk'
  BY <1>2 DEF Begin, OnDisk, DoneTasks, Tasks
<1>3. ASSUME NEW s \in Scripts, NoBegin(s)
      PROVE  OnDisk'
  BY <1>3 DEF NoBegin, OnDisk, Live, Working
<1>4. ASSUME Save
      PROVE  OnDisk'
  <2>1. cur \in Tasks
    BY <1>4 DEF Save, WorkInHand, Working
  <2>2. Path(cur) \in Paths
    BY <2>1, PathTyped
  <2>3. /\ UNCHANGED <<plan, record, status, cur>>
        /\ workspace' = [workspace EXCEPT ![Path(cur)] = "whole"]
        /\ at = "save" /\ at' = "record"
    BY <1>4 DEF Save, SaveFile, Goto, memory
  <2> SUFFICES ASSUME NEW i \in DoneTasks \ Uncounted(Saving)
               PROVE  IsOnDisk(i)'
    BY <2>3 DEF OnDisk, IsOnDisk, DoneTasks, Uncounted, Saving, Tasks, Path
  <2>4. IsOnDisk(i)
    BY <2>3 DEF OnDisk, IsOnDisk, Live, Working
  <2> QED
    BY <2>3, <2>4 DEF IsOnDisk, TypeOK, DoneTasks, Tasks, Path
<1>5. ASSUME Record
      PROVE  OnDisk'
  <2>1. cur \in Tasks /\ status[cur] = "done" /\ workspace[Path(cur)] = "whole"
    BY <1>5 DEF Record, WorkInHand, FileFirst, Working, Saving
  <2>2. Path(cur) \in Paths
    BY <2>1, PathTyped
  <2>3. /\ UNCHANGED <<plan, workspace, status, cur>>
        /\ record' = [record EXCEPT ![NameOf[Path(cur)]] = Path(cur)]
        /\ at = "record"
    BY <1>5 DEF Record, SaveStatus
  <2>4. DoneTasks' = DoneTasks /\ cur \in DoneTasks
    BY <2>1, <2>3 DEF DoneTasks, Tasks
  <2> SUFFICES ASSUME NEW i \in DoneTasks
               PROVE  IsOnDisk(i)'
    BY <2>4 DEF OnDisk, IsOnDisk
  <2>5. Path(i) \in Paths
    BY PathTyped DEF DoneTasks
  <2>6. CASE i = cur
    BY <2>1, <2>2, <2>3, <2>4, <2>6, NamesAssumption DEF IsOnDisk, TypeOK, Path
  <2>7. CASE i # cur
    <3>1. IsOnDisk(i)
      BY <2>3, <2>7 DEF OnDisk, IsOnDisk, Live, Working, Uncounted
    <3>2. CASE NameOf[Path(i)] = NameOf[Path(cur)]
      BY <3>1, <3>2, <2>2, <2>3, <2>4, <2>5, NamesAssumption
         DEF IsOnDisk, TypeOK, Path
    <3>3. CASE NameOf[Path(i)] # NameOf[Path(cur)]
      BY <3>1, <3>3, <2>2, <2>3, <2>4, <2>5, NamesAssumption
         DEF IsOnDisk, TypeOK, Path
    <3> QED
      BY <3>2, <3>3
  <2> QED
    BY <2>6, <2>7
<1>6. ASSUME WriteFails
      PROVE  OnDisk'
  BY <1>6 DEF WriteFails, OnDisk, Live, Working, Goto
<1>7. ASSUME Crash
      PROVE  OnDisk'
  BY <1>7 DEF Crash, OnDisk, Live, Working, Goto
<1>8. ASSUME UNCHANGED vars
      PROVE  OnDisk'
  <2>1. UNCHANGED <<at, plan, status, cur, disk>>
    BY <1>8 DEF vars, memory, disk
  <2>2. DoneTasks' = DoneTasks /\ Uncounted(Saving)' = Uncounted(Saving)
    BY <2>1 DEF DoneTasks, Uncounted, Tasks
  <2>3. CASE at \in Live
    BY <2>1, <2>2, <2>3, OnDiskUnmoved
  <2>4. CASE at \notin Live
    BY <2>1, <2>4 DEF OnDisk
  <2> QED
    BY <2>3, <2>4
<1>9. ASSUME SavePlan
      PROVE  OnDisk'
  <2>1. at \in Live /\ UNCHANGED <<plan, status, disk>>
    BY <1>9 DEF SavePlan, Live, Working, memory
  <2>2. DoneTasks' = DoneTasks
    BY <2>1 DEF DoneTasks, Tasks
  <2>3. Uncounted(Saving)' = {} /\ Uncounted(Saving) = {}
    BY <1>9 DEF SavePlan, Uncounted, Saving, Goto
  <2> QED
    BY <2>1, <2>2, <2>3, OnDiskUnmoved
<1>10. ASSUME ValidatorRaises
       PROVE  OnDisk'
  BY <1>10 DEF ValidatorRaises, OnDisk, Live, Working, Goto
<1> QED
  BY <1>1, <1>2, <1>3, <1>4, <1>5, <1>6, <1>7, <1>8, <1>9, <1>10
     DEF Next, Step

-----------------------------------------------------------------------------
(***************************************************************************)
(* The counters.                                                           *)
(***************************************************************************)
CountedDone == DoneTasks \ Uncounted(Saving \cup {"log_done"})
CountedFailed == FailedTasks \ Uncounted({"log_bad"})

LEMMA CountUnmoved ==
  ASSUME Counted, at \in Live, UNCHANGED <<script, generated, failed>>,
         CountedDone' = CountedDone, CountedFailed' = CountedFailed
  PROVE  Counted'
BY DEF Counted, CountedDone, CountedFailed

\* One more file is done, or failed, and is counted.
LEMMA CountsOneMore ==
  ASSUME TypeOK, Counted, at \in Live, script # "retry", UNCHANGED script,
         NEW x,
         \/ /\ generated' = generated + 1 /\ failed' = failed
            /\ x \notin CountedDone /\ CountedDone' = CountedDone \cup {x}
            /\ CountedFailed' = CountedFailed
         \/ /\ failed' = failed + 1 /\ generated' = generated
            /\ x \notin CountedFailed
            /\ CountedFailed' = CountedFailed \cup {x}
            /\ CountedDone' = CountedDone
  PROVE  Counted'
<1>1. IsFiniteSet(CountedDone) /\ IsFiniteSet(CountedFailed)
  BY TasksAreFinite, FS_Subset DEF CountedDone, CountedFailed
<1>2. /\ generated = Cardinality(CountedDone)
      /\ failed = Cardinality(CountedFailed)
  BY DEF Counted, CountedDone, CountedFailed
<1>3. /\ x \notin CountedDone =>
             Cardinality(CountedDone \cup {x}) = generated + 1
      /\ x \notin CountedFailed =>
             Cardinality(CountedFailed \cup {x}) = failed + 1
  BY <1>1, <1>2, FS_AddElement
<1>4. /\ generated' = Cardinality(CountedDone')
      /\ failed' = Cardinality(CountedFailed')
  BY <1>2, <1>3
<1> QED
  BY <1>4 DEF Counted, CountedDone, CountedFailed

\* The steps between the pick of a task and its count.
LEMMA NothingCounted ==
  ASSUME TypeOK, WorkInHand, Counted,
         \/ Pick \/ EndLoop
         \/ Generate \/ Valid \/ Invalid \/ Repair \/ Save
  PROVE  Counted'
<1> USE DEF CountedDone, CountedFailed, DoneTasks, FailedTasks, Uncounted,
            Saving, Goto, TypeOK, WorkInHand, Tasks, Working, memory
<1>1. at \in Live /\ UNCHANGED <<script, generated, failed>>
  BY DEF Pick, EndLoop, Generate, Valid, Invalid, Repair, Save, Live
<1>2. CountedDone' = CountedDone /\ CountedFailed' = CountedFailed
  <2>1. CASE Pick
    BY <2>1 DEF Pick, FirstReady, ReadyTasks
  <2>2. CASE EndLoop
    BY <2>2 DEF EndLoop
  <2>3. CASE Generate
    BY <2>3 DEF Generate, SetStatus, InFlight
  <2>4. CASE Valid
    BY <2>4 DEF Valid, Keep, SetStatus, InFlight
  <2>5. CASE Invalid
    BY <2>5 DEF Invalid, SetStatus, InFlight
  <2>6. CASE Repair
    BY <2>6 DEF Repair
  <2>7. CASE Save
    BY <2>7 DEF Save
  <2> QED
    BY <2>1, <2>2, <2>3, <2>4, <2>5, <2>6, <2>7
<1> QED
  BY <1>1, <1>2, CountUnmoved

\* Every path of the loop counts its task once, before the next is picked.
LEMMA NextCounted ==
  ASSUME TypeOK, WorkInHand, Counted, [Next]_vars
  PROVE  Counted'
<1>1. ASSUME \/ Pick \/ EndLoop
             \/ Generate \/ Valid \/ Invalid \/ Repair \/ Save
      PROVE  Counted'
  BY <1>1, NothingCounted
<1>2. ASSUME NEW s \in Scripts, Begin(s)
      PROVE  Counted'
  <2>1. DoneTasks' = {} /\ FailedTasks' = {} /\ generated' = 0 /\ failed' = 0
    BY <1>2 DEF Begin, DoneTasks, FailedTasks, Tasks
  <2> QED
    BY <2>1, FS_EmptySet DEF Counted
<1>3. ASSUME NEW s \in Scripts, NoBegin(s)
      PROVE  Counted'
  BY <1>3 DEF NoBegin, Counted, Live, Working, Goto
<1>4. ASSUME GenerateFails
      PROVE  Counted'
  <2> USE DEF CountedDone, CountedFailed, DoneTasks, FailedTasks, Uncounted,
              Saving, Goto, TypeOK, WorkInHand, Tasks, Working, memory
  <2>1. CASE script = "retry"
    BY <1>4, <2>1 DEF GenerateFails, Counted, Goto
  <2>2. CASE script # "retry"
    <3>1. /\ at \in Live /\ script # "retry" /\ UNCHANGED script
          /\ failed' = failed + 1 /\ generated' = generated
      BY <1>4, <2>2 DEF GenerateFails, Live, Count, Logs
    <3>2. cur \notin CountedFailed /\ CountedFailed' = CountedFailed \cup {cur}
      BY <1>4, <2>2 DEF GenerateFails, SetStatus, InFlight, Logs
    <3>3. CountedDone' = CountedDone
      BY <1>4, <2>2 DEF GenerateFails, SetStatus, InFlight, Logs
    <3> QED
      BY <3>1, <3>2, <3>3, CountsOneMore
  <2> QED
    BY <2>1, <2>2
<1>5. ASSUME RepairFails
      PROVE  Counted'
  <2> USE DEF CountedDone, CountedFailed, DoneTasks, FailedTasks, Uncounted,
              Saving, Goto, TypeOK, WorkInHand, Tasks, Working, memory
  <2>1. CASE script = "retry"
    BY <1>5, <2>1 DEF RepairFails, Counted, Goto
  <2>2. CASE script # "retry" /\ ~ Logs
    <3>1. /\ at \in Live /\ script # "retry" /\ UNCHANGED script
          /\ failed' = failed + 1 /\ generated' = generated
      BY <1>5, <2>2 DEF RepairFails, Live, Count, Logs
    <3>2. cur \notin CountedFailed /\ CountedFailed' = CountedFailed \cup {cur}
      BY <1>5, <2>2 DEF RepairFails, SetStatus, InFlight, Logs
    <3>3. CountedDone' = CountedDone
      BY <1>5, <2>2 DEF RepairFails, SetStatus, InFlight, Logs
    <3> QED
      BY <3>1, <3>2, <3>3, CountsOneMore
  <2>3. CASE Logs
    <3>1. at \in Live /\ UNCHANGED <<script, generated, failed>>
      BY <1>5, <2>3 DEF RepairFails, Live, Count, Logs
    <3>2. CountedDone' = CountedDone
      BY <1>5, <2>3 DEF RepairFails, SetStatus, InFlight, Logs
    <3>3. CountedFailed' = CountedFailed
      BY <1>5, <2>3 DEF RepairFails, SetStatus, InFlight, Logs
    <3> QED
      BY <3>1, <3>2, <3>3, CountUnmoved
  <2> QED
    BY <2>1, <2>2, <2>3
<1>6. ASSUME Record
      PROVE  Counted'
  <2> USE DEF CountedDone, CountedFailed, DoneTasks, FailedTasks, Uncounted,
              Saving, Goto, TypeOK, WorkInHand, Tasks, Working, memory
  <2>1. CASE script = "retry"
    BY <1>6, <2>1 DEF Record, Counted, Goto
  <2>2. CASE script # "retry" /\ ~ Logs
    <3>1. /\ at \in Live /\ script # "retry" /\ UNCHANGED script
          /\ generated' = generated + 1 /\ failed' = failed
      BY <1>6, <2>2 DEF Record, Live, Count, Logs
    <3>2. cur \notin CountedDone /\ CountedDone' = CountedDone \cup {cur}
      BY <1>6, <2>2 DEF Record, Logs, Count
    <3>3. CountedFailed' = CountedFailed
      BY <1>6, <2>2 DEF Record, Logs, Count
    <3> QED
      BY <3>1, <3>2, <3>3, CountsOneMore
  <2>3. CASE Logs
    <3>1. at \in Live /\ UNCHANGED <<script, generated, failed>>
      BY <1>6, <2>3 DEF Record, Live, Count, Logs
    <3>2. CountedDone' = CountedDone
      BY <1>6, <2>3 DEF Record, Logs
    <3>3. CountedFailed' = CountedFailed
      BY <1>6, <2>3 DEF Record, Logs
    <3> QED
      BY <3>1, <3>2, <3>3, CountUnmoved
  <2> QED
    BY <2>1, <2>2, <2>3
<1>7. ASSUME Log
      PROVE  Counted'
  <2> USE DEF CountedDone, CountedFailed, DoneTasks, FailedTasks, Uncounted,
              Saving, Goto, TypeOK, WorkInHand, Tasks, Working, memory
  <2>1. CASE script = "retry"
    BY <1>7, <2>1 DEF Log, Counted, Goto
  <2>2. CASE script # "retry" /\ at = "log_done"
    <3>1. /\ at \in Live /\ script # "retry" /\ UNCHANGED script
          /\ generated' = generated + 1 /\ failed' = failed
      BY <1>7, <2>2 DEF Log, Live, Count, Logs
    <3>2. cur \notin CountedDone /\ CountedDone' = CountedDone \cup {cur}
      BY <1>7, <2>2 DEF Log, Count
    <3>3. CountedFailed' = CountedFailed
      BY <1>7, <2>2 DEF Log, Count
    <3> QED
      BY <3>1, <3>2, <3>3, CountsOneMore
  <2>3. CASE script # "retry" /\ at = "log_bad"
    <3>1. /\ at \in Live /\ script # "retry" /\ UNCHANGED script
          /\ failed' = failed + 1 /\ generated' = generated
      BY <1>7, <2>3 DEF Log, Live, Count, Logs
    <3>2. cur \notin CountedFailed /\ CountedFailed' = CountedFailed \cup {cur}
      BY <1>7, <2>3 DEF Log, Count
    <3>3. CountedDone' = CountedDone
      BY <1>7, <2>3 DEF Log, Count
    <3> QED
      BY <3>1, <3>2, <3>3, CountsOneMore
  <2>4. CASE at = "log"
    <3>1. at \in Live /\ UNCHANGED <<script, generated, failed>>
      BY <1>7, <2>4 DEF Log, Live, Count, Logs
    <3>2. CountedDone' = CountedDone
      BY <1>7, <2>4 DEF Log
    <3>3. CountedFailed' = CountedFailed
      BY <1>7, <2>4 DEF Log
    <3> QED
      BY <3>1, <3>2, <3>3, CountUnmoved
  <2> QED
    BY <1>7, <2>1, <2>2, <2>3, <2>4 DEF Log
<1>8. ASSUME WriteFails
      PROVE  Counted'
  BY <1>8 DEF WriteFails, Counted, Live, Working, Goto
<1>9. ASSUME Crash
      PROVE  Counted'
  BY <1>9 DEF Crash, Counted, Live, Working, Goto
<1>10. ASSUME UNCHANGED vars
       PROVE  Counted'
  <2>1. UNCHANGED <<at, script, plan, status, cur, generated, failed>>
    BY <1>10 DEF vars, memory
  <2> QED
    BY <2>1 DEF Counted, DoneTasks, FailedTasks, Uncounted, Tasks
<1>11. ASSUME SavePlan
       PROVE  Counted'
  <2>1. at \in Live /\ UNCHANGED <<script, generated, failed>>
    BY <1>11 DEF SavePlan, Live, Working, Goto, memory
  <2>2. CountedDone' = CountedDone
    BY <1>11 DEF SavePlan, CountedDone, DoneTasks, Uncounted, Saving, Goto,
       Tasks, memory
  <2>3. CountedFailed' = CountedFailed
    BY <1>11 DEF SavePlan, CountedFailed, FailedTasks, Uncounted, Goto,
       Tasks, memory
  <2> QED
    BY <2>1, <2>2, <2>3, CountUnmoved
<1>12. ASSUME ValidatorRaises
       PROVE  Counted'
  BY <1>12 DEF ValidatorRaises, Counted, Live, Working, Goto
<1> QED
  BY <1>1, <1>2, <1>3, <1>4, <1>5, <1>6, <1>7, <1>8, <1>9, <1>10, <1>11, <1>12
     DEF Next, Step

-----------------------------------------------------------------------------
(***************************************************************************)
(* The invariant and what it implies.                                      *)
(***************************************************************************)

LEMMA InitIInv ==
  ASSUME Init
  PROVE  IInv
<1>1. TypeOK
  BY InitTypeOK
<1>2. WorkInHand /\ KeptTexts
  BY DEF Init, WorkInHand, KeptTexts, DoneTasks, Tasks, Working, Saving
<1>3. Counted /\ OnDisk /\ FileFirst
  BY DEF Init, Counted, OnDisk, FileFirst, Live, Working
<1>4. CompletedFilesExist
  BY RecordsAssumption, NamesAssumption DEF Init, CompletedFilesExist, Completed
<1> QED
  BY <1>1, <1>2, <1>3, <1>4 DEF IInv

LEMMA NextIInv ==
  ASSUME IInv, [Next]_vars
  PROVE  IInv'
BY NextTypeOK, NextWorkInHand, NextKeptTexts, NextCounted, NextOnDisk,
   NextFileFirst, NextCompleted
DEF IInv

\* The inductive invariant of the scripts.
THEOREM InvariantHolds == Spec => []IInv
BY InitIInv, NextIInv, PTL DEF Spec

\* Script, plan, counters and directory keep their types.
THEOREM TypeCorrect == Spec => []TypeOK
<1>1. IInv => TypeOK
  BY DEF IInv
<1> QED
  BY <1>1, InvariantHolds, PTL

\* A status file that says done has a file, for any number of executions
\* that fail or crash anywhere (artifact_manager.py 126).
THEOREM CompletedHaveFiles == Spec => []CompletedFilesExist
<1>1. IInv => CompletedFilesExist
  BY DEF IInv
<1> QED
  BY <1>1, InvariantHolds, PTL

\* The context of a file is complete when it is asked for
\* (context_builder.py 109).
THEOREM ContextsAreComplete == Spec => []ContextIsComplete
<1>1. ASSUME IInv
      PROVE  ContextIsComplete
  <2> SUFFICES ASSUME at = "generate", NEW p \in plan[cur].dependencies,
                      Unambiguous(p)
               PROVE  \/ p \in Context(cur)
                      \/ \E i \in Tasks : Path(i) = p /\ content[i] = "empty"
    BY DEF ContextIsComplete
  <2>1. PICK i \in Tasks : status[i] = "done" /\ Path(i) = p
    BY <1>1 DEF IInv, WorkInHand, DonePaths, Tasks, Path
  <2>2. content[i] \in Texts \ {"none"}
    BY <1>1, <2>1 DEF IInv, KeptTexts, DoneTasks, TypeOK
  <2>3. plan \in Seq(FileTask)
    <3>1. plan \in Plans \cup {RetryPlan} \/ plan = << >>
      BY <1>1 DEF IInv, TypeOK
    <3>2. << >> \in Seq(FileTask)
      OBVIOUS
    <3> QED
      BY <3>1, <3>2, PlansAssumption
  <2>4. \A j \in Tasks : Path(j) = p => i = j
    BY <2>1 DEF Unambiguous
  <2>5. i <= i
    BY <2>1, <2>3 DEF Tasks
  <2>6. i \in GetTask(p)
    BY <2>1, <2>4, <2>5 DEF GetTask
  <2> QED
    BY <2>1, <2>2, <2>6 DEF Context, Texts
<1> QED
  BY <1>1, InvariantHolds, PTL

\* The report of a loop that came to its end is true of the disk and of the
\* tasks (run_real_pipeline.py 207).
THEOREM ReportsAreTrue == Spec => []ReportIsTrue
<1>1. ASSUME IInv, at = "ended"
      PROVE  CountsAreTrue
  <2>1. /\ DoneTasks \ Uncounted(Saving \cup {"log_done"}) = DoneTasks
        /\ FailedTasks \ Uncounted({"log_bad"}) = FailedTasks
    BY <1>1 DEF Uncounted, Saving
  <2> QED
    BY <1>1, <2>1 DEF IInv, Counted, CountsAreTrue, Live
<1>2. ASSUME IInv, at = "ended", NEW i \in DoneTasks
      PROVE  /\ LanguageOf[Path(i)] = "python" => content[i] # "broken"
             /\ workspace[Path(i)] = "whole"
             /\ \E j \in DoneTasks :
                  NameOf[Path(j)] = NameOf[Path(i)] /\ Path(j) \in Completed
  <2>1. IsOnDisk(i)
    BY <1>2 DEF IInv, OnDisk, IsOnDisk, Live, Uncounted, Saving
  <2>2. PICK j \in DoneTasks :
          /\ NameOf[Path(j)] = NameOf[Path(i)]
          /\ record[NameOf[Path(i)]] = Path(j)
    BY <2>1 DEF IsOnDisk
  <2>3. Path(j) \in Paths
    BY <1>2, PathTyped DEF IInv, DoneTasks
  <2>4. Path(j) \in Completed
    BY <2>2, <2>3 DEF Completed
  <2> QED
    BY <1>2, <2>1, <2>2, <2>4 DEF IsOnDisk, IInv, KeptTexts
<1>3. IInv => ReportIsTrue
  BY <1>1, <1>2 DEF ReportIsTrue, DoneFilesAreThere
<1> QED
  BY <1>3, InvariantHolds, PTL
-----------------------------------------------------------------------------
(***************************************************************************)
(* Executions end.  A loop takes each task once, so the tasks that are     *)
(* pending, and the steps left for the one in work, are used up.           *)
(***************************************************************************)
PendingTasks == {i \in Tasks : status[i] = "pending"}

\* The steps that may follow one, up to the next task and with it.
StepsFrom(step) ==
  CASE step = "save_plan" -> 2
    [] step = "pick" -> 1
    [] step = "generate" -> 9
    [] step = "validate" -> 8
    [] step = "repair" -> 7
    [] step = "revalidate" -> 6
    [] step = "save" -> 5
    [] step = "record" -> 4
    [] step \in {"log", "log_done", "log_bad"} -> 3
    [] OTHER -> 0

\* The steps an execution may still take.
WorkLeft ==
  IF at \in Resting THEN 0 ELSE 10 * Cardinality(PendingTasks) + StepsFrom(at)

WorkIsUsedUp ==
  [][Step => WorkLeft' \in 0 .. WorkLeft - 1 /\ WorkLeft <= 10 * Len(plan) + 9]_vars

LEMMA StepsFromEach ==
  /\ StepsFrom("save_plan") = 2 /\ StepsFrom("pick") = 1
  /\ StepsFrom("generate") = 9 /\ StepsFrom("validate") = 8
  /\ StepsFrom("repair") = 7 /\ StepsFrom("revalidate") = 6
  /\ StepsFrom("save") = 5 /\ StepsFrom("record") = 4
  /\ StepsFrom("log") = 3 /\ StepsFrom("log_done") = 3
  /\ StepsFrom("log_bad") = 3
  /\ StepsFrom("ended") = 0 /\ StepsFrom("raised") = 0
BY DEF StepsFrom

LEMMA PlanTyped ==
  ASSUME TypeOK
  PROVE  Tasks = 1 .. Len(plan) /\ Len(plan) \in Nat
<1>1. plan \in Seq(FileTask)
  <2>1. plan \in Plans \cup {RetryPlan} \/ plan = << >>
    BY DEF TypeOK
  <2>2. << >> \in Seq(FileTask)
    OBVIOUS
  <2> QED
    BY <2>1, <2>2, PlansAssumption
<1> QED
  BY <1>1 DEF Tasks

LEMMA PendingAreFinite ==
  ASSUME TypeOK
  PROVE  /\ IsFiniteSet(PendingTasks)
         /\ Cardinality(PendingTasks) \in 0 .. Len(plan)
<1>1. IsFiniteSet(Tasks) /\ Cardinality(Tasks) = Len(plan)
  <2>1. Len(plan) \in Nat /\ Tasks = 1 .. Len(plan)
    BY PlanTyped
  <2>2. IsFiniteSet(1 .. Len(plan))
    BY <2>1, FS_Interval
  <2>3. Cardinality(1 .. Len(plan)) =
          IF 1 > Len(plan) THEN 0 ELSE Len(plan) - 1 + 1
    BY <2>1, FS_Interval
  <2> QED
    BY <2>1, <2>2, <2>3
<1>2. PendingTasks \subseteq Tasks
  BY DEF PendingTasks
<1> QED
  BY <1>1, <1>2, FS_Subset, FS_CardinalityType, PlanTyped

\* The task in work is not pending, so no step but a pick changes what is.
LEMMA SettingKeepsPending ==
  ASSUME TypeOK, cur \in Tasks, status[cur] # "pending", UNCHANGED plan,
         NEW v \in FileStatus \ {"pending"},
         status' = status \/ SetStatus(v)
  PROVE  PendingTasks' = PendingTasks
BY DEF PendingTasks, SetStatus, TypeOK, Tasks

\* A pick takes one of the pending tasks.
LEMMA PickTakesOne ==
  ASSUME TypeOK, Pick
  PROVE  /\ Cardinality(PendingTasks)' = Cardinality(PendingTasks) - 1
         /\ Cardinality(PendingTasks) > 0
<1>1. PICK i \in FirstReady(plan, status) :
        status' = [status EXCEPT ![i] = "generating"]
  BY DEF Pick
<1>2. i \in PendingTasks
  BY <1>1 DEF FirstReady, ReadyTasks, PendingTasks, Tasks
<1>3. PendingTasks' = PendingTasks \ {i}
  BY <1>1 DEF Pick, PendingTasks, Tasks, TypeOK
<1>4. /\ IsFiniteSet(PendingTasks)
      /\ Cardinality(PendingTasks) \in Nat
  BY PendingAreFinite, PlanTyped
<1>5. Cardinality(PendingTasks \ {i}) = Cardinality(PendingTasks) - 1
  BY <1>2, <1>4, FS_RemoveElement
<1>6. Cardinality(PendingTasks) # 0
  BY <1>2, <1>4, FS_EmptySet
<1> QED
  BY <1>3, <1>4, <1>5, <1>6

\* The other steps leave the pending tasks and come nearer to the next pick.
LEMMA OtherStepsAdvance ==
  ASSUME TypeOK, WorkInHand, Step, ~ Pick
  PROVE  /\ UNCHANGED <<script, plan, iteration>>
         /\ PendingTasks' = PendingTasks
         /\ at \in Working /\ at' \in Working \cup {"ended", "raised"}
         /\ at' = "ended" => at = "pick" /\ LoopIsOver
         /\ StepsFrom(at') \in 0 .. StepsFrom(at) - 1
<1> DEFINE Goal ==
         /\ UNCHANGED <<script, plan, iteration>>
         /\ PendingTasks' = PendingTasks
         /\ at \in Working /\ at' \in Working \cup {"ended", "raised"}
         /\ at' = "ended" => at = "pick" /\ LoopIsOver
         /\ StepsFrom(at') \in 0 .. StepsFrom(at) - 1
<1> USE StepsFromEach DEF Goto, Working, memory
<1>1. UNCHANGED <<plan, status>> => PendingTasks' = PendingTasks
  BY DEF PendingTasks, Tasks
<1>2. at \in Working \ {"save_plan", "pick"} => cur \in Tasks
  BY DEF WorkInHand
<1>3. at \in {"generate", "validate", "revalidate", "repair"} =>
        status[cur] # "pending"
  BY DEF WorkInHand, InFlight
<1>4. {"validating", "repairing", "failed", "done"} \subseteq
        FileStatus \ {"pending"}
  BY DEF FileStatus
<1>5. ASSUME SavePlan
      PROVE  Goal
  BY <1>1, <1>5 DEF SavePlan
<1>6. ASSUME EndLoop
      PROVE  Goal
  BY <1>1, <1>6 DEF EndLoop
<1>7. ASSUME Generate
      PROVE  Goal
  <2>1. PendingTasks' = PendingTasks
    BY <1>2, <1>3, <1>4, <1>7, SettingKeepsPending DEF Generate
  <2> QED
    BY <1>7, <2>1 DEF Generate
<1>8. ASSUME GenerateFails
      PROVE  Goal
  <2>1. PendingTasks' = PendingTasks
    BY <1>2, <1>3, <1>4, <1>8, SettingKeepsPending DEF GenerateFails
  <2> QED
    BY <1>8, <2>1 DEF GenerateFails
<1>9. ASSUME Valid
      PROVE  Goal
  <2>1. PendingTasks' = PendingTasks
    BY <1>2, <1>3, <1>4, <1>9, SettingKeepsPending DEF Valid, Keep
  <2> QED
    BY <1>9, <2>1 DEF Valid
<1>10. ASSUME Invalid
       PROVE  Goal
  <2>1. PendingTasks' = PendingTasks
    BY <1>2, <1>3, <1>4, <1>10, SettingKeepsPending DEF Invalid
  <2> QED
    BY <1>10, <2>1 DEF Invalid
<1>11. ASSUME Repair
       PROVE  Goal
  BY <1>1, <1>11 DEF Repair
<1>12. ASSUME RepairFails
       PROVE  Goal
  <2>1. PendingTasks' = PendingTasks
    BY <1>2, <1>3, <1>4, <1>12, SettingKeepsPending DEF RepairFails
  <2> QED
    BY <1>12, <2>1 DEF RepairFails
<1>13. ASSUME Save \/ Record \/ Log
       PROVE  Goal
  BY <1>1, <1>13 DEF Save, Record, Log
<1>14. ASSUME WriteFails \/ ValidatorRaises
       PROVE  Goal
  BY <1>1, <1>14 DEF WriteFails, ValidatorRaises
<1> QED
  BY <1>5, <1>6, <1>7, <1>8, <1>9, <1>10, <1>11, <1>12, <1>13, <1>14 DEF Step

LEMMA StepUsesUp ==
  ASSUME TypeOK, WorkInHand, Step
  PROVE  WorkLeft' \in 0 .. WorkLeft - 1 /\ WorkLeft <= 10 * Len(plan) + 9
<1>1. PICK k \in Nat : k = Cardinality(PendingTasks) /\ k <= Len(plan)
  BY PendingAreFinite, PlanTyped
<1>2. at \in Working => StepsFrom(at) \in 0 .. 9 /\ at \notin Resting
  BY StepsFromEach DEF Resting, Working
<1>3. Len(plan) \in Nat
  BY PlanTyped
<1>4. CASE Pick
  <2>1. Cardinality(PendingTasks)' = k - 1 /\ k > 0
    BY <1>1, <1>4, PickTakesOne
  <2>2. at = "pick" /\ at' = "generate"
    BY <1>4 DEF Pick, Goto
  <2>3. WorkLeft = 10 * k + 1 /\ WorkLeft' = 10 * (k - 1) + 9
    BY <1>1, <2>1, <2>2, StepsFromEach DEF WorkLeft, Resting
  <2> QED
    BY <1>1, <1>3, <2>1, <2>3
<1>5. CASE ~ Pick
  <2>1. PICK n \in 0 .. 9 : n = StepsFrom(at)
    BY <1>2, <1>5, OtherStepsAdvance
  <2>2. PICK m \in 0 .. n - 1 : m = StepsFrom(at')
    BY <1>5, <2>1, OtherStepsAdvance
  <2>3. PendingTasks' = PendingTasks /\ at \notin Resting
    BY <1>2, <1>5, OtherStepsAdvance
  <2>4. WorkLeft = 10 * k + n
    BY <1>1, <2>1, <2>3 DEF WorkLeft
  <2>5. WorkLeft' = 0 \/ WorkLeft' = 10 * k + m
    BY <1>1, <2>2, <2>3 DEF WorkLeft
  <2>6. /\ 10 * k + n \in Nat /\ m \in Nat /\ m < n /\ 0 < n
        /\ 10 * k + n <= 10 * Len(plan) + 9
    BY <1>1, <1>3, <2>1, <2>2
  <2>7. WorkLeft' \in Nat /\ WorkLeft' < WorkLeft
    BY <1>1, <2>1, <2>4, <2>5, <2>6
  <2> QED
    BY <2>4, <2>6, <2>7
<1> QED
  BY <1>4, <1>5

\* Every step of an execution uses up some of its work, of which a plan of n
\* tasks has 10 * n + 9 at most: no execution goes on for ever, whatever the
\* models and the validator answer, and without the bound on iterations
\* (run_full_pipeline.py 173, retry_generation.py 66).
THEOREM ExecutionsAreFinite == Spec => WorkIsUsedUp
<1>1. IInv /\ [Next]_vars =>
        [Step => /\ WorkLeft' \in 0 .. WorkLeft - 1
                 /\ WorkLeft <= 10 * Len(plan) + 9]_vars
  BY StepUsesUp DEF IInv
<1> QED
  BY <1>1, InvariantHolds, PTL DEF Spec, WorkIsUsedUp

(***************************************************************************)
(* What a loop that ended has left.  It begins no task twice: it has gone  *)
(* round as often as there are tasks that are no longer pending.           *)
(***************************************************************************)
IterationsCount ==
  at \in Live => iteration + Cardinality(PendingTasks) = Len(plan)

\* A script that repairs leaves no task half way: the only one in work is the
\* current one, between its generation and its verdict.
OneInWork ==
  at \in Live /\ script # "retry" =>
    \A i \in Tasks :
      status[i] \in InFlight =>
        /\ i = cur
        /\ at \in {"generate", "validate", "repair", "revalidate"}

EndIInv == IterationsCount /\ OneInWork

LEMMA BeginEndIInv ==
  ASSUME TypeOK, NEW s \in Scripts, Begin(s), TypeOK'
  PROVE  EndIInv'
<1>1. Len(plan)' \in Nat /\ Tasks' = 1 .. Len(plan)'
  <2>1. TypeOK => Tasks = 1 .. Len(plan) /\ Len(plan) \in Nat
    BY PlanTyped
  <2>2. (TypeOK => Tasks = 1 .. Len(plan) /\ Len(plan) \in Nat)'
    BY <2>1, PlanTyped, PTL
  <2> QED
    BY <2>2
<1>2. \A i \in Tasks' : status'[i] = "pending"
  BY DEF Begin, Tasks
<1>3. PendingTasks' = 1 .. Len(plan)'
  BY <1>1, <1>2 DEF PendingTasks
<1>4. Cardinality(1 .. Len(plan)') =
        IF 1 > Len(plan)' THEN 0 ELSE Len(plan)' - 1 + 1
  BY <1>1, FS_Interval
<1>5. iteration' = 0
  BY DEF Begin
<1>6. IterationsCount'
  BY <1>1, <1>3, <1>4, <1>5 DEF IterationsCount
<1>7. OneInWork'
  BY <1>2 DEF OneInWork, InFlight
<1> QED
  BY <1>6, <1>7 DEF EndIInv

\* A pick counts one iteration and puts one task in work.
LEMMA PickEndIInv ==
  ASSUME TypeOK, EndIInv, Pick
  PROVE  EndIInv'
<1>1. IterationsCount'
  <2>1. at \in Live /\ at' \in Live /\ iteration' = iteration + 1 /\ plan' = plan
    BY DEF Pick, Goto, Live, Working
  <2>2. PICK k \in Nat : k = Cardinality(PendingTasks)
    BY PendingAreFinite, PlanTyped
  <2>3. Cardinality(PendingTasks)' = k - 1
    BY <2>2, PickTakesOne
  <2>4. iteration \in Nat
    BY DEF TypeOK
  <2> QED
    BY <2>1, <2>2, <2>3, <2>4 DEF EndIInv, IterationsCount
<1>2. OneInWork'
  <2>1. \A i \in Tasks : script # "retry" => status[i] \notin InFlight
    BY DEF EndIInv, OneInWork, Pick, Live, Working
  <2>2. PICK i \in FirstReady(plan, status) :
          cur' = i /\ status' = [status EXCEPT ![i] = "generating"]
    BY DEF Pick
  <2> QED
    BY <2>1, <2>2 DEF Pick, Goto, OneInWork, TypeOK, Tasks
<1> QED
  BY <1>1, <1>2 DEF EndIInv

\* What the steps but a pick do to the status of the current task.
LEMMA StatusOfStep ==
  ASSUME TypeOK, WorkInHand, Step, ~ Pick, script # "retry",
         at' \in Live
  PROVE  \/ /\ status' = status /\ cur' = cur
            /\ at \in {"save_plan", "repair", "save", "record", "log",
                       "log_done", "log_bad"}
            /\ at = "repair" => at' = "revalidate"
         \/ at = "pick" /\ status' = status /\ at' = "ended"
         \/ /\ cur' = cur /\ cur \in Tasks
            /\ at \in {"generate", "validate", "repair", "revalidate"}
            /\ \/ /\ SetStatus("validating") \/ SetStatus("repairing")
                  /\ at' \in {"validate", "repair"}
               \/ SetStatus("failed") \/ SetStatus("done")
<1> USE DEF Goto, memory
<1>1. at \in Working \ {"save_plan", "pick"} => cur \in Tasks
  BY DEF WorkInHand
<1>2. CASE SavePlan \/ EndLoop \/ Repair \/ Save \/ Record \/ Log
  BY <1>2 DEF SavePlan, EndLoop, Repair, Save, Record, Log
<1>3. CASE Generate \/ GenerateFails \/ Valid \/ Invalid \/ RepairFails
  BY <1>1, <1>3
  DEF Generate, GenerateFails, Valid, Invalid, RepairFails, Keep, Working
<1>4. CASE WriteFails \/ ValidatorRaises
  BY <1>4 DEF WriteFails, ValidatorRaises, Live, Working
<1> QED
  BY <1>2, <1>3, <1>4 DEF Step

LEMMA OtherStepEndIInv ==
  ASSUME TypeOK, WorkInHand, EndIInv, Step, ~ Pick
  PROVE  EndIInv'
<1>1. IterationsCount'
  <2>1. /\ UNCHANGED <<plan, iteration>> /\ PendingTasks' = PendingTasks
        /\ at \in Working
    BY OtherStepsAdvance
  <2> QED
    BY <2>1 DEF EndIInv, IterationsCount, Live
<1>2. OneInWork'
  <2> SUFFICES ASSUME at' \in Live, script # "retry",
                      NEW i \in Tasks, status'[i] \in InFlight
               PROVE  /\ i = cur'
                      /\ at' \in {"generate", "validate", "repair", "revalidate"}
    <3>1. UNCHANGED <<script, plan>>
      BY OtherStepsAdvance
    <3> QED
      BY <3>1 DEF OneInWork, Tasks
  <2>1. at \in Live
    BY OtherStepsAdvance DEF Live
  <2>2. status[i] \in InFlight =>
          i = cur /\ at \in {"generate", "validate", "repair", "revalidate"}
    BY <2>1 DEF EndIInv, OneInWork
  <2> QED
    BY <2>2, StatusOfStep DEF SetStatus, TypeOK, InFlight
<1> QED
  BY <1>1, <1>2 DEF EndIInv

LEMMA LoopsCount == Spec => [](IInv /\ EndIInv)
<1>1. Init => EndIInv
  BY DEF Init, EndIInv, IterationsCount, OneInWork, Live, Working
<1>2. ASSUME IInv, EndIInv, [Next]_vars, IInv'
      PROVE  EndIInv'
  <2>1. TypeOK /\ WorkInHand /\ TypeOK'
    BY <1>2 DEF IInv
  <2>2. CASE \E s \in Scripts : Begin(s)
    BY <2>1, <2>2, BeginEndIInv
  <2>3. CASE Pick
    BY <1>2, <2>1, <2>3, PickEndIInv
  <2>4. CASE Step /\ ~ Pick
    BY <1>2, <2>1, <2>4, OtherStepEndIInv
  <2>5. CASE Crash \/ \E s \in Scripts : NoBegin(s)
    <3>1. at' \notin Live
      BY <2>5 DEF Crash, NoBegin, Goto, Live, Working
    <3> QED
      BY <3>1 DEF EndIInv, IterationsCount, OneInWork
  <2>6. CASE UNCHANGED vars
    BY <1>2, <2>6 DEF vars, memory, EndIInv, IterationsCount, OneInWork,
                      PendingTasks, Tasks
  <2> QED
    BY <1>2, <2>2, <2>3, <2>4, <2>5, <2>6 DEF Next
<1> QED
  BY <1>1, <1>2, InvariantHolds, PTL DEF Spec

\* A loop begins every task at most once: the iterations it has counted are
\* the tasks that are no longer pending.
NoTaskTwice ==
  at \in Live =>
    /\ iteration = Cardinality(Tasks \ PendingTasks)
    /\ iteration <= Len(plan)

\* A loop is over because no task is ready, unless its bound is smaller than
\* the plan: then it has used up the bound.
EndsForAReason ==
  at = "ended" =>
    \/ ReadyTasks(plan, status) = {}
    \/ /\ script # "retry"
       /\ iteration = Iterations[script]
       /\ Iterations[script] < Len(plan)

\* The report of a script that repairs accounts for every file of the plan:
\* it is counted as generated or as failed, or was never begun.
ReportAddsUp ==
  at = "ended" /\ script # "retry" =>
    /\ \A i \in Tasks : status[i] \in {"pending", "failed", "done"}
    /\ iteration = generated + failed
    /\ generated + failed + Cardinality(PendingTasks) = Len(plan)

\* Two disjoint parts of the tasks.
LEMMA PartsAddUp ==
  ASSUME TypeOK, NEW A \in SUBSET Tasks, NEW B \in SUBSET Tasks, A \cap B = {}
  PROVE  Cardinality(A \cup B) = Cardinality(A) + Cardinality(B)
<1>1. IsFiniteSet(Tasks)
  BY PlanTyped, FS_Interval
<1>2. IsFiniteSet(A) /\ IsFiniteSet(B)
  BY <1>1, FS_Subset
<1>3. /\ Cardinality(A \cup B) =
            Cardinality(A) + Cardinality(B) - Cardinality(A \cap B)
      /\ Cardinality(A) \in Nat /\ Cardinality(B) \in Nat
  BY <1>2, FS_Union, FS_CardinalityType
<1>4. Cardinality(A \cap B) = 0
  BY FS_EmptySet
<1> QED
  BY <1>3, <1>4

\* No task is begun twice (run_real_pipeline.py 128).
THEOREM TasksBegunOnce == Spec => []NoTaskTwice
<1>1. ASSUME IInv, EndIInv, at \in Live
      PROVE  /\ iteration = Cardinality(Tasks \ PendingTasks)
             /\ iteration <= Len(plan)
  <2>1. TypeOK /\ iteration + Cardinality(PendingTasks) = Len(plan)
    BY <1>1 DEF IInv, EndIInv, IterationsCount
  <2>2. PICK k \in Nat : k = Cardinality(PendingTasks)
    BY <2>1, PendingAreFinite, PlanTyped
  <2>3. PICK n \in Nat : n = Len(plan) /\ Tasks = 1 .. n
    BY <2>1, PlanTyped
  <2>4. IsFiniteSet(1 .. n) /\ Cardinality(1 .. n) = IF 1 > n THEN 0 ELSE n - 1 + 1
    BY FS_Interval
  <2>5. Cardinality(Tasks) = n
    BY <2>3, <2>4
  <2>6. PICK m \in Nat : m = Cardinality(Tasks \ PendingTasks)
    BY <2>3, <2>4, FS_Subset, FS_CardinalityType
  <2>7. n = m + k
    <3>1. (Tasks \ PendingTasks) \cup PendingTasks = Tasks
      BY DEF PendingTasks
    <3>2. Cardinality((Tasks \ PendingTasks) \cup PendingTasks) = m + k
      BY <2>1, <2>2, <2>6, PartsAddUp DEF PendingTasks
    <3> QED
      BY <2>5, <3>1, <3>2
  <2>8. iteration \in Nat
    BY <2>1 DEF TypeOK
  <2> QED
    BY <2>1, <2>2, <2>3, <2>6, <2>7, <2>8
<1>2. IInv /\ EndIInv => NoTaskTwice
  BY <1>1 DEF NoTaskTwice
<1> QED
  BY <1>2, LoopsCount, PTL

\* The report accounts for every file (run_full_pipeline.py 104).
THEOREM ReportsAddUp == Spec => []ReportAddsUp
<1>1. ASSUME IInv, EndIInv, at = "ended", script # "retry"
      PROVE  /\ \A i \in Tasks : status[i] \in {"pending", "failed", "done"}
             /\ iteration = generated + failed
             /\ generated + failed + Cardinality(PendingTasks) = Len(plan)
  <2>1. TypeOK /\ at \in Live
    BY <1>1 DEF IInv, Live
  <2>2. \A i \in Tasks : status[i] \in {"pending", "failed", "done"}
    BY <1>1, <2>1 DEF EndIInv, OneInWork, TypeOK, FileStatus, InFlight
  <2>3. generated = Cardinality(DoneTasks) /\ failed = Cardinality(FailedTasks)
    <3>1. /\ DoneTasks \ Uncounted(Saving \cup {"log_done"}) = DoneTasks
          /\ FailedTasks \ Uncounted({"log_bad"}) = FailedTasks
      BY <1>1 DEF Uncounted, Saving
    <3> QED
      BY <1>1, <2>1, <3>1 DEF IInv, Counted
  <2>4. /\ Tasks = (DoneTasks \cup FailedTasks) \cup PendingTasks
        /\ DoneTasks \cap FailedTasks = {}
        /\ (DoneTasks \cup FailedTasks) \cap PendingTasks = {}
    BY <2>2 DEF DoneTasks, FailedTasks, PendingTasks
  <2>5. Cardinality(DoneTasks \cup FailedTasks) = generated + failed
    BY <2>1, <2>3, <2>4, PartsAddUp DEF DoneTasks, FailedTasks
  <2>6. Cardinality(Tasks) =
          Cardinality(DoneTasks \cup FailedTasks) + Cardinality(PendingTasks)
    BY <2>1, <2>4, PartsAddUp DEF DoneTasks, FailedTasks, PendingTasks
  <2>7. PICK n \in Nat : n = Len(plan) /\ Tasks = 1 .. n
    BY <2>1, PlanTyped
  <2>8. Cardinality(1 .. n) = IF 1 > n THEN 0 ELSE n - 1 + 1
    BY FS_Interval
  <2>9. generated + failed + Cardinality(PendingTasks) = n
    BY <2>5, <2>6, <2>7, <2>8
  <2>10. PICK k \in Nat : k = Cardinality(PendingTasks)
    BY <2>1, PendingAreFinite, PlanTyped
  <2>11. /\ iteration + Cardinality(PendingTasks) = Len(plan)
         /\ iteration \in Nat /\ generated \in Nat /\ failed \in Nat
    BY <1>1, <2>1 DEF EndIInv, IterationsCount, TypeOK
  <2>12. iteration = generated + failed
    BY <2>7, <2>9, <2>10, <2>11
  <2> QED
    BY <2>2, <2>7, <2>9, <2>12
<1>2. IInv /\ EndIInv => ReportAddsUp
  BY <1>1 DEF ReportAddsUp
<1> QED
  BY <1>2, LoopsCount, PTL

\* The bound holds back no more than it says.
WithinBound ==
  at \in Live /\ script # "retry" => iteration <= Iterations[script]

LEMMA LoopsAreBounded == Spec => [](IInv /\ EndIInv /\ WithinBound)
<1>1. Init => WithinBound
  BY DEF Init, WithinBound, Live, Working
<1>2. ASSUME IInv, WithinBound, [Next]_vars
      PROVE  WithinBound'
  <2>1. TypeOK /\ WorkInHand
    BY <1>2 DEF IInv
  <2>2. CASE \E s \in Scripts : Begin(s)
    BY <2>2, IterationsAssumption DEF Begin, WithinBound
  <2>3. CASE Pick
    <3>1. /\ iteration' = iteration + 1 /\ script' = script
          /\ script # "retry" => iteration < Iterations[script]
      BY <2>3 DEF Pick, Goto, MayIterate
    <3>2. iteration \in Nat /\ Iterations[script] \in Nat
      BY <2>1, IterationsAssumption DEF TypeOK
    <3> QED
      BY <3>1, <3>2 DEF WithinBound
  <2>4. CASE Step /\ ~ Pick
    <3>1. UNCHANGED <<script, iteration>> /\ at \in Live
      BY <2>1, <2>4, OtherStepsAdvance DEF Live
    <3> QED
      BY <1>2, <3>1 DEF WithinBound
  <2>5. CASE Crash \/ \E s \in Scripts : NoBegin(s)
    BY <2>5 DEF Crash, NoBegin, Goto, Live, Working, WithinBound
  <2>6. CASE UNCHANGED vars
    BY <1>2, <2>6 DEF vars, memory, WithinBound
  <2> QED
    BY <1>2, <2>2, <2>3, <2>4, <2>5, <2>6 DEF Next
<1> QED
  BY <1>1, <1>2, LoopsCount, PTL DEF Spec

\* A loop that comes to its end has nothing left to do, or has used up a
\* bound that is too small for its plan (run_full_pipeline.py 61).
THEOREM LoopsEndForAReason == Spec => []EndsForAReason
<1>1. Init => EndsForAReason
  BY DEF Init, EndsForAReason
<1>2. ASSUME IInv, EndIInv, WithinBound, EndsForAReason, [Next]_vars
      PROVE  EndsForAReason'
  <2>1. TypeOK /\ WorkInHand
    BY <1>2 DEF IInv
  <2>2. CASE EndLoop
    <3> SUFFICES ASSUME ReadyTasks(plan, status) # {}, ~ MayIterate
                 PROVE  /\ script # "retry"
                        /\ iteration = Iterations[script]
                        /\ Iterations[script] < Len(plan)
      BY <2>2 DEF EndLoop, EndsForAReason, LoopIsOver, Goto
    <3>1. script # "retry" /\ ~ (iteration < Iterations[script])
      BY DEF MayIterate
    <3>2. iteration \in Nat /\ Iterations[script] \in Nat
      BY <2>1, IterationsAssumption DEF TypeOK
    <3>3. at \in Live
      BY <2>2 DEF EndLoop, Live, Working
    <3>4. iteration = Iterations[script]
      BY <1>2, <3>1, <3>2, <3>3 DEF WithinBound
    <3>5. PICK k \in Nat : k = Cardinality(PendingTasks)
      BY <2>1, PendingAreFinite, PlanTyped
    <3>6. PendingTasks # {}
      BY DEF ReadyTasks, PendingTasks, Tasks
    <3>7. k # 0
      BY <2>1, <3>5, <3>6, PendingAreFinite, FS_EmptySet
    <3>8. iteration + k = Len(plan)
      BY <1>2, <3>3, <3>5 DEF EndIInv, IterationsCount
    <3> QED
      BY <3>1, <3>2, <3>4, <3>5, <3>7, <3>8
  <2>3. CASE ~ EndLoop /\ [Step]_vars
    <3>1. at' = "ended" => UNCHANGED vars
      <4>1. Pick => at' = "generate"
        BY DEF Pick, Goto
      <4>2. ASSUME Step, ~ Pick, at' = "ended"
            PROVE  EndLoop
        BY <2>3, <4>2 DEF Step, Goto, SavePlan, Generate, GenerateFails, Valid,
          Invalid, Repair, RepairFails, Save, Record, Log, WriteFails,
          ValidatorRaises
      <4> QED
        BY <2>3, <4>1, <4>2
    <3> QED
      BY <1>2, <3>1 DEF vars, memory, EndsForAReason
  <2>4. CASE Crash \/ \E s \in Scripts : Begin(s) \/ NoBegin(s)
    BY <2>4 DEF Crash, Begin, NoBegin, Goto, EndsForAReason
  <2> QED
    BY <1>2, <2>2, <2>3, <2>4 DEF Next
<1> QED
  BY <1>1, <1>2, LoopsAreBounded, PTL DEF Spec

\* The retry has taken every file of its plan once it ends: it passes none
\* over, for none depends on another.
RetryTakesAll == at = "ended" /\ script = "retry" => PendingTasks = {}

\* The retry works on the plan in its text.
RetryHasItsPlan == at \in Live /\ script = "retry" => plan = RetryPlan

\* A retry that ends leaves no file of its plan pending
\* (retry_generation.py 49).
THEOREM RetriesTakeAll == Spec => []RetryTakesAll
<1>1. Init => RetryHasItsPlan
  BY DEF Init, RetryHasItsPlan, Live, Working
<1>2. ASSUME IInv, RetryHasItsPlan, [Next]_vars
      PROVE  RetryHasItsPlan'
  <2>1. TypeOK /\ WorkInHand
    BY <1>2 DEF IInv
  <2>2. CASE \E s \in Scripts : Begin(s)
    BY <2>2 DEF Begin, PlansOf, RetryHasItsPlan
  <2>3. CASE Pick
    BY <1>2, <2>3 DEF Pick, Goto, RetryHasItsPlan, Live, Working
  <2>4. CASE Step /\ ~ Pick
    BY <1>2, <2>1, <2>4, OtherStepsAdvance DEF RetryHasItsPlan, Live
  <2>5. CASE Crash \/ \E s \in Scripts : NoBegin(s)
    BY <2>5 DEF Crash, NoBegin, Goto, Live, Working, RetryHasItsPlan
  <2>6. CASE UNCHANGED vars
    BY <1>2, <2>6 DEF vars, memory, RetryHasItsPlan
  <2> QED
    BY <1>2, <2>2, <2>3, <2>4, <2>5, <2>6 DEF Next
<1>3. ASSUME RetryHasItsPlan, EndsForAReason
      PROVE  RetryTakesAll
  <2> SUFFICES ASSUME at = "ended", script = "retry", NEW i \in PendingTasks
               PROVE  FALSE
    BY DEF RetryTakesAll
  <2>1. ReadyTasks(plan, status) = {} /\ plan = RetryPlan
    BY <1>3 DEF EndsForAReason, RetryHasItsPlan, Live
  <2>2. i \in ReadyTasks(plan, status)
    BY <2>1, RetryAssumption DEF PendingTasks, Tasks, ReadyTasks
  <2> QED
    BY <2>1, <2>2
<1> QED
  BY <1>1, <1>2, <1>3, InvariantHolds, LoopsEndForAReason, PTL DEF Spec
=============================================================================
