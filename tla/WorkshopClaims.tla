--------------------------- MODULE WorkshopClaims ---------------------------
(* What a docstring says of the directory, and the code does not do.       *)
EXTENDS MCWorkshop

\* get_completed_files is the "list of successfully generated files"
\* (artifact_manager.py 127), the paths "that are DONE" (130): at the end of
\* a loop every done file of its plan is among them.
DoneFilesAreListed ==
  at = "ended" => \A i \in DoneTasks : Path(i) \in Completed
=============================================================================
