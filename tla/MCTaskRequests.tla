--------------------------- MODULE MCTaskRequests ---------------------------
(***************************************************************************)
(* Two concurrent requests, one seed model with and one without            *)
(* code_generation, one model the administrator may add ahead of it.       *)
(***************************************************************************)
EXTENDS TaskRequests

MCPriority == [model \in SeedModels \cup AddedModels |->
                 IF model \in AddedModels THEN 5 ELSE 10]
=============================================================================
