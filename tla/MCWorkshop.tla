----------------------------- MODULE MCWorkshop -----------------------------
(* Instances of Workshop: plans with two paths that share a status file.   *)
EXTENDS Workshop

CONSTANTS flat, nested, lone, one_name, other_name

MCPaths == {flat, nested, lone}
MCNames == {one_name, other_name}
MCNameOf == [p \in MCPaths |-> IF p = lone THEN other_name ELSE one_name]

MCLanguageOf ==
  [p \in MCPaths |-> CASE p = lone -> "python" [] p = nested -> "javascript"
                       [] p = flat -> "unknown"]

Task(path, deps) == [file_path |-> path, dependencies |-> deps]

Shared  == <<Task(nested, {}), Task(flat, {}), Task(lone, {flat, nested})>>  \* one status file
Twice   == <<Task(lone, {}), Task(lone, {}), Task(nested, {lone})>>  \* a path listed twice
Missing == <<Task(lone, {}), Task(nested, {flat})>>             \* flat is no task

MCPlans == {Shared, Twice, Missing}
MCRetryPlan == <<Task(nested, {}), Task(lone, {})>>

\* Enough iterations for every task, and one too few.
MCIterations == [s \in Scripts |-> IF s = "real" THEN 2 ELSE 4]
=============================================================================
