----------------------------- MODULE MCPipeline -----------------------------
(* Instances of Pipeline: a handful of plans with up to three files.       *)
EXTENDS Pipeline

CONSTANTS a, b, c

MCPaths == {a, b, c}

Task(path, deps) == [file_path |-> path, dependencies |-> deps]

Chain   == <<Task(a, {}), Task(b, {a}), Task(c, {b})>>
Listed  == <<Task(c, {a}), Task(a, {}), Task(b, {})>>   \* not in order
Twice   == <<Task(a, {}), Task(b, {a}), Task(a, {b})>>  \* a path listed twice
Missing == <<Task(a, {}), Task(b, {c})>>                \* c is no task
Cycle   == <<Task(a, {b}), Task(b, {a}), Task(c, {})>>
Empty   == <<>>

MCPlans == {Chain, Listed, Twice, Missing, Cycle, Empty}
=============================================================================
