--------------------------- MODULE PipelineClaims ---------------------------
(***************************************************************************)
(* What the comments of the repository say of a run and the graph does not *)
(* do.  Each is refuted by a run of its own.                               *)
(***************************************************************************)
EXTENDS MCPipeline

\* "If a run exceeds its budget, the pipeline is aborted" (budget.py 3): no
\* file is begun by a run that has spent more than its budget.
OverBudgetBeginsNoFile ==
  [][tokens_used > MAX_TOKENS => current' \in {current, 0}]_vars

\* "If any technology combination is invalid ... the pipeline stops"
\* (blueprint_validator.py 4): a rejected blueprint is never planned.
RejectedBlueprintStops ==
  project_blueprint = "incompatible" => project_plan = None

\* "tester -> generate_file (if tests fail AND iteration_count < MAX)"
\* (graph.py 8): a failing pytest does not reach the reviewer before that.
FailingTestsRetry ==
  /\ node = "reviewer" /\ pytest_failed /\ test_results # None
  => iteration_count >= MAX_ITERATIONS
=============================================================================
