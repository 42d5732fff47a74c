--------------------------- MODULE MCQueryWorkflow ---------------------------
(***************************************************************************)
(* Small instances of QueryWorkflow: three chunks, two of which contradict, *)
(* and the configurations a run is chosen from.                             *)
(***************************************************************************)
EXTENDS QueryWorkflowInvariant

CONSTANTS c1, c2, c3

MCChunks == {c1, c2, c3}
MCConflictingPairs == {{c1, c2}}

\* q0 is the query asked.  Two refinements can lead to a further search, since the
\* one that reaches max_iterations abstains, so two texts besides it suffice.
ThreeQueries == {"q0", "q1", "q2"}

\* Whether citations are required matters to a greeting only.
RequestsOf(kinds, iterations, calls, thresholds) ==
  { r \in [query : {"q0"}, kind : kinds, require_citations : BOOLEAN,
           max_iterations : iterations, max_retrieval_calls : calls,
           top_k_context : {1}, conflict_threshold : thresholds] :
      r.kind # "greeting" => r.require_citations }

\* Every pair of limits, with the default threshold and one no conflict reaches.
AllLimits ==
  RequestsOf({"plain"}, 1..3, 1..3, {60, 90}) \cup RequestsOf({"greeting"}, {2}, {2}, {60, 90})
LargestLimits == RequestsOf({"greeting", "complex"}, {3}, {3}, {60, 90})

PartialDeployments ==
  {Collaborators, {"sparse", "generator"}, {"dense", "hybrid", "generator"},
   {"hybrid", "reranker"}, {}}

Configured(requests, deployments, policy) ==
  [request : requests, collaborators : deployments, controller : {policy}]

\* The learned policy sees every route; a policy of the caller's own decides anything
\* at all, so that two routes and one refinement are enough for it.
TwoRoutes == {{"sparse", "hybrid", "generator"}}
AllPolicies ==
  Configured(AllLimits, PartialDeployments, "heuristic")
    \cup Configured(RequestsOf({"greeting", "code"}, {2}, {3}, {90}), {Collaborators}, "learned")
    \cup Configured(RequestsOf({"code"}, {2}, {2}, {90}), TwoRoutes, "custom")
    \cup Configured(RequestsOf({"greeting"}, {1}, {2}, {90}), TwoRoutes, "custom")

LargestRuns == Configured(LargestLimits, PartialDeployments, "heuristic")
=============================================================================
