---------------------------- MODULE BridgePlanner ----------------------------
(***************************************************************************)
(* Which source a query goes to: the deterministic planner, the registry it *)
(* reads and the budget guard (src/evidenceops/bridge/planner.py,           *)
(* source_registry.py, budget.py).  A registry is the sequence of the       *)
(* registered descriptors and the name of the default one; `direct' is a    *)
(* LiteBridge built on one retriever without a registry.  A query carries   *)
(* the cues the planner finds in its text.                                  *)
(***************************************************************************)
EXTENDS BridgeContracts

\* register(): the first source is the default one.
Registry(descriptors, direct) ==
  [descriptors |-> descriptors, direct |-> direct,
   default |-> IF descriptors = <<>> THEN "none" ELSE Head(descriptors).source_id]

SourcesNamed(reg, id) == {d \in ToSet(reg.descriptors) : d.source_id = id}
HasSource(reg, id) == SourcesNamed(reg, id) # {}
Descriptor(reg, id) == CHOOSE d \in SourcesNamed(reg, id) : TRUE

\* The default source when it is of that kind, else the first one that is; at most one.
SourceOfKind(reg, kind) ==
  LET default == {d \in SourcesNamed(reg, reg.default) : d.source_kind = kind}
      first == SelectInSeq(reg.descriptors, LAMBDA d : d.source_kind = kind)
  IN  IF default # {} THEN default ELSE IF first = 0 THEN {} ELSE {reg.descriptors[first]}

PlannerDecision(route, source, reasons) ==
  [route |-> route, selected_source_id |-> source, reason_codes |-> reasons]
Blocked(reason) == PlannerDecision("blocked", "none", <<reason>>)

\* What keeps a query off the web, in the order in which the planner looks for it.
WebObstacle(policy, web) ==
  IF policy.execution_profile # "hybrid" THEN "invalid_profile"
  ELSE IF ~policy.web.allow_external_query THEN "external_query_not_allowed"
  ELSE IF ~\E d \in web : d.enabled THEN "web_source_unavailable"
  ELSE IF policy.budget.max_web_calls < 1 THEN "web_call_budget_exhausted"
  ELSE IF \E d \in web : policy.budget.max_estimated_external_cost_microusd
                           < d.estimated_external_cost_microusd
       THEN "external_cost_budget_exhausted"
  ELSE "none"

Supports(policy, d) == policy.execution_profile \in d.supported_execution_profiles
UsableLocal(policy, local) == \E d \in local : d.enabled /\ Supports(policy, d)

LocalObstacle(policy, local) ==
  IF \E d \in local : ~Supports(policy, d) THEN "invalid_profile" ELSE "local_source_unavailable"

\* The source the caller named.
PlanNamedSource(policy, id, reg) ==
  LET d == Descriptor(reg, id)
      obstacle == WebObstacle(policy, {d})
  IN  IF ~HasSource(reg, id) THEN Blocked("web_source_unavailable")
      ELSE IF ~d.enabled
           THEN Blocked(IF d.source_kind = "web_search_snippet"
                        THEN "web_source_unavailable" ELSE "local_source_unavailable")
      ELSE IF d.source_kind = "web_search_snippet"
           THEN IF obstacle = "none" THEN PlannerDecision("web", id, <<"caller_selected_source">>)
                                     ELSE Blocked(obstacle)
      ELSE IF ~Supports(policy, d) THEN Blocked("invalid_profile")
      ELSE PlannerDecision("local", id, <<"caller_selected_source">>)

PlanLocal(policy, local, why) ==
  IF UsableLocal(policy, local)
  THEN PlannerDecision("local", (CHOOSE d \in local : TRUE).source_id, Append(why, "default_local"))
  ELSE Blocked(IF why = <<>> THEN LocalObstacle(policy, local) ELSE Head(why))

PlanWeb(obstacle, web, reason) ==
  IF obstacle = "none"
  THEN PlannerDecision("web", (CHOOSE d \in web : TRUE).source_id, <<reason>>)
  ELSE Blocked(obstacle)

\* A cue for local documents comes first, then one for freshness, then the default source.
PlanDefaultSource(query, policy, reg) ==
  LET local == SourceOfKind(reg, "local_document")
      web == SourceOfKind(reg, "web_search_snippet")
      obstacle == WebObstacle(policy, web)
      webIsDefault == \E d \in web : d.source_id = reg.default
  IN  IF query.has_local_reference_cue THEN PlanLocal(policy, local, <<>>)
      ELSE IF query.has_freshness_cue
           THEN IF obstacle = "none" THEN PlanWeb(obstacle, web, "freshness_cue")
                                     ELSE PlanLocal(policy, local, <<obstacle>>)
      ELSE IF webIsDefault THEN PlanWeb(obstacle, web, "default_local")
      ELSE PlanLocal(policy, local, <<>>)

\* DeterministicPlanner.plan
Plan(query, policy, source, reg) ==
  IF policy.budget.max_retrieval_calls = 0 THEN Blocked("retrieval_budget_exhausted")
  ELSE IF reg.direct THEN PlannerDecision("local", "direct_retriever", <<"default_local">>)
  ELSE IF source # "none" THEN PlanNamedSource(policy, source, reg)
  ELSE PlanDefaultSource(query, policy, reg)

\* A name the registry does not know is an error, except that of the web source.
PlanRaises(policy, source, reg) ==
  /\ policy.budget.max_retrieval_calls # 0 /\ ~reg.direct /\ source # "none"
  /\ ~HasSource(reg, source) /\ source # "tavily_web_search"

\* BudgetGuard.check_preflight on a decision that is not blocked: "none" when it may proceed.
PreflightObstacle(budget, decision, d) ==
  IF budget.max_retrieval_calls < 1 THEN "retrieval_budget_exhausted"
  ELSE IF (decision.route = "web" \/ d.source_kind = "web_search_snippet")
            /\ budget.max_web_calls < 1
       THEN "web_call_budget_exhausted"
  ELSE IF budget.max_estimated_external_cost_microusd < d.estimated_external_cost_microusd
       THEN "external_cost_budget_exhausted"
  ELSE "none"

\* Mutated: the search is charged although the cache answered.
BudgetUsedAlways(batch, elapsed, d) ==
  [estimated_external_cost_microusd |-> d.estimated_external_cost_microusd,
   retrieval_calls |-> batch.retrieval_calls, wall_clock_ms |-> elapsed,
   web_calls |-> batch.web_calls]

\* BudgetGuard.calculate_budget_used: external cost is charged for web calls really made.
BudgetUsed(batch, elapsed, d) ==
  [estimated_external_cost_microusd |-> d.estimated_external_cost_microusd * batch.web_calls,
   retrieval_calls |-> batch.retrieval_calls, wall_clock_ms |-> elapsed,
   web_calls |-> batch.web_calls]

\* BudgetGuard.evaluate_wall_clock
AfterWallClock(budget, elapsed, reason) ==
  IF elapsed > budget.max_wall_clock_ms THEN "budget_exceeded" ELSE reason
=============================================================================
