---------------------------- MODULE BridgeService ----------------------------
(***************************************************************************)
(* The facade of LiteBridge (src/evidenceops/bridge/service.py) as pure     *)
(* decisions: what prepare_context refuses before it retrieves, what it     *)
(* makes of a batch, and what answer does before and after it calls a       *)
(* provider; and the gates the HTTP routes and the MCP tools put before     *)
(* them (src/evidenceops/api/routes/litebridge.py,                          *)
(* src/evidenceops/mcp_server/litebridge_tools.py).                         *)
(***************************************************************************)
EXTENDS Compressor, BridgeAdapters

(***************************************************************************)
(* prepare_context                                                          *)
(***************************************************************************)

NamesWebSource(source, reg) ==
  /\ source # "none" /\ ~reg.direct /\ HasSource(reg, source)
  /\ Descriptor(reg, source).source_kind = "web_search_snippet"

\* What is raised before anything is planned or retrieved; "none" when nothing is.
PrepareError(query, policy, source, reg) ==
  IF policy.execution_profile = "hosted" THEN "unsupported_profile"
  ELSE IF policy.execution_profile = "local_only" /\ policy.web.given THEN "validation_error"
  ELSE IF query.blank THEN "validation_error"
  ELSE IF reg.direct /\ policy.execution_profile # "local_only" THEN "unsupported_profile"
  ELSE IF reg.direct /\ source # "none" THEN "source_error"
  ELSE IF NamesWebSource(source, reg) /\ policy.execution_profile # "hybrid" THEN "unsupported_profile"
  ELSE IF NamesWebSource(source, reg) /\ ~policy.web.allow_external_query THEN "validation_error"
  ELSE IF PlanRaises(policy, source, reg) THEN "source_error"
  ELSE "none"

DirectSource == [LocalSource({"local_only"}) EXCEPT !.source_id = "direct_retriever"]

\* The source a decision that is not blocked has selected.
ResolvedSource(decision, reg) ==
  IF reg.direct THEN DirectSource ELSE Descriptor(reg, decision.selected_source_id)

\* The plan after the preflight check of the budget.
CheckedDecision(query, policy, source, reg) ==
  LET decision == Plan(query, policy, source, reg)
      obstacle == PreflightObstacle(policy.budget, decision, ResolvedSource(decision, reg))
  IN  IF decision.route = "blocked" THEN decision
      ELSE IF obstacle # "none" THEN Blocked(obstacle) ELSE decision

\* Consent is required once more of a web source that was resolved.
ConsentError(policy, d) ==
  IF d.source_kind # "web_search_snippet" THEN "none"
  ELSE IF policy.execution_profile # "hybrid" THEN "unsupported_profile"
  ELSE IF ~policy.web.allow_external_query THEN "validation_error"
  ELSE "none"

\* A registered source returns its own kind under its own name; a direct retriever no web
\* snippet without consent.
CandidatesPermitted(candidates, policy, d, reg) ==
  \A i \in DOMAIN candidates :
    IF reg.direct
    THEN candidates[i].source_kind = "web_search_snippet" => ConsentError(policy, WebSource) = "none"
    ELSE /\ candidates[i].source_kind = d.source_kind
         /\ candidates[i].source_id = d.source_id

\* A batch becomes a package; the time it took is looked at last.
PreparedPackage(policy, batch, records, decision, elapsed, d) ==
  LET package ==
        BuildContextPackage(policy, batch, records, decision, BudgetUsed(batch, elapsed, d))
  IN  [package EXCEPT !.stop_reason = AfterWallClock(policy.budget, elapsed, @)]

(***************************************************************************)
(* answer                                                                   *)
(***************************************************************************)

\* Mutated: the name of the source tells whether evidence is private.
HasPrivateEvidenceOfSource(package) ==
  package.planner_decision.selected_source_id = "evidenceops_local_docs"

HasPrivateEvidence(package) ==
  \E i \in DOMAIN package.evidence : package.evidence[i].source_kind = "local_document"

ProvidersNamed(providers, id) == {p \in providers : p.provider_id = id}

\* What is answered without a provider; the empty set when one is to be called.
AnsweredWithoutProvider(package, policy, providers) ==
  LET provider == ProvidersNamed(providers, policy.provider_id)
      Says(status, reason) == {GroundedAnswer(status, reason, policy.provider_id, {})}
      hosted == \E p \in provider : p.location = "hosted"
  IN  IF package.evidence = <<>> THEN {GroundedAnswer("abstained", "no_evidence", "none", {})}
      ELSE IF policy.provider_id = "none" THEN Says("provider_unavailable", "provider_not_configured")
      ELSE IF ~\E p \in provider : p.enabled THEN Says("provider_unavailable", "provider_not_configured")
      ELSE IF hosted /\ ~policy.allow_external_generation
           THEN Says("policy_blocked", "external_generation_not_allowed")
      ELSE IF hosted /\ HasPrivateEvidence(package) /\ ~policy.allow_private_evidence_export
           THEN Says("policy_blocked", "private_evidence_export_not_allowed")
      ELSE {}

\* validate_citations: a response is the numbers it cites and whether a label is malformed.
ValidCitations(response, package) ==
  response.cites \cap CitationNumbers(package)
CitationsAreValid(response, package) ==
  /\ ~response.malformed /\ response.cites # {}
  /\ response.cites \subseteq CitationNumbers(package)

\* What becomes of the one call of the provider.
AnswerAfter(policy, package, error, response) ==
  LET Says(status, reason, cited) == GroundedAnswer(status, reason, policy.provider_id, cited)
      cited == ValidCitations(response, package)
  IN  IF error = "provider_unavailable" THEN Says("provider_unavailable", "provider_failure", {})
      ELSE IF error # "none" THEN Says("generation_failed", "provider_failure", {})
      ELSE IF ~CitationsAreValid(response, package)
           THEN Says("invalid_citations", "invalid_citations", cited)
      ELSE Says("success", "none", cited)

(***************************************************************************)
(* The gates of the HTTP routes and of the MCP tools                        *)
(***************************************************************************)

\* The policy made of a request: the web is asked for twice, the budget is the default one.
FrontEndPolicy(r) ==
  LET web == IF r.allow_external_query /\ r.execution_profile = "hybrid"
             THEN WebPolicy(TRUE) ELSE NoWebPolicy
  IN  [execution_profile |-> r.execution_profile, max_evidence_items |-> r.max_evidence_items,
       max_context_chars |-> r.max_context_chars, max_estimated_tokens |-> r.max_estimated_tokens,
       web |-> web, budget |-> DefaultBudget(r.execution_profile, web)]

RetrievalForbidden(r, settings) ==
  /\ r.allow_external_query \/ r.execution_profile = "hybrid"
  /\ ~settings.allow_external_retrieval

\* A hosted provider, enabled or not, needs the server's consent and the client's.
GenerationForbidden(r, package, providers, settings) ==
  /\ \E p \in ProvidersNamed(providers, r.provider_id) : p.location = "hosted"
  /\ \/ ~settings.allow_external_generation
     \/ HasPrivateEvidence(package)
          /\ ~(settings.allow_private_evidence_export /\ r.allow_private_evidence_export)
     \/ ~r.allow_external_generation

FrontEndGenerationPolicy(r) ==
  [provider_id |-> r.provider_id, max_output_tokens |-> r.max_output_tokens,
   allow_external_generation |-> r.allow_external_generation,
   allow_private_evidence_export |-> r.allow_private_evidence_export]

\* api/errors.py: of LiteBridge's errors only two have a status of their own.
Response(kind, error) ==
  IF kind = "sdk" THEN error
  ELSE IF kind = "mcp" THEN "tool_error"
  ELSE IF error = "validation_error" THEN "422"
  ELSE IF error = "package_not_found" THEN "404"
  ELSE IF error = "forbidden" THEN "403"
  ELSE "500"
=============================================================================
