--------------------------- MODULE BridgeContracts ---------------------------
(***************************************************************************)
(* The values LiteBridge passes around (src/evidenceops/bridge/contracts.py *)
(* and ports.py): policies, source and provider descriptors, evidence, the  *)
(* context package and the grounded answer.  Titles, labels, sections,      *)
(* scores, routes and hashes are left out; of what a rendered block shows   *)
(* of them, its frame, the characters count and the labels [Cn] in it.      *)
(* "none" stands for Python's None.                                         *)
(***************************************************************************)
EXTENDS Integers, Sequences, FiniteSets, SequencesExt

\* The members of a finite set of numbers, the smallest first.
InOrder(S) ==
  [n \in 1..Cardinality(S) |-> CHOOSE i \in S : Cardinality({j \in S : j <= i}) = n]

\* The elements of a sequence at these places, in order.
Places(seq, S) == [n \in DOMAIN InOrder(S) |-> seq[InOrder(S)[n]]]

ExecutionProfile == {"local_only", "hybrid", "hosted"}
SourceKind == {"local_document", "web_search_snippet"}

StopReason ==
  {"success", "no_evidence", "budget_exceeded", "unsupported_profile", "invalid_query",
   "retrieval_failed", "source_unavailable"}

PlannerRoute == {"local", "web", "blocked"}

PlannerReason ==
  {"caller_selected_source", "default_local", "freshness_cue", "external_query_not_allowed",
   "web_source_unavailable", "local_source_unavailable", "web_call_budget_exhausted",
   "external_cost_budget_exhausted", "retrieval_budget_exhausted", "invalid_profile"}

(***************************************************************************)
(* Policies of the caller.                                                  *)
(***************************************************************************)

\* The most a caller may allow: costs are counted in millionths of a dollar.
Dollar == 1000 * 1000
Minute == 60 * 1000
MostChars == 24 * 1000
MostTokens == 6 * 1000

BudgetPolicy ==
  [max_retrieval_calls : 0..1, max_web_calls : 0..1, max_wall_clock_ms : 100..Minute,
   max_estimated_external_cost_microusd : 0..Dollar]

\* `given' is FALSE when the caller states no web policy.
WebRetrievalPolicy == [given : BOOLEAN, allow_external_query : BOOLEAN, max_search_results : 1..5]
NoWebPolicy == [given |-> FALSE, allow_external_query |-> FALSE, max_search_results |-> 5]
WebPolicy(allow) == [given |-> TRUE, allow_external_query |-> allow, max_search_results |-> 5]

RetrievalPolicy ==
  [execution_profile : ExecutionProfile, max_evidence_items : 1..6, max_context_chars : 100..MostChars,
   max_estimated_tokens : 25..MostTokens, web : WebRetrievalPolicy, budget : BudgetPolicy]

\* The budget of a policy that states none: the web has to be asked for.
DefaultBudget(profile, web) ==
  LET asked == web.allow_external_query /\ profile = "hybrid"
  IN  [max_retrieval_calls |-> 1, max_web_calls |-> IF asked THEN 1 ELSE 0,
       max_wall_clock_ms |-> 10000,
       max_estimated_external_cost_microusd |-> IF asked THEN Dollar ELSE 0]

\* At most one source can be named; "none" leaves the choice to the planner.
SourcePolicy == {"none", "evidenceops_local_docs", "tavily_web_search", "unknown_source"}

\* A ceiling that is not given is NoCeiling, and one of the two must be given.
NoCeiling == 0
CompressionPolicy ==
  LET Policy(chars, tokens) ==
        [target_max_context_chars : chars, target_max_estimated_tokens : tokens,
         max_sentences_per_evidence : 1..8,
         deduplicate_exact_retrieval_copies : BOOLEAN, allow_evidence_drop : BOOLEAN]
  IN  Policy(100..MostChars, {NoCeiling} \cup (25..MostTokens)) \cup Policy({NoCeiling}, 25..MostTokens)

GenerationPolicy ==
  [provider_id : STRING, max_output_tokens : 1..2048,
   allow_external_generation : BOOLEAN, allow_private_evidence_export : BOOLEAN]

(***************************************************************************)
(* Sources and providers.                                                   *)
(***************************************************************************)

\* A registered source has a name and is private local documents, or the public web under
\* HYBRID only.
DescriptorIsSound(d) ==
  /\ d.source_id # "none"
  /\ d.estimated_external_cost_microusd \in Nat
  /\ \/ d.source_kind = "local_document" /\ "local_only" \in d.supported_execution_profiles
     \/ d.source_kind = "web_search_snippet" /\ d.supported_execution_profiles = {"hybrid"}

LocalSource(profiles) ==
  [source_id |-> "evidenceops_local_docs", source_kind |-> "local_document", enabled |-> TRUE,
   supported_execution_profiles |-> profiles, estimated_external_cost_microusd |-> 0]

\* The web source, charged eight thousand millionths of a dollar for each search.
WebSource ==
  [source_id |-> "tavily_web_search", source_kind |-> "web_search_snippet", enabled |-> TRUE,
   supported_execution_profiles |-> {"hybrid"}, estimated_external_cost_microusd |-> 8000]

ProviderLocation == {"local", "hosted"}

(***************************************************************************)
(* Evidence, packages and answers.                                          *)
(***************************************************************************)

\* A canonical URL is https, without credentials, fragment, port or literal address.
ValidProvenance(candidate) ==
  IF candidate.source_kind = "local_document" THEN candidate.url = "none"
                                              ELSE candidate.url = "canonical"

\* A batch of candidates, as a retriever returns it.
RetrievalBatch(candidates, web_calls) ==
  [candidates |-> candidates, retrieval_calls |-> 1, web_calls |-> web_calls]

CompressionOutcome == {"no_reduction", "reduced", "target_unachievable"}
CompressionAction == {"kept_whole", "extracted", "dropped_duplicate", "dropped_for_target"}

ConsistentPackage(p) ==
  /\ p.effective_policy \in RetrievalPolicy
  /\ p.stop_reason \in StopReason
  /\ p.retrieval_calls \in 0..1 /\ p.web_calls \in 0..1
  /\ p.budget_used.estimated_external_cost_microusd \in Nat
  /\ p.planner_decision.route \in PlannerRoute
  /\ p.planner_decision.route = "blocked" <=> p.planner_decision.selected_source_id = "none"
  /\ \A i \in DOMAIN p.planner_decision.reason_codes :
       p.planner_decision.reason_codes[i] \in PlannerReason

GenerationStatus ==
  {"success", "abstained", "provider_unavailable", "invalid_citations", "policy_blocked",
   "generation_failed"}

GenerationAbstentionReason ==
  {"no_evidence", "provider_not_configured", "external_generation_not_allowed",
   "private_evidence_export_not_allowed", "invalid_citations", "provider_failure"}

\* Only a success carries valid citations.
GroundedAnswer(status, reason, provider, cited) ==
  [status |-> status, abstention_reason |-> reason, provider_id |-> provider,
   cited_evidence_ids |-> cited, citation_valid |-> status = "success"]
=============================================================================
