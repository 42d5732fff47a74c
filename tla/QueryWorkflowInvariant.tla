----------------------- MODULE QueryWorkflowInvariant -----------------------
(***************************************************************************)
(* The inductive invariant of QueryWorkflow: where the run is in the graph  *)
(* and what that implies for its evidence, its verdict and its budgets.     *)
(***************************************************************************)
EXTENDS QueryWorkflow

\* The nodes that gather evidence, and the nodes that work on a draft.
Gathering == {"initialize", "extract_features", "controller_decide", "retrieve",
              "rerank", "evaluate_evidence", "reformulate"}
Drafting == {"generate", "validate_citations", "finalize"}

Lap == 6 * iteration_count + (IF fallback_used THEN 3 ELSE 0)
Pending == IF fallback_pending THEN 3 ELSE 0

\* A run without a reason to abstain takes six nodes a refinement, three for the
\* fallback and two a draft; one with a reason leaves through at most three more.
StepsSoFar ==
  CASE pc = "initialize"         -> steps = 0
    [] pc = "extract_features"   -> steps <= 1 + Lap
    [] pc = "controller_decide"  -> steps <= 2 + Lap
    [] pc = "retrieve"           -> steps <= 3 + Lap
    [] pc = "rerank"             -> steps <= 4 + Lap - Pending
    [] pc = "evaluate_evidence"  -> steps <= 5 + Lap - Pending
    [] pc = "reformulate"        -> steps <= 6 + Lap
    [] pc = "generate"           -> steps <= 6 + Lap + 2 * generation_attempts
    [] pc = "validate_citations" -> steps <= 5 + Lap + 2 * generation_attempts
    [] pc = "finalize"           -> steps <= 6 + Lap + 2 * generation_attempts
    [] OTHER                     -> TRUE

StepsWhenAbstaining ==
  CASE pc \in {"extract_features", "rerank"}             -> steps <= 40
    [] pc \in {"controller_decide", "evaluate_evidence"} -> steps <= 41
    [] pc = "validate_citations"                         -> steps <= 41
    [] pc = "abstain"                                    -> steps <= 42
    [] OTHER                                             -> TRUE

StepBudget ==
  /\ abstention_reason = NoReason => StepsSoFar
  /\ abstention_reason # NoReason \/ pc = "abstain" => StepsWhenAbstaining
  /\ fallback_pending => fallback_used
  /\ iteration_count <= req.max_iterations
  /\ retrieval_calls <= req.max_retrieval_calls

\* Where a run may be once it has, or has not yet, a reason to abstain.
VerdictControl ==
  /\ pc \in {"initialize", "retrieve", "reformulate", "generate", "finalize"} =>
       abstention_reason = NoReason
  /\ status = "abstained" => abstention_reason # NoReason /\ next_action = NoAction
  /\ status = "completed" => pc = "end" /\ abstention_reason = NoReason /\ next_action = NoAction
  /\ pc \in Gathering => generation_attempts = 0
  /\ pc = "validate_citations" /\ abstention_reason # NoReason => status = "abstained"
  /\ pc = "validate_citations" /\ abstention_reason = NoReason =>
       answer = "generated" /\ generation_attempts > 0
  /\ searches = retrieval_calls

\* The evidence is what is left of the last search, and that search succeeded.
LastSearchSucceeded ==
  /\ attempts # <<>>
  /\ ~attempts[Len(attempts)].failed
  /\ attempts[Len(attempts)].route = route
  /\ attempts[Len(attempts)].query = active_query
  /\ route \in RetrievalRoutes

EvidenceControl ==
  /\ evidence \subseteq last_evidence_ids
  /\ packed => Cardinality(evidence) <= req.top_k_context
  /\ conflict_score >= ConflictScore(last_evidence_ids)
  /\ pc \in {"rerank", "evaluate_evidence"} /\ abstention_reason = NoReason /\ ~fallback_pending
       => LastSearchSucceeded
  /\ evidence_status = "sufficient" =>
       /\ pc \notin Gathering
       /\ LastSearchSucceeded /\ evidence # {} /\ packed

\* A draft exists only because the greeting gate or the evidence admitted it.
DraftControl ==
  /\ (pc \in {"validate_citations", "finalize"} /\ abstention_reason = NoReason)
       \/ status = "completed"
     => ApprovedGreeting \/ (evidence_status = "sufficient" /\ conflict_score < BlockingConflict)
  /\ pc = "finalize" \/ status = "completed" =>
       /\ answer = "generated" /\ citation_check = "passed"
       /\ CitationsValid /\ citations = CitedIds(cites) /\ generation_attempts > 0
       /\ ~ApprovedGreeting => route # "direct"

\* No search is about to be repeated.
AttemptControl ==
  /\ \A i, j \in DOMAIN attempts :
       i # j => \/ attempts[i].query # attempts[j].query
                \/ attempts[i].route # attempts[j].route
  /\ abstention_reason # "repeated_query_route"
  /\ pc \in {"initialize", "extract_features", "controller_decide"} /\ abstention_reason = NoReason =>
       \A i \in DOMAIN attempts : attempts[i].query # active_query
  /\ pc = "retrieve" => ~Attempted(active_query, route)
  /\ pc \in {"rerank", "evaluate_evidence"} /\ fallback_pending /\ abstention_reason = NoReason =>
       ~Attempted(active_query, route)

\* The inductive invariant: the conjunction of the parts above with the claim that
\* nothing inside the graph has failed.
InductiveInvariant ==
  /\ TypeOK /\ StepBudget /\ VerdictControl /\ EvidenceControl
  /\ DraftControl /\ AttemptControl /\ NoInternalFailure
=============================================================================
