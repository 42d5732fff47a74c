------------------------ MODULE RetrievalControllers ------------------------
(***************************************************************************)
(* The decision policies that the query workflow may be given               *)
(* (src/evidenceops/controller).  A policy is a function of a read-only     *)
(* view `s' of the orchestration state; here it is the set of decisions the *)
(* policy may return, a singleton when the policy is deterministic.         *)
(* Confidences and reason codes that nothing reads are left out; a reason   *)
(* is kept only for an abstention, where the workflow stores it.            *)
(***************************************************************************)
EXTENDS Integers

RetrievalRoutes == {"sparse", "dense", "hybrid"}
Routes          == RetrievalRoutes \cup {"direct"}
NoRoute         == "none"

Actions == {"stop", "direct_answer", "retrieve_sparse", "retrieve_dense",
            "retrieve_hybrid", "reformulate", "rerank", "abstain"}
NoAction == "none"
NoReason == "none"

\* What the regular expressions of the feature extractor tell apart.  A greeting
\* matches none of the other patterns, so the four kinds exclude each other.
QueryKinds == {"greeting", "complex", "code", "plain"}

EvidenceStatuses == {"unknown", "insufficient", "sufficient", "conflicting"}

\* Scores are in hundredths: 30 stands for 0.30.
BlockingConflict == 30
MaterialConflict == 60

Decision(action, route, reason) ==
  [action |-> action, route |-> route, reason |-> reason]

RetrieveAction(route) ==
  CASE route = "sparse" -> "retrieve_sparse"
    [] route = "dense"  -> "retrieve_dense"
    [] route = "hybrid" -> "retrieve_hybrid"

AtCallLimit(s)      == s.retrieval_calls >= s.max_retrieval_calls
AtIterationLimit(s) == s.iteration_count >= s.max_iterations
Sufficient(s) ==
  s.evidence_status = "sufficient" /\ s.conflict_score < BlockingConflict
Conflicting(s) ==
  s.evidence_status = "conflicting" \/ s.conflict_score >= MaterialConflict

-----------------------------------------------------------------------------
(* The heuristic policy: ordered rules, the first that applies decides.     *)

\* Routes neither attempted nor currently selected, in the policy's preference.
UntriedRoute(s) ==
  LET untried == RetrievalRoutes \ (s.tried_routes \cup {s.route})
  IN  IF "hybrid" \in untried THEN "hybrid"
      ELSE IF "sparse" \in untried THEN "sparse"
      ELSE IF "dense" \in untried THEN "dense"
      ELSE NoRoute

\* Rule 3: material conflict is met with one more independent route, if any.
ConflictDecision(s) ==
  LET route == UntriedRoute(s)
  IN  IF route # NoRoute
      THEN Decision(RetrieveAction(route), route, NoReason)
      ELSE Decision("abstain", NoRoute, "abstain_conflicting_evidence_unresolvable")

\* Rules 5 and 6: the first decision of a run, taken from the query alone.
InitialDecision(s) ==
  CASE s.kind = "greeting" /\ ~s.require_citations
         -> Decision("direct_answer", "direct", NoReason)
    [] s.kind = "greeting" /\ s.require_citations
         -> Decision("retrieve_dense", "dense", NoReason)
    [] s.kind = "complex" -> Decision("retrieve_hybrid", "hybrid", NoReason)
    [] s.kind = "code"    -> Decision("retrieve_sparse", "sparse", NoReason)
    [] s.kind = "plain"   -> Decision("retrieve_dense", "dense", NoReason)

HeuristicDecision(s) ==
  IF Sufficient(s) THEN Decision("stop", NoRoute, NoReason)
  ELSE IF AtCallLimit(s)
    THEN Decision("abstain", NoRoute, "abstain_retrieval_budget_exhausted")
  ELSE IF AtIterationLimit(s)
    THEN Decision("abstain", NoRoute, "abstain_iteration_budget_exhausted")
  ELSE IF Conflicting(s) THEN ConflictDecision(s)
  ELSE IF s.refinement_ready /\ s.route \in RetrievalRoutes
    THEN Decision(RetrieveAction(s.route), s.route, NoReason)
  ELSE IF s.retrieval_calls > s.iteration_count
    THEN Decision("reformulate", NoRoute, NoReason)
  ELSE InitialDecision(s)

-----------------------------------------------------------------------------
(* The learned policy: budget guard, then the model's label, or the         *)
(* heuristic when the model is absent, unsure or raises.                    *)

\* The labels the training pipeline can fit: the oracle never teaches the
\* direct answer nor the explicit rerank.
LearnedLabels == Actions \ {"direct_answer", "rerank"}

LabelRoute(label) ==
  CASE label = "retrieve_sparse" -> "sparse"
    [] label = "retrieve_dense"  -> "dense"
    [] label = "retrieve_hybrid" -> "hybrid"
    [] OTHER -> NoRoute

LearnedDecisions(s) ==
  IF AtCallLimit(s) \/ AtIterationLimit(s)
  THEN { IF Sufficient(s) THEN Decision("stop", NoRoute, NoReason)
         ELSE Decision("abstain", NoRoute, "learned_guardrail_budget_exhausted_abstain") }
  ELSE { HeuristicDecision(s) } \cup
       { Decision(label, LabelRoute(label),
                  IF label = "abstain" THEN "learned_model_prediction" ELSE NoReason)
           : label \in LearnedLabels }

-----------------------------------------------------------------------------
(* Any object with a `decide' method is accepted as a controller.           *)
CustomReason == "custom_controller_abstain"

CustomDecisions ==
  { d \in [action : Actions, route : Routes \cup {NoRoute}, reason : {NoReason, CustomReason}] :
      d.action = "abstain" <=> d.reason # NoReason }

ControllerReasons ==
  {"abstain_retrieval_budget_exhausted", "abstain_iteration_budget_exhausted",
   "abstain_conflicting_evidence_unresolvable",
   "learned_guardrail_budget_exhausted_abstain", "learned_model_prediction",
   CustomReason}

Controllers == {"heuristic", "learned", "custom"}

DecisionsOf(controller, s) ==
  CASE controller = "heuristic" -> {HeuristicDecision(s)}
    [] controller = "learned"   -> LearnedDecisions(s)
    [] controller = "custom"    -> CustomDecisions
=============================================================================
