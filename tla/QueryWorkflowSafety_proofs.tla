---------------------- MODULE QueryWorkflowSafety_proofs ----------------------
(***************************************************************************)
(* The inductive invariant of QueryWorkflow holds of every run, for every   *)
(* controller and every answer of the collaborators; and from it what a     *)
(* caller relies on: no failure inside the graph, no repeated attempt, and  *)
(* no completed answer without its evidence.                                *)
(***************************************************************************)
EXTENDS QueryWorkflow_proofs

USE DEF NoReason, NoError, NoAction

\* The inductive invariant, with the bound on the steps that types need.
Inv ==
  /\ TypeInv /\ StepBudget /\ VerdictControl /\ EvidenceControl
  /\ DraftControl /\ AttemptControl /\ NoInternalFailure

-----------------------------------------------------------------------------
(* Lemmas shared by the nodes.                                              *)

\* The numbers the budgets are about.
Counters ==
  /\ iteration_count \in 0..3 /\ retrieval_calls \in 0..3
  /\ req.max_iterations \in 1..3 /\ req.max_retrieval_calls \in 1..3
  /\ steps \in 0..64 /\ generation_attempts \in 0..2
  /\ fallback_used \in BOOLEAN /\ fallback_pending \in BOOLEAN

LEMMA CountersTyped ==
  /\ TypeInv => Counters
  /\ TypeInv' => Counters'
<1>1. TypeInv => Counters
  BY RequestBounds DEF TypeInv, TypeOK, Counters, MaxGenerations, RecursionLimit
<1>2. TypeInv' => Counters'
  <2>1. ASSUME req' \in RequestType PROVE req'.max_iterations \in 1..3 /\ req'.max_retrieval_calls \in 1..3
    BY <2>1 DEF RequestType
  <2>2. QED
    BY <2>1 DEF TypeInv, TypeOK, Counters, MaxGenerations, RecursionLimit
<1>3. QED
  BY <1>1, <1>2

\* What the validator looks at while a run is not completed.
Bounded ==
  /\ packed => Cardinality(evidence) <= req.top_k_context
  /\ iteration_count <= req.max_iterations /\ retrieval_calls <= req.max_retrieval_calls
  /\ status = "abstained" => abstention_reason # NoReason /\ next_action = NoAction
  /\ status # "completed"

\* The validator accepts such a state, and the node's edge is followed.
LEMMA NodeIsLeft ==
  ASSUME TypeInv', Bounded', NEW node, Leave(node), node = "end" \/ steps' < 64
  PROVE  pc' = node /\ error' = NoError
<1>1. ValidState'
  BY DEF TypeInv, TypeOK, Bounded, ValidState
<1>2. steps' \in 0..64
  BY CountersTyped DEF Counters
<1>3. QED
  BY <1>1, <1>2 DEF Leave, RecursionLimit

\* To abstain leaves a reason, the first one given.
LEMMA AbstainingGivesReason ==
  ASSUME NEW reason, reason # NoReason, Abstaining(reason)
  PROVE  /\ status' = "abstained" /\ next_action' = NoAction /\ abstention_reason' # NoReason
         /\ abstention_reason # NoReason => abstention_reason' = abstention_reason
         /\ abstention_reason = NoReason => abstention_reason' = reason
         /\ answer' = "canned" /\ cites' = {} /\ citations' = {}
  BY DEF Abstaining

\* Before a node runs, the run is not over.
LEMMA RunIsOpen ==
  ASSUME Inv, pc # "end"
  PROVE  status # "completed" /\ Bounded
  BY DEF Inv, VerdictControl, EvidenceControl, StepBudget, Bounded

-----------------------------------------------------------------------------
(* One lemma a node.                                                        *)

LEMMA InitializeKeeps ==
  ASSUME Inv, TypeInv', Initialize
  PROVE  Inv'
<1>1. /\ pc = "initialize" /\ steps' = steps + 1 /\ UNCHANGED request /\ status' = "running"
      /\ UNCHANGED <<next_action, abstention_reason, answer, cites, citations,
                     route, query, budget, findings, flags, drafting>>
      /\ Leave("extract_features")
  BY DEF Initialize, Enter
<1>2. Counters /\ Counters'
  BY CountersTyped DEF Inv
<1>3. abstention_reason = NoReason /\ steps = 0 /\ generation_attempts = 0
  BY <1>1 DEF Inv, VerdictControl, StepBudget, StepsSoFar, Gathering
<1>4. pc' = "extract_features" /\ error' = NoError
  <2>1. Bounded'
    BY <1>1, RunIsOpen DEF Bounded, request, budget, findings
  <2>2. QED
    BY <1>1, <1>2, <1>3, <2>1, NodeIsLeft
<1>5. StepBudget'
  BY <1>1, <1>2, <1>3, <1>4 DEF Inv, StepBudget, StepsSoFar, StepsWhenAbstaining, Lap, Counters, request, budget, flags
<1>6. VerdictControl'
  BY <1>1, <1>3, <1>4 DEF Inv, VerdictControl, Gathering, budget, drafting
<1>7. EvidenceControl'
  BY <1>1, <1>4 DEF Inv, EvidenceControl, LastSearchSucceeded, Gathering, request, query, budget, findings, flags
<1>8. DraftControl'
  BY <1>1, <1>4 DEF DraftControl
<1>9. AttemptControl'
  BY <1>1, <1>3, <1>4 DEF Inv, AttemptControl, Attempted, query, budget, flags
<1>10. QED
  BY <1>4, <1>5, <1>6, <1>7, <1>8, <1>9 DEF Inv, NoInternalFailure

LEMMA ExtractFeaturesKeeps ==
  ASSUME Inv, TypeInv', ExtractFeatures
  PROVE  Inv'
<1>1. /\ pc = "extract_features" /\ steps' = steps + 1 /\ UNCHANGED request
      /\ UNCHANGED <<verdict, route, active_query, budget, findings, flags, drafting>>
      /\ Leave("controller_decide")
  BY DEF ExtractFeatures, Enter
<1>2. Counters /\ Counters'
  BY CountersTyped DEF Inv
<1>3. generation_attempts = 0
  BY <1>1 DEF Inv, VerdictControl, Gathering
<1>4. steps' <= 41
  BY <1>1, <1>2 DEF Inv, StepBudget, StepsSoFar, StepsWhenAbstaining, Lap, Counters
<1>5. pc' = "controller_decide" /\ error' = NoError
  <2>1. Bounded'
    BY <1>1, RunIsOpen DEF Bounded, request, budget, findings, verdict
  <2>2. QED
    BY <1>1, <1>2, <1>4, <2>1, NodeIsLeft DEF Counters
<1>6. StepBudget'
  BY <1>1, <1>2, <1>4, <1>5 DEF Inv, StepBudget, StepsSoFar, StepsWhenAbstaining, Lap, Counters, request, budget, flags, verdict
<1>7. VerdictControl'
  BY <1>1, <1>3, <1>5 DEF Inv, VerdictControl, Gathering, budget, drafting, verdict
<1>8. EvidenceControl'
  BY <1>1, <1>5 DEF Inv, EvidenceControl, LastSearchSucceeded, Gathering, request, budget, findings, flags
<1>9. DraftControl'
  BY <1>1, <1>5, RunIsOpen DEF DraftControl, verdict, Bounded
<1>10. AttemptControl'
  BY <1>1, <1>5 DEF Inv, AttemptControl, Attempted, budget, flags, verdict
<1>11. QED
  BY <1>5, <1>6, <1>7, <1>8, <1>9, <1>10 DEF Inv, NoInternalFailure

\* A decision names one of four nodes, and three of them only without a reason to abstain.
LEMMA DecisionsLead ==
  /\ AfterDecision' \in {"abstain", "generate", "retrieve", "reformulate"}
  /\ abstention_reason' # NoReason => AfterDecision' = "abstain"
  BY DEF AfterDecision

\* A decision may come with a reason of the controller's, never with one of the nodes'.
LEMMA DecisionReasons ==
  ASSUME TypeInv, ControllerDecide
  PROVE  /\ abstention_reason' # "repeated_query_route" \/ abstention_reason' = abstention_reason
         /\ UNCHANGED <<status, answer, cites, citations>>
         /\ abstention_reason # NoReason => UNCHANGED verdict
<1>1. CASE abstention_reason # NoReason
  BY <1>1 DEF ControllerDecide, verdict
<1>2. CASE abstention_reason = NoReason
  <2>1. View \in ViewType /\ controller \in Controllers
    BY TypeParts, ViewTyped DEF MachineType
  <2>2. PICK d \in DecisionsOf(controller, View) : abstention_reason' = d.reason
    BY <1>2 DEF ControllerDecide
  <2>3. d.reason \in ControllerReasons \cup {NoReason}
    BY <2>1, DecisionsType DEF DecisionType
  <2>4. QED
    BY <1>2, <2>2, <2>3 DEF ControllerDecide, ControllerReasons, CustomReason
<1>3. QED
  BY <1>1, <1>2

LEMMA ControllerDecideKeeps ==
  ASSUME Inv, TypeInv', ControllerDecide
  PROVE  Inv'
<1>1. /\ pc = "controller_decide" /\ steps' = steps + 1 /\ UNCHANGED request
      /\ UNCHANGED <<query, budget, findings, flags, drafting>>
      /\ Leave(AfterDecision')
  BY DEF ControllerDecide, Enter
<1>2. Counters /\ Counters'
  BY CountersTyped DEF Inv
<1>3. generation_attempts = 0
  BY <1>1 DEF Inv, VerdictControl, Gathering
<1>4. /\ UNCHANGED <<status, answer, cites, citations>>
      /\ abstention_reason # NoReason => UNCHANGED verdict
      /\ abstention_reason' # "repeated_query_route"
  BY DecisionReasons DEF Inv, AttemptControl
<1>5. steps' <= 42 /\ (abstention_reason = NoReason => steps' <= 3 + Lap)
  BY <1>1, <1>2 DEF Inv, StepBudget, StepsSoFar, StepsWhenAbstaining, Lap, Counters
<1>6. pc' = AfterDecision' /\ error' = NoError
  <2>1. Bounded'
    BY <1>1, <1>4, RunIsOpen DEF Bounded, Inv, VerdictControl, request, budget, findings, verdict
  <2>2. QED
    BY <1>1, <1>2, <1>5, <2>1, NodeIsLeft DEF Counters
<1>7. StepBudget'
  BY <1>1, <1>2, <1>3, <1>4, <1>5, <1>6, DecisionsLead
     DEF Inv, StepBudget, StepsSoFar, StepsWhenAbstaining, Lap, Counters, request, budget, flags,
         drafting, verdict
<1>8. VerdictControl'
  BY <1>1, <1>3, <1>4, <1>6, RunIsOpen, DecisionsLead
     DEF Inv, VerdictControl, Gathering, budget, drafting, verdict, Bounded
<1>9. EvidenceControl'
  BY <1>1, <1>6, DecisionsLead
     DEF Inv, EvidenceControl, LastSearchSucceeded, Gathering, request, query, budget, findings, flags
<1>10. DraftControl'
  BY <1>1, <1>4, <1>6, RunIsOpen, DecisionsLead DEF DraftControl, Bounded
<1>11. AttemptControl'
  <2>1. pc' = "retrieve" => ~Attempted(active_query, route)'
    <3>1. ASSUME pc' = "retrieve" PROVE \A i \in DOMAIN attempts : attempts[i].query # active_query
      <4>1. abstention_reason = NoReason
        BY <1>4, <1>6, <3>1, DecisionsLead DEF verdict
      <4>2. QED
        BY <1>1, <4>1 DEF Inv, AttemptControl
    <3>2. QED
      BY <1>1, <3>1 DEF Attempted, budget, query
  <2>2. QED
    BY <1>1, <1>4, <1>6, <2>1, DecisionsLead DEF Inv, AttemptControl, budget, query, flags
<1>12. QED
  BY <1>6, <1>7, <1>8, <1>9, <1>10, <1>11 DEF Inv, NoInternalFailure

\* A controller that raises ends the run as it is.
LEMMA ControllerRaisesKeeps ==
  ASSUME Inv, TypeInv', ControllerRaises
  PROVE  Inv'
<1>1. /\ pc = "controller_decide" /\ pc' = "end" /\ error' = "workflow_failed"
      /\ UNCHANGED <<request, verdict, route, query, budget, findings, flags, drafting>>
      /\ abstention_reason = NoReason
  BY DEF ControllerRaises, Enter
<1>2. status # "completed" /\ evidence_status # "sufficient"
  BY <1>1, RunIsOpen DEF Inv, EvidenceControl, Gathering
<1>3. StepBudget'
  BY <1>1 DEF Inv, StepBudget, StepsSoFar, request, budget, flags, verdict
<1>4. VerdictControl'
  BY <1>1, <1>2 DEF Inv, VerdictControl, Gathering, budget, drafting, verdict
<1>5. EvidenceControl'
  BY <1>1, <1>2 DEF Inv, EvidenceControl, request, findings
<1>6. DraftControl'
  BY <1>1, <1>2 DEF DraftControl, verdict
<1>7. AttemptControl'
  BY <1>1 DEF Inv, AttemptControl, budget, verdict
<1>8. QED
  BY <1>1, <1>3, <1>4, <1>5, <1>6, <1>7 DEF Inv, NoInternalFailure

-----------------------------------------------------------------------------
(* Ranking and packing.                                                     *)

\* What is kept of evidence that fits fits, and detection is about the results.
LEMMA KeptEvidence ==
  ASSUME TypeInv, NEW kept \in SUBSET evidence
  PROVE  Cardinality(kept) <= Cardinality(evidence)
         /\ Cardinality(kept) \in Nat /\ Cardinality(evidence) \in Nat
<1>1. IsFiniteSet(evidence)
  BY DEF TypeInv, TypeOK, SearchResults
<1>2. QED
  BY <1>1, FS_Subset, FS_CardinalityType

LEMMA RerankKeeps ==
  ASSUME Inv, TypeInv', Rerank
  PROVE  Inv'
<1>1. /\ pc = "rerank" /\ steps' = steps + 1 /\ UNCHANGED request
      /\ UNCHANGED <<route, query, budget, packed, evidence_status, conflict_score,
                     last_evidence_ids, retrieval_succeeded, flags, drafting>>
      /\ Leave("evaluate_evidence")
      /\ evidence' \in SUBSET evidence
  BY DEF Rerank, Enter
<1>2. Counters /\ Counters'
  BY CountersTyped DEF Inv
<1>3. generation_attempts = 0 /\ evidence_status # "sufficient"
  BY <1>1 DEF Inv, VerdictControl, EvidenceControl, Gathering
<1>4. \/ UNCHANGED verdict
      \/ abstention_reason = NoReason /\ Abstaining("reranker_unavailable")
  BY DEF Rerank, RerankSkipped
<1>5. /\ abstention_reason # NoReason => UNCHANGED verdict
      /\ status' # "completed" /\ abstention_reason' # "repeated_query_route"
      /\ abstention_reason' = NoReason => UNCHANGED verdict
      /\ status' = "abstained" => abstention_reason' # NoReason /\ next_action' = NoAction
  BY <1>1, <1>4, RunIsOpen, AbstainingGivesReason DEF verdict, Bounded, Inv, AttemptControl
<1>6. /\ steps' <= 41
      /\ abstention_reason = NoReason => steps' <= 5 + Lap - Pending
  BY <1>1, <1>2 DEF Inv, StepBudget, StepsSoFar, StepsWhenAbstaining, Lap, Pending, Counters
<1>7. packed' => Cardinality(evidence') <= req'.top_k_context
  <2>1. req.top_k_context \in 1..6
    BY RequestBounds DEF Inv, TypeInv, TypeOK
  <2>2. QED
    BY <1>1, <2>1, KeptEvidence DEF Inv, EvidenceControl, request
<1>8. pc' = "evaluate_evidence" /\ error' = NoError
  <2>1. Bounded'
    BY <1>1, <1>5, <1>7, RunIsOpen DEF Bounded, request, budget
  <2>2. QED
    BY <1>1, <1>2, <1>6, <2>1, NodeIsLeft DEF Counters
<1>9. StepBudget'
  BY <1>1, <1>2, <1>5, <1>6, <1>8
     DEF Inv, StepBudget, StepsSoFar, StepsWhenAbstaining, Lap, Pending, Counters, request, budget, flags, verdict
<1>10. VerdictControl'
  BY <1>1, <1>3, <1>5, <1>8 DEF Inv, VerdictControl, Gathering, budget, drafting
<1>11. EvidenceControl'
  BY <1>1, <1>3, <1>5, <1>7, <1>8
     DEF Inv, EvidenceControl, LastSearchSucceeded, query, budget, flags, verdict
<1>12. DraftControl'
  BY <1>5, <1>8 DEF DraftControl
<1>13. AttemptControl'
  BY <1>1, <1>5, <1>8 DEF Inv, AttemptControl, Attempted, query, budget, flags, verdict
<1>14. QED
  BY <1>8, <1>9, <1>10, <1>11, <1>12, <1>13 DEF Inv, NoInternalFailure

\* The larger of two scores is no smaller than either.
LEMMA LargerIsLarger ==
  ASSUME NEW a \in {0, 75}, NEW b \in {0, 75}
  PROVE  Larger(a, b) \in {0, 75} /\ Larger(a, b) >= a /\ Larger(a, b) >= b
  BY DEF Larger

\* Where the evaluation leads.
LEMMA EvaluationsLead ==
  /\ AfterEvaluation' \in {"abstain", "retrieve", "generate", "reformulate"}
  /\ abstention_reason' # NoReason => AfterEvaluation' = "abstain"
  /\ AfterEvaluation' = "retrieve" => fallback_pending'
  /\ AfterEvaluation' \in {"generate", "reformulate"} => fallback_pending' # TRUE
  /\ AfterEvaluation' = "generate" => evidence_status' = "sufficient"
  /\ evidence_status' = "sufficient" /\ fallback_pending' = FALSE =>
       AfterEvaluation' \in {"abstain", "generate"}
  BY DEF AfterEvaluation

LEMMA EvaluateEvidenceKeeps ==
  ASSUME Inv, TypeInv', EvaluateEvidence
  PROVE  Inv'
<1>1. /\ pc = "evaluate_evidence" /\ steps' = steps + 1 /\ UNCHANGED request
      /\ UNCHANGED <<route, query, budget, last_evidence_ids, retrieval_succeeded, flags, drafting>>
      /\ Leave(AfterEvaluation')
  BY DEF EvaluateEvidence, Enter
<1>2. Counters /\ Counters'
  BY CountersTyped DEF Inv
<1>3. generation_attempts = 0 /\ evidence_status # "sufficient"
  BY <1>1 DEF Inv, VerdictControl, EvidenceControl, Gathering
<1>4. \/ /\ EvaluationSkipped
         /\ UNCHANGED <<verdict, evidence, packed, evidence_status, conflict_score>>
      \/ /\ ~EvaluationSkipped /\ conflict_score' = Larger(conflict_score, ConflictScore(evidence))
         /\ evidence_status' = "conflicting" /\ Abstaining("conflicting_evidence")
         /\ UNCHANGED <<evidence, packed>>
      \/ /\ ~EvaluationSkipped /\ conflict_score' = Larger(conflict_score, ConflictScore(evidence))
         /\ \E kept \in Packings(evidence) :
              /\ evidence' = kept /\ packed' = (kept # {})
              /\ evidence_status' \in SufficiencyOf(kept)
         /\ UNCHANGED verdict
  BY DEF EvaluateEvidence
<1>5. /\ abstention_reason # NoReason => UNCHANGED verdict
      /\ status' # "completed" /\ abstention_reason' # "repeated_query_route"
      /\ abstention_reason' = NoReason => UNCHANGED verdict
      /\ status' = "abstained" => abstention_reason' # NoReason /\ next_action' = NoAction
  BY <1>1, <1>4, RunIsOpen, AbstainingGivesReason
     DEF verdict, Bounded, Inv, AttemptControl, EvaluationSkipped
<1>6. /\ steps' <= 42
      /\ abstention_reason = NoReason => steps' <= 6 + Lap - Pending
  BY <1>1, <1>2 DEF Inv, StepBudget, StepsSoFar, StepsWhenAbstaining, Lap, Pending, Counters
<1>7. /\ packed' => Cardinality(evidence') <= req'.top_k_context
      /\ evidence' \in SUBSET evidence
      /\ evidence_status' = "sufficient" =>
           packed' /\ evidence' # {} /\ abstention_reason' = NoReason /\ fallback_pending = FALSE
  <2>1. CASE UNCHANGED <<evidence, packed>> /\ evidence_status' # "sufficient"
    BY <1>1, <2>1 DEF Inv, EvidenceControl, request
  <2>2. ASSUME ~EvaluationSkipped, UNCHANGED verdict,
               NEW kept \in Packings(evidence), evidence' = kept, packed' = (kept # {}),
               evidence_status' \in SufficiencyOf(kept)
        PROVE  <1>7!1 /\ <1>7!2 /\ <1>7!3
    BY <1>1, <1>2, <2>2 DEF Packings, SufficiencyOf, EvaluationSkipped, verdict, request, Counters
  <2>3. QED
    BY <1>3, <1>4, <2>1, <2>2
<1>8. conflict_score' >= ConflictScore(last_evidence_ids')
  <2>1. /\ conflict_score \in {0, 75} /\ conflict_score >= ConflictScore(last_evidence_ids)
        /\ \A r : ConflictScore(r) \in {0, 75}
    BY ScoreType DEF Inv, EvidenceControl, TypeInv, TypeOK
  <2>2. \/ conflict_score' = conflict_score
        \/ conflict_score' = Larger(conflict_score, ConflictScore(evidence))
    BY <1>4
  <2>3. conflict_score' >= conflict_score /\ conflict_score' \in {0, 75}
    BY <2>1, <2>2, LargerIsLarger
  <2>4. QED
    BY <1>1, <2>1, <2>3
<1>9. pc' = AfterEvaluation' /\ error' = NoError
  <2>1. Bounded'
    BY <1>1, <1>5, <1>7, RunIsOpen DEF Bounded, request, budget
  <2>2. QED
    BY <1>1, <1>2, <1>6, <2>1, NodeIsLeft DEF Counters
<1>10. StepBudget'
  BY <1>1, <1>2, <1>3, <1>5, <1>6, <1>9, EvaluationsLead
     DEF Inv, StepBudget, StepsSoFar, StepsWhenAbstaining, Lap, Pending, Counters, request, budget,
         flags, verdict, drafting
<1>11. VerdictControl'
  BY <1>1, <1>3, <1>5, <1>9, EvaluationsLead DEF Inv, VerdictControl, Gathering, budget, drafting
<1>12. EvidenceControl'
  <2>1. evidence_status' = "sufficient" => pc' \notin Gathering /\ LastSearchSucceeded'
    <3>1. ASSUME evidence_status' = "sufficient" PROVE pc' \notin Gathering
      BY <1>1, <1>7, <1>9, <3>1, EvaluationsLead DEF Gathering, flags
    <3>2. ASSUME evidence_status' = "sufficient" PROVE LastSearchSucceeded'
      <4>1. abstention_reason = NoReason /\ ~fallback_pending
        BY <1>5, <1>7, <3>2 DEF verdict
      <4>2. LastSearchSucceeded
        BY <1>1, <4>1 DEF Inv, EvidenceControl
      <4>3. QED
        BY <1>1, <4>2 DEF LastSearchSucceeded, query, budget
    <3>3. QED
      BY <3>1, <3>2
  <2>2. pc' \notin {"rerank", "evaluate_evidence"}
    BY <1>9, EvaluationsLead
  <2>3. evidence' \subseteq last_evidence_ids'
    BY <1>1, <1>7 DEF Inv, EvidenceControl
  <2>4. QED
    BY <1>7, <1>8, <2>1, <2>2, <2>3 DEF EvidenceControl
<1>13. DraftControl'
  BY <1>5, <1>9, EvaluationsLead DEF DraftControl
<1>14. AttemptControl'
  BY <1>1, <1>5, <1>9, EvaluationsLead
     DEF Inv, AttemptControl, Attempted, query, budget, flags, verdict
<1>15. QED
  BY <1>9, <1>10, <1>11, <1>12, <1>13, <1>14 DEF Inv, NoInternalFailure

-----------------------------------------------------------------------------
(* Reformulation.                                                           *)

LEMMA ReformulateKeeps ==
  ASSUME Inv, TypeInv', Reformulate
  PROVE  Inv'
<1>1. /\ pc = "reformulate" /\ steps' = steps + 1 /\ UNCHANGED request
      /\ UNCHANGED <<route, kind, retrieval_calls, attempts, searches, findings,
                     fallback_used, fallback_pending, drafting>>
      /\ Leave("extract_features")
  BY DEF Reformulate, Enter
<1>2. Counters /\ Counters'
  BY CountersTyped DEF Inv
<1>3. /\ generation_attempts = 0 /\ evidence_status # "sufficient" /\ abstention_reason = NoReason
  BY <1>1 DEF Inv, VerdictControl, EvidenceControl, Gathering
<1>4. /\ iteration_count' <= req'.max_iterations
      /\ iteration_count' \in {iteration_count, iteration_count + 1}
      /\ \/ UNCHANGED verdict
         \/ \E reason \in WorkflowReasons \ {"repeated_query_route"} : Abstaining(reason)
      /\ UNCHANGED verdict =>
           /\ iteration_count' = iteration_count + 1
           /\ active_query' \notin PreviousQueries
  <2>1. ASSUME NEW reason \in WorkflowReasons, Abstaining(reason) PROVE ~UNCHANGED verdict
    <3>1. reason # NoReason
      BY DEF WorkflowReasons
    <3>2. QED
      BY <1>3, <2>1, <3>1, AbstainingGivesReason DEF verdict
  <2>2. CASE ReformulateRefusal # NoReason
    <3>1. ReformulateRefusal \in WorkflowReasons \ {"repeated_query_route"}
      BY <2>2 DEF ReformulateRefusal, WorkflowReasons
    <3>2. Abstaining(ReformulateRefusal) /\ UNCHANGED iteration_count
      BY <1>3, <2>2 DEF Reformulate
    <3>3. QED
      BY <1>1, <1>2, <2>1, <3>1, <3>2 DEF Inv, StepBudget, request
  <2>3. CASE RefinementFails
    <3>1. Abstaining("duplicate_reformulation") /\ UNCHANGED iteration_count
      BY <2>3 DEF RefinementFails
    <3>2. "duplicate_reformulation" \in WorkflowReasons \ {"repeated_query_route"}
      BY DEF WorkflowReasons
    <3>3. QED
      BY <1>1, <1>2, <2>1, <3>1, <3>2 DEF Inv, StepBudget, request
  <2>4. ASSUME ReformulateRefusal = NoReason, NEW proposal, RefinementIsDistinct(proposal), Refines(proposal)
        PROVE  <1>4!1 /\ <1>4!2 /\ <1>4!3 /\ <1>4!4
    <3>1. iteration_count < req.max_iterations
      BY <1>2, <2>4 DEF ReformulateRefusal, Counters
    <3>2. /\ active_query' = proposal /\ iteration_count' = iteration_count + 1
          /\ Abstaining("iteration_budget_exhausted") \/ UNCHANGED verdict
      BY <2>4 DEF Refines
    <3>3. "iteration_budget_exhausted" \in WorkflowReasons \ {"repeated_query_route"}
      BY DEF WorkflowReasons
    <3>4. proposal \notin PreviousQueries
      BY <2>4 DEF RefinementIsDistinct
    <3>5. QED
      BY <1>1, <1>2, <3>1, <3>2, <3>3, <3>4 DEF request, Counters
  <2>5. QED
    BY <1>3, <2>2, <2>3, <2>4 DEF Reformulate
<1>5. /\ status' # "completed" /\ abstention_reason' # "repeated_query_route"
      /\ abstention_reason' = NoReason => UNCHANGED verdict
      /\ status' = "abstained" => abstention_reason' # NoReason /\ next_action' = NoAction
  <2>1. CASE UNCHANGED verdict
    BY <1>1, <1>3, <2>1, RunIsOpen DEF verdict, Bounded
  <2>2. ASSUME NEW reason \in WorkflowReasons \ {"repeated_query_route"}, Abstaining(reason)
        PROVE  <1>5!1 /\ <1>5!2 /\ <1>5!3
    <3>1. reason # NoReason
      BY DEF WorkflowReasons
    <3>2. QED
      BY <1>3, <2>2, <3>1, AbstainingGivesReason
  <2>3. QED
    BY <1>4, <2>1, <2>2
<1>6. steps' <= 7 + Lap /\ steps' <= 40
  BY <1>1, <1>2, <1>3 DEF Inv, StepBudget, StepsSoFar, Lap, Counters
<1>7. pc' = "extract_features" /\ error' = NoError
  <2>1. Bounded'
    BY <1>1, <1>4, <1>5, RunIsOpen DEF Bounded, request, findings
  <2>2. QED
    BY <1>1, <1>2, <1>6, <2>1, NodeIsLeft DEF Counters
<1>8. StepBudget'
  BY <1>1, <1>2, <1>4, <1>5, <1>6, <1>7
     DEF Inv, StepBudget, StepsSoFar, StepsWhenAbstaining, Lap, Counters, request
<1>9. VerdictControl'
  BY <1>1, <1>3, <1>5, <1>7 DEF Inv, VerdictControl, Gathering, drafting
<1>10. EvidenceControl'
  BY <1>1, <1>3, <1>7 DEF Inv, EvidenceControl, request, findings
<1>11. DraftControl'
  BY <1>5, <1>7 DEF DraftControl
<1>12. AttemptControl'
  <2>1. abstention_reason' = NoReason => \A i \in DOMAIN attempts : attempts[i].query # active_query'
    BY <1>4, <1>5 DEF PreviousQueries
  <2>2. QED
    BY <1>1, <1>5, <1>7, <2>1 DEF Inv, AttemptControl
<1>13. QED
  BY <1>7, <1>8, <1>9, <1>10, <1>11, <1>12 DEF Inv, NoInternalFailure

-----------------------------------------------------------------------------
(* Drafting.                                                                *)

LEMMA GenerateKeeps ==
  ASSUME Inv, TypeInv', Generate
  PROVE  Inv'
<1>1. /\ pc = "generate" /\ steps' = steps + 1 /\ UNCHANGED request
      /\ UNCHANGED <<route, query, budget, evidence_status, conflict_score,
                     last_evidence_ids, retrieval_succeeded, flags, citation_check>>
      /\ Leave("validate_citations")
  BY DEF Generate, Enter
<1>2. Counters /\ Counters'
  BY CountersTyped DEF Inv
<1>3. abstention_reason = NoReason /\ status \notin {"completed", "abstained"}
  BY <1>1 DEF Inv, VerdictControl
<1>4. /\ \/ \E reason \in WorkflowReasons \ {"repeated_query_route"} : Abstaining(reason)
         \/ /\ answer' = "generated" /\ generation_attempts' = generation_attempts + 1
            /\ UNCHANGED <<status, next_action, abstention_reason, citations>>
            /\ ApprovedGreeting \/ (evidence_status = "sufficient" /\ conflict_score < BlockingConflict)
      /\ generation_attempts' \in {generation_attempts, generation_attempts + 1}
      /\ evidence' = evidence
      /\ packed' \in BOOLEAN /\ (packed => packed')
      /\ packed' => packed \/ evidence_status = "sufficient"
  <2>0. packed \in BOOLEAN
    BY DEF Inv, TypeInv, TypeOK
  <2>1. CASE GenerateRefusal # NoReason
    <3>1. GenerateRefusal \in WorkflowReasons \ {"repeated_query_route"}
      BY <2>1 DEF GenerateRefusal, WorkflowReasons
    <3>2. Abstaining(GenerateRefusal) /\ UNCHANGED <<evidence, packed, generation_attempts>>
      BY <1>3, <2>1 DEF Generate
    <3>3. QED
      BY <2>0, <3>1, <3>2
  <2>2. CASE GenerateRefusal = NoReason
    <3>1. Drafts
      BY <1>3, <2>2 DEF Generate
    <3>2. \/ DirectGeneration
          \/ evidence_status = "sufficient" /\ ~(conflict_score >= BlockingConflict)
      BY <2>2 DEF GenerateRefusal
    <3>3. conflict_score \in {0, 75}
      BY DEF Inv, TypeInv, TypeOK
    <3>4. evidence' = evidence /\ generation_attempts' = generation_attempts + 1
          /\ packed' = (packed \/ ~DirectGeneration)
      BY <3>1 DEF Drafts, Repacked
    <3>5. \/ Abstaining("generator_timeout") \/ Abstaining("generator_unavailable")
          \/ answer' = "generated" /\ UNCHANGED <<status, next_action, abstention_reason, citations>>
      BY <3>1 DEF Drafts
    <3>6. {"generator_timeout", "generator_unavailable"} \subseteq WorkflowReasons \ {"repeated_query_route"}
      BY DEF WorkflowReasons
    <3>7. DirectGeneration => ApprovedGreeting
      BY DEF DirectGeneration
    <3>8. evidence_status = "sufficient" /\ ~(conflict_score >= BlockingConflict)
            => evidence_status = "sufficient" /\ conflict_score < BlockingConflict
      BY <3>3 DEF BlockingConflict
    <3>9. packed' \in BOOLEAN /\ (packed => packed') /\ (packed' => packed \/ evidence_status = "sufficient")
      BY <2>0, <3>2, <3>4
    <3>10. QED
      BY <3>2, <3>4, <3>5, <3>6, <3>7, <3>8, <3>9
  <2>3. QED
    BY <2>1, <2>2
<1>5. /\ status' # "completed" /\ abstention_reason' # "repeated_query_route"
      /\ abstention_reason' = NoReason =>
           /\ answer' = "generated" /\ generation_attempts' = generation_attempts + 1
           /\ ApprovedGreeting \/ (evidence_status = "sufficient" /\ conflict_score < BlockingConflict)
      /\ status' = "abstained" => abstention_reason' # NoReason /\ next_action' = NoAction
      /\ abstention_reason' # NoReason => status' = "abstained"
  <2>1. CASE UNCHANGED <<status, next_action, abstention_reason, citations>>
             /\ answer' = "generated" /\ generation_attempts' = generation_attempts + 1
             /\ (ApprovedGreeting \/ (evidence_status = "sufficient" /\ conflict_score < BlockingConflict))
    BY <1>3, <2>1
  <2>2. ASSUME NEW reason \in WorkflowReasons \ {"repeated_query_route"}, Abstaining(reason)
        PROVE  <1>5!1 /\ <1>5!2 /\ <1>5!3 /\ <1>5!4
    <3>1. reason # NoReason
      BY DEF WorkflowReasons
    <3>2. QED
      BY <1>3, <2>2, <3>1, AbstainingGivesReason
  <2>3. QED
    BY <1>4, <2>1, <2>2
<1>6. steps' <= 7 + Lap + 2 * generation_attempts /\ steps' <= 41
  BY <1>1, <1>2, <1>3 DEF Inv, StepBudget, StepsSoFar, Lap, Counters
<1>7. packed' => Cardinality(evidence') <= req'.top_k_context
  BY <1>1, <1>4 DEF Inv, EvidenceControl, request
<1>8. pc' = "validate_citations" /\ error' = NoError
  <2>1. Bounded'
    BY <1>1, <1>5, <1>7 DEF Bounded, request, budget, Inv, StepBudget
  <2>2. QED
    BY <1>1, <1>2, <1>6, <2>1, NodeIsLeft DEF Counters
<1>9. StepBudget'
  BY <1>1, <1>2, <1>5, <1>6, <1>8
     DEF Inv, StepBudget, StepsSoFar, StepsWhenAbstaining, Lap, Counters, request, budget, flags
<1>10. VerdictControl'
  BY <1>1, <1>2, <1>5, <1>8 DEF Inv, VerdictControl, Gathering, budget, Counters
<1>11. EvidenceControl'
  BY <1>1, <1>4, <1>7, <1>8
     DEF Inv, EvidenceControl, LastSearchSucceeded, Gathering, query, budget
<1>12. DraftControl'
  BY <1>1, <1>5, <1>8 DEF DraftControl, ApprovedGreeting, request
<1>13. AttemptControl'
  BY <1>1, <1>5, <1>8 DEF Inv, AttemptControl, budget
<1>14. QED
  BY <1>8, <1>9, <1>10, <1>11, <1>12, <1>13 DEF Inv, NoInternalFailure

\* Where the validation leads.
LEMMA ValidationsLead ==
  /\ AfterValidation' \in {"abstain", "generate", "finalize"}
  /\ status' = "abstained" => AfterValidation' = "abstain"
  /\ AfterValidation' = "finalize" => citation_check' # "failed"
  BY DEF AfterValidation

LEMMA ValidateCitationsKeeps ==
  ASSUME Inv, TypeInv', ValidateCitations
  PROVE  Inv'
<1>1. /\ pc = "validate_citations" /\ steps' = steps + 1 /\ UNCHANGED request
      /\ UNCHANGED <<route, query, budget, findings, flags, generation_attempts>>
      /\ Leave(AfterValidation')
  BY DEF ValidateCitations, Enter
<1>2. Counters /\ Counters'
  BY CountersTyped DEF Inv
<1>3. status # "completed" /\ (abstention_reason # NoReason => status = "abstained")
      /\ (abstention_reason = NoReason => answer = "generated" /\ generation_attempts > 0)
  BY <1>1, RunIsOpen DEF Inv, VerdictControl
<1>4. \/ abstention_reason # NoReason /\ UNCHANGED verdict
      \/ abstention_reason = NoReason /\ Abstaining("invalid_citations")
      \/ /\ abstention_reason = NoReason /\ citations' = CitedIds(cites)
         /\ UNCHANGED <<status, next_action, abstention_reason, answer, cites>>
         /\ citation_check' = IF CitationsValid THEN "passed" ELSE "failed"
  BY DEF ValidateCitations
<1>5. /\ status' # "completed" /\ abstention_reason' # "repeated_query_route"
      /\ status' = "abstained" => abstention_reason' # NoReason /\ next_action' = NoAction
      /\ abstention_reason' # NoReason => status' = "abstained"
      /\ abstention_reason' = NoReason =>
           /\ abstention_reason = NoReason /\ citations' = CitedIds(cites)
           /\ UNCHANGED <<answer, cites>>
           /\ citation_check' = IF CitationsValid THEN "passed" ELSE "failed"
  BY <1>3, <1>4, AbstainingGivesReason DEF verdict, Inv, AttemptControl, VerdictControl
<1>6. /\ steps' <= 42
      /\ abstention_reason = NoReason => steps' <= 6 + Lap + 2 * generation_attempts
  BY <1>1, <1>2 DEF Inv, StepBudget, StepsSoFar, StepsWhenAbstaining, Lap, Counters
<1>7. pc' = AfterValidation' /\ error' = NoError
  <2>1. Bounded'
    BY <1>1, <1>5, RunIsOpen DEF Bounded, request, budget, findings
  <2>2. QED
    BY <1>1, <1>2, <1>6, <2>1, NodeIsLeft DEF Counters
<1>8. StepBudget'
  BY <1>1, <1>2, <1>5, <1>6, <1>7, ValidationsLead
     DEF Inv, StepBudget, StepsSoFar, StepsWhenAbstaining, Lap, Counters, request, budget, flags
<1>9. VerdictControl'
  BY <1>1, <1>5, <1>7, ValidationsLead DEF Inv, VerdictControl, Gathering, budget
<1>10. EvidenceControl'
  BY <1>1, <1>7, ValidationsLead
     DEF Inv, EvidenceControl, LastSearchSucceeded, Gathering, request, query, budget, findings
<1>11. DraftControl'
  <2>1. CASE pc' # "finalize"
    BY <1>5, <1>7, <2>1, ValidationsLead DEF DraftControl
  <2>2. CASE pc' = "finalize"
    <3>1. abstention_reason' = NoReason /\ citation_check' # "failed"
      BY <1>5, <1>7, <2>2, ValidationsLead
    <3>2. /\ CitationsValid /\ citation_check' = "passed" /\ answer' = "generated"
          /\ citations' = CitedIds(cites) /\ UNCHANGED cites
      BY <1>3, <1>5, <3>1
    <3>3. CitationsValid' /\ citations' = CitedIds(cites)' /\ generation_attempts' > 0
      BY <1>1, <1>3, <1>5, <3>1, <3>2
         DEF CitationsValid, CitationsRequired, ApprovedGreeting, CitedIds, request, findings
    <3>4. ApprovedGreeting \/ (evidence_status = "sufficient" /\ conflict_score < BlockingConflict)
      BY <1>1, <1>5, <3>1 DEF Inv, DraftControl
    <3>5. ~ApprovedGreeting => route # "direct"
      BY <3>4 DEF Inv, EvidenceControl, LastSearchSucceeded, RetrievalRoutes
    <3>6. QED
      BY <1>1, <3>2, <3>3, <3>4, <3>5 DEF DraftControl, ApprovedGreeting, request, findings
  <2>3. QED
    BY <2>1, <2>2
<1>12. AttemptControl'
  BY <1>1, <1>5, <1>7, ValidationsLead DEF Inv, AttemptControl, budget
<1>13. QED
  BY <1>7, <1>8, <1>9, <1>10, <1>11, <1>12 DEF Inv, NoInternalFailure

-----------------------------------------------------------------------------
(* The two ends of a run.                                                   *)

LEMMA AbstainKeeps ==
  ASSUME Inv, TypeInv', Abstain
  PROVE  Inv'
<1>1. /\ pc = "abstain" /\ steps' = steps + 1 /\ UNCHANGED request
      /\ Abstaining("evidence_below_threshold")
      /\ UNCHANGED <<route, query, budget, findings, flags, drafting>>
      /\ Leave("end")
  BY DEF Abstain, Enter
<1>2. Counters /\ Counters'
  BY CountersTyped DEF Inv
<1>3. /\ status' = "abstained" /\ abstention_reason' # NoReason /\ next_action' = NoAction
      /\ abstention_reason' # "repeated_query_route"
  BY <1>1, AbstainingGivesReason DEF Inv, AttemptControl
<1>4. pc' = "end" /\ error' = NoError
  <2>1. Bounded'
    BY <1>1, <1>3, RunIsOpen DEF Bounded, request, budget, findings
  <2>2. QED
    BY <1>1, <2>1, NodeIsLeft
<1>5. StepBudget'
  BY <1>1, <1>3, <1>4 DEF Inv, StepBudget, StepsWhenAbstaining, request, budget, flags
<1>6. VerdictControl'
  BY <1>1, <1>3, <1>4 DEF Inv, VerdictControl, Gathering, budget
<1>7. EvidenceControl'
  BY <1>1, <1>4 DEF Inv, EvidenceControl, LastSearchSucceeded, Gathering, request, query, budget, findings
<1>8. DraftControl'
  BY <1>3, <1>4 DEF DraftControl
<1>9. AttemptControl'
  BY <1>1, <1>3, <1>4 DEF Inv, AttemptControl, budget
<1>10. QED
  BY <1>4, <1>5, <1>6, <1>7, <1>8, <1>9 DEF Inv, NoInternalFailure

\* The validator accepts what is finalised.
LEMMA FinalizeKeeps ==
  ASSUME Inv, TypeInv', Finalize
  PROVE  Inv'
<1>1. /\ pc = "finalize" /\ steps' = steps + 1 /\ UNCHANGED request
      /\ next_action' = NoAction
      /\ UNCHANGED <<abstention_reason, answer, cites, citations,
                     route, query, budget, findings, flags, drafting>>
      /\ Leave("end")
  BY DEF Finalize, Enter
<1>2. abstention_reason = NoReason
  BY <1>1 DEF Inv, VerdictControl
<1>3. status' = "completed"
  BY <1>2 DEF Finalize, Inv, VerdictControl
<1>4. DraftControl'
  BY <1>1, <1>2
     DEF Inv, DraftControl, ApprovedGreeting, CitationsValid, CitationsRequired, CitedIds,
         CitationIds, request, findings, drafting
<1>5. pc' = "end" /\ error' = NoError
  <2>1. ValidState'
    <3>1. /\ answer' = "generated" /\ citation_check' = "passed"
          /\ CitationsValid' /\ citations' = CitedIds(cites)'
          /\ (~ApprovedGreeting)' => route' # "direct"
      BY <1>3, <1>4 DEF DraftControl
    <3>2. generation_attempts' \in 0..MaxGenerations
      BY DEF TypeInv, TypeOK
    <3>3. /\ packed' => Cardinality(evidence') <= req'.top_k_context
          /\ iteration_count' <= req'.max_iterations /\ retrieval_calls' <= req'.max_retrieval_calls
      BY <1>1, RunIsOpen DEF Bounded, request, budget, findings
    <3>4. QED
      BY <1>1, <1>3, <3>1, <3>2, <3>3 DEF ValidState, CitationsValid, CitationsRequired
  <2>2. QED
    BY <1>1, <2>1 DEF Leave
<1>6. StepBudget'
  BY <1>1, <1>2, <1>5 DEF Inv, StepBudget, StepsSoFar, request, budget, flags
<1>7. VerdictControl'
  BY <1>1, <1>2, <1>3, <1>5 DEF Inv, VerdictControl, Gathering, budget
<1>8. EvidenceControl'
  BY <1>1, <1>5 DEF Inv, EvidenceControl, LastSearchSucceeded, Gathering, request, query, budget, findings
<1>9. AttemptControl'
  BY <1>1, <1>5 DEF Inv, AttemptControl, budget
<1>10. QED
  BY <1>4, <1>5, <1>6, <1>7, <1>8, <1>9 DEF Inv, NoInternalFailure

-----------------------------------------------------------------------------
(* Retrieval.                                                               *)

\* A search is recorded behind the attempts there are.
LEMMA AttemptIsRecorded ==
  ASSUME TypeInv, NEW failed \in BOOLEAN,
         attempts' = Append(attempts, [query |-> active_query, route |-> route, failed |-> failed])
  PROVE  /\ attempts' # <<>> /\ Len(attempts') = Len(attempts) + 1 /\ Len(attempts) \in Nat
         /\ DOMAIN attempts = 1..Len(attempts) /\ DOMAIN attempts' = 1..(Len(attempts) + 1)
         /\ \A i \in DOMAIN attempts : attempts'[i] = attempts[i]
         /\ attempts'[Len(attempts) + 1].query = active_query
         /\ attempts'[Len(attempts) + 1].route = route
         /\ attempts'[Len(attempts) + 1].failed = failed
<1> DEFINE attempt == [query |-> active_query, route |-> route, failed |-> failed]
<1>1. attempts \in Seq(Attempt) /\ attempt \in Attempt
  BY DEF TypeInv, TypeOK, Attempt
<1>2. attempt.query = active_query /\ attempt.route = route /\ attempt.failed = failed
  OBVIOUS
<1> HIDE DEF attempt
<1>3. attempts' = Append(attempts, attempt)
  BY DEF attempt
<1>4. /\ attempts' \in Seq(Attempt) /\ Len(attempts') = Len(attempts) + 1
      /\ \A i \in 1..Len(attempts) : attempts'[i] = attempts[i]
      /\ attempts'[Len(attempts) + 1] = attempt
  BY <1>1, <1>3, AppendProperties
<1>5. /\ Len(attempts) \in Nat
      /\ DOMAIN attempts = 1..Len(attempts) /\ DOMAIN attempts' = 1..(Len(attempts) + 1)
  BY <1>1, <1>4, LenProperties
<1>6. attempts' # <<>>
  BY <1>4, <1>5
<1>7. QED
  BY <1>2, <1>4, <1>5, <1>6

\* What has to be said of the attempts after a search.
AttemptsFacts ==
  /\ attempts' = attempts \/ \E failed \in BOOLEAN :
       attempts' = Append(attempts, [query |-> active_query, route |-> route, failed |-> failed])
  /\ \A i, j \in DOMAIN attempts' :
       i # j => \/ attempts'[i].query # attempts'[j].query
                \/ attempts'[i].route # attempts'[j].route
  /\ fallback_pending' => fallback_used'
  /\ fallback_pending' /\ abstention_reason' = NoReason => ~Attempted(active_query, route)'
  /\ abstention_reason' = NoReason => steps' <= 4 + Lap' - Pending'

\* What has to be said of the verdict.
VerdictFacts ==
  /\ status' # "completed" /\ abstention_reason' # "repeated_query_route"
  /\ abstention_reason' = NoReason => UNCHANGED status
  /\ status' = "abstained" => abstention_reason' # NoReason /\ next_action' = NoAction

\* What has to be said of the evidence.
EvidenceFacts ==
  /\ evidence' \subseteq last_evidence_ids'
  /\ packed' => Cardinality(evidence') <= req'.top_k_context
  /\ conflict_score' >= ConflictScore(last_evidence_ids')
  /\ evidence_status' # "sufficient"
  /\ abstention_reason' = NoReason /\ ~fallback_pending' => LastSearchSucceeded'

BudgetFacts ==
  /\ retrieval_calls' <= req'.max_retrieval_calls /\ searches' = retrieval_calls'
  /\ UNCHANGED iteration_count

Searching == /\ pc = "retrieve" /\ steps' = steps + 1 /\ UNCHANGED <<request, query, drafting>>
             /\ RetrieveRefusal = NoReason /\ Search

LEMMA SearchCountsCalls ==
  ASSUME Inv, TypeInv', Searching
  PROVE  BudgetFacts
<1>1. Counters /\ searches = retrieval_calls
  BY CountersTyped DEF Inv, VerdictControl
<1>2. retrieval_calls < req.max_retrieval_calls
  BY <1>1 DEF Searching, RetrieveRefusal, Counters
<1>3. QED
  BY <1>1, <1>2 DEF Searching, Search, CallsAfterSearch, BudgetFacts, request, Counters

LEMMA SearchIsNovel ==
  ASSUME Inv, TypeInv', Searching, NEW failed \in BOOLEAN,
         attempts' = Append(attempts, [query |-> active_query, route |-> route, failed |-> failed])
  PROVE  /\ \A i, j \in DOMAIN attempts' :
              i # j => \/ attempts'[i].query # attempts'[j].query
                       \/ attempts'[i].route # attempts'[j].route
         /\ \A i \in DOMAIN attempts' :
              attempts'[i].route = route \/ \E j \in DOMAIN attempts : attempts'[i] = attempts[j]
<1>1. \A i \in DOMAIN attempts : attempts[i].query # active_query \/ attempts[i].route # route
  BY DEF Inv, AttemptControl, Searching, Attempted
<1>2. \A i, j \in DOMAIN attempts :
        i # j => \/ attempts[i].query # attempts[j].query
                 \/ attempts[i].route # attempts[j].route
  BY DEF Inv, AttemptControl
<1>3. QED
  BY <1>1, <1>2, AttemptIsRecorded

\* A search that fails falls back or abstains.
LEMMA FailedSearch ==
  ASSUME Inv, TypeInv', Searching, SearchFails
  PROVE  AttemptsFacts /\ VerdictFacts /\ EvidenceFacts
<1>0. abstention_reason = NoReason /\ status \notin {"completed", "abstained"} /\ evidence_status # "sufficient"
  BY DEF Inv, VerdictControl, EvidenceControl, Searching, Gathering
<1>1. Counters /\ Counters'
  BY CountersTyped DEF Inv
<1>2. attempts' = Append(attempts, [query |-> active_query, route |-> route, failed |-> TRUE])
      /\ UNCHANGED findings /\ UNCHANGED iteration_count /\ steps' = steps + 1
      /\ steps <= 3 + Lap
  BY <1>0 DEF SearchFails, Searching, Search, Inv, StepBudget, StepsSoFar
<1>3. /\ evidence' \subseteq last_evidence_ids'
      /\ packed' => Cardinality(evidence') <= req'.top_k_context
      /\ conflict_score' >= ConflictScore(last_evidence_ids')
      /\ evidence_status' # "sufficient"
  BY <1>0, <1>2 DEF Inv, EvidenceControl, findings, Searching, request
<1>4. CASE FallBack /\ MayFallBack
  <2>1. PICK r \in FallbackRoutes : route' = r
    BY <1>4 DEF FallBack
  <2>2. r # route /\ \A i \in DOMAIN attempts : attempts[i].route # r
    BY <2>1 DEF FallbackRoutes
  <2>3. ~Attempted(active_query, route)'
    BY <1>2, <2>1, <2>2, SearchIsNovel DEF Attempted
  <2>4. fallback_used' = TRUE /\ fallback_pending' = TRUE /\ fallback_used = FALSE
        /\ UNCHANGED <<status, abstention_reason>>
    BY <1>1, <1>4 DEF FallBack, MayFallBack, Counters
  <2>5. AttemptsFacts
    <3>1. steps' <= 4 + Lap' - Pending'
      BY <1>1, <1>2, <2>4 DEF Lap, Pending, Counters
    <3>2. \A i, j \in DOMAIN attempts' :
            i # j => \/ attempts'[i].query # attempts'[j].query
                     \/ attempts'[i].route # attempts'[j].route
      BY <1>2, SearchIsNovel
    <3>3. QED
      BY <1>2, <2>3, <2>4, <3>1, <3>2 DEF AttemptsFacts
  <2>6. QED
    BY <1>0, <1>3, <2>4, <2>5 DEF VerdictFacts, EvidenceFacts
<1>5. CASE /\ Abstaining("retrieval_unavailable") /\ fallback_pending' = FALSE
           /\ UNCHANGED <<route, fallback_used>>
  <2>1. VerdictFacts /\ abstention_reason' # NoReason
    BY <1>0, <1>5, AbstainingGivesReason DEF VerdictFacts
  <2>2. AttemptsFacts
    BY <1>2, <1>5, <2>1, SearchIsNovel DEF AttemptsFacts
  <2>3. QED
    BY <1>3, <2>1, <2>2 DEF EvidenceFacts
<1>6. QED
  BY <1>4, <1>5 DEF SearchFails

\* A search that returns brings evidence, or a reason to abstain.
LEMMA SuccessfulSearch ==
  ASSUME Inv, TypeInv', Searching, route \in deps, NEW results \in SearchResults, SearchReturns(results)
  PROVE  AttemptsFacts /\ VerdictFacts /\ EvidenceFacts
<1>0. abstention_reason = NoReason /\ status \notin {"completed", "abstained"} /\ evidence_status # "sufficient"
  BY DEF Inv, VerdictControl, EvidenceControl, Searching, Gathering
<1>1. Counters /\ Counters'
  BY CountersTyped DEF Inv
<1>2. attempts' = Append(attempts, [query |-> active_query, route |-> route, failed |-> FALSE])
      /\ fallback_pending' = FALSE /\ UNCHANGED <<route, fallback_used>>
      /\ UNCHANGED <<iteration_count, active_query>> /\ steps' = steps + 1 /\ steps <= 3 + Lap
  BY <1>0 DEF SearchReturns, Searching, Search, Inv, StepBudget, StepsSoFar, query
<1>3. AttemptsFacts
  <2>1. steps' <= 4 + Lap' - Pending'
    BY <1>1, <1>2 DEF Lap, Pending, Counters
  <2>2. QED
    BY <1>2, <2>1, SearchIsNovel DEF AttemptsFacts
<1>4. LastSearchSucceeded'
  <2>1. route \in RetrievalRoutes
    <3>1. route \in Routes \cup {NoRoute} /\ deps \subseteq Collaborators
      BY DEF Inv, TypeInv, TypeOK
    <3>2. QED
      BY <3>1 DEF Collaborators, Routes, RetrievalRoutes, NoRoute
  <2>2. QED
    BY <1>2, <2>1, AttemptIsRecorded DEF LastSearchSucceeded, Inv
<1>5. CASE retrieval_succeeded /\ results = last_evidence_ids
  <2>1. \E reason \in {"conflicting_evidence", "unchanged_evidence"} : Abstaining(reason)
    BY <1>5 DEF SearchReturns
  <2>2. VerdictFacts
    BY <1>0, <2>1, AbstainingGivesReason DEF VerdictFacts
  <2>3. UNCHANGED findings
    BY <1>5 DEF SearchReturns
  <2>4. EvidenceFacts
    BY <1>0, <1>4, <2>3 DEF EvidenceFacts, Inv, EvidenceControl, findings, Searching, request
  <2>5. QED
    BY <1>3, <2>2, <2>4
<1>6. CASE RecordEvidence(results)
  <2>1. VerdictFacts /\ evidence_status' # "sufficient"
    <3>1. CASE Abstaining("conflicting_evidence") /\ evidence_status' = "conflicting"
      BY <1>0, <3>1, AbstainingGivesReason DEF VerdictFacts
    <3>2. CASE UNCHANGED <<evidence_status, verdict>>
      BY <1>0, <3>2 DEF VerdictFacts, verdict
    <3>3. QED
      BY <1>6, <3>1, <3>2 DEF RecordEvidence
  <2>2. evidence' = results /\ last_evidence_ids' = results /\ packed' = FALSE
        /\ conflict_score' = Larger(conflict_score, ConflictScore(results))
    BY <1>6 DEF RecordEvidence
  <2>3. conflict_score' >= ConflictScore(results)
    <3>1. conflict_score \in {0, 75} /\ ConflictScore(results) \in {0, 75}
      BY ScoreType DEF Inv, TypeInv, TypeOK
    <3>2. QED
      BY <2>2, <3>1, LargerIsLarger
  <2>4. EvidenceFacts
    BY <1>4, <2>1, <2>2, <2>3 DEF EvidenceFacts
  <2>5. QED
    BY <1>3, <2>1, <2>4
<1>7. QED
  BY <1>5, <1>6 DEF SearchReturns

LEMMA RetrieveKeeps ==
  ASSUME Inv, TypeInv', Retrieve
  PROVE  Inv'
<1>1. /\ pc = "retrieve" /\ steps' = steps + 1 /\ UNCHANGED <<request, query, drafting>>
      /\ Leave("rerank")
  BY DEF Retrieve, Enter
<1>2. Counters /\ Counters'
  BY CountersTyped DEF Inv
<1>3. /\ generation_attempts = 0 /\ evidence_status # "sufficient" /\ abstention_reason = NoReason
      /\ status \notin {"completed", "abstained"}
  BY <1>1 DEF Inv, VerdictControl, EvidenceControl, Gathering
<1>4. steps' <= 4 + Lap /\ steps' <= 40
  BY <1>1, <1>2, <1>3 DEF Inv, StepBudget, StepsSoFar, Lap, Counters
<1>5. BudgetFacts /\ AttemptsFacts /\ VerdictFacts /\ EvidenceFacts
  <2>1. CASE RetrieveRefusal # NoReason
    <3>1. Abstaining(RetrieveRefusal) /\ UNCHANGED <<route, budget, findings, flags>>
      BY <1>3, <2>1 DEF Retrieve
    <3>2. RetrieveRefusal # "repeated_query_route"
      BY <1>1 DEF RetrieveRefusal, Inv, AttemptControl
    <3>3. abstention_reason' # NoReason /\ VerdictFacts
      BY <1>3, <2>1, <3>1, <3>2, AbstainingGivesReason DEF VerdictFacts
    <3>4. BudgetFacts
      BY <1>1, <3>1 DEF BudgetFacts, budget, request, Inv, StepBudget, VerdictControl
    <3>5. AttemptsFacts
      BY <3>1, <3>3 DEF AttemptsFacts, budget, flags, Inv, AttemptControl, StepBudget
    <3>6. EvidenceFacts
      BY <1>1, <1>3, <3>1, <3>3 DEF EvidenceFacts, Inv, EvidenceControl, findings, request
    <3>7. QED
      BY <3>3, <3>4, <3>5, <3>6
  <2>2. CASE RetrieveRefusal = NoReason
    <3>1. Searching
      BY <1>1, <1>3, <2>2 DEF Searching, Retrieve
    <3>2. Search
      BY <3>1 DEF Searching
    <3>3. SearchFails \/ (route \in deps /\ \E results \in SearchResults : SearchReturns(results))
      BY <3>2, Zenon DEF Search
    <3>4. QED
      BY <3>1, <3>3, SearchCountsCalls, FailedSearch, SuccessfulSearch
  <2>3. QED
    BY <2>1, <2>2
<1>6. pc' = "rerank" /\ error' = NoError
  <2>1. Bounded'
    BY <1>1, <1>2, <1>5, RunIsOpen DEF Bounded, BudgetFacts, VerdictFacts, EvidenceFacts, request
  <2>2. QED
    BY <1>1, <1>2, <1>4, <2>1, NodeIsLeft DEF Counters
<1>7. StepBudget'
  BY <1>1, <1>2, <1>4, <1>5, <1>6
     DEF Inv, StepBudget, StepsSoFar, StepsWhenAbstaining, Counters, BudgetFacts, AttemptsFacts, request
<1>8. VerdictControl'
  BY <1>1, <1>3, <1>5, <1>6 DEF VerdictControl, VerdictFacts, BudgetFacts, drafting
<1>9. EvidenceControl'
  BY <1>5, <1>6 DEF EvidenceControl, EvidenceFacts
<1>10. DraftControl'
  BY <1>5, <1>6 DEF DraftControl, VerdictFacts
<1>11. AttemptControl'
  BY <1>5, <1>6 DEF AttemptControl, AttemptsFacts, VerdictFacts
<1>12. QED
  BY <1>6, <1>7, <1>8, <1>9, <1>10, <1>11 DEF Inv, NoInternalFailure

-----------------------------------------------------------------------------
(* The invariant, and what follows from it.                                 *)

LEMMA InvInit == Init => Inv
<1> SUFFICES ASSUME Init PROVE Inv
  OBVIOUS
<1>1. TypeInv
  BY TypeInit
<1>2. Counters
  BY <1>1, CountersTyped
<1>3. StepBudget
  BY <1>2 DEF Init, StepBudget, StepsSoFar, Counters
<1>4. VerdictControl
  BY DEF Init, VerdictControl
<1>5. EvidenceControl
  <2>1. conflict_score = 0 /\ last_evidence_ids = {}
    BY DEF Init
  <2>2. ConflictScore({}) = 0
    BY WorkflowAssumption DEF ConflictScore
  <2>3. QED
    BY <2>1, <2>2 DEF Init, EvidenceControl
<1>6. DraftControl
  BY DEF Init, DraftControl
<1>7. AttemptControl
  BY DEF Init, AttemptControl
<1>8. QED
  BY <1>1, <1>3, <1>4, <1>5, <1>6, <1>7 DEF Init, Inv, NoInternalFailure

\* A finished run stays as it is.
LEMMA StutteringKeeps ==
  ASSUME Inv, TypeInv', UNCHANGED vars
  PROVE  Inv'
<1>1. UNCHANGED <<req, pc, steps, error, status, next_action, abstention_reason, answer, cites,
                  citations, route, active_query>>
  BY DEF vars, request, machine, verdict, query
<1>2. UNCHANGED <<iteration_count, retrieval_calls, attempts, searches, evidence, packed,
                  evidence_status, conflict_score, last_evidence_ids, fallback_used,
                  fallback_pending, generation_attempts, citation_check>>
  BY DEF vars, budget, findings, flags, drafting
<1>3. StepBudget' /\ VerdictControl'
  BY <1>1, <1>2
     DEF Inv, StepBudget, StepsSoFar, StepsWhenAbstaining, Lap, Pending, VerdictControl
<1>4. EvidenceControl' /\ DraftControl'
  BY <1>1, <1>2
     DEF Inv, EvidenceControl, LastSearchSucceeded, DraftControl, ApprovedGreeting, CitationsValid,
         CitationsRequired, CitedIds, CitationIds
<1>5. AttemptControl'
  BY <1>1, <1>2 DEF Inv, AttemptControl, Attempted
<1>6. QED
  BY <1>1, <1>3, <1>4, <1>5 DEF Inv, NoInternalFailure

LEMMA InvStep == Inv /\ [Next]_vars => Inv'
<1> SUFFICES ASSUME Inv, [Next]_vars PROVE Inv'
  OBVIOUS
<1>1. TypeInv'
  BY TypeStep DEF Inv
<1>2. CASE Next
  BY <1>1, <1>2, InitializeKeeps, ExtractFeaturesKeeps, ControllerDecideKeeps,
     ControllerRaisesKeeps, RetrieveKeeps, RerankKeeps, EvaluateEvidenceKeeps, ReformulateKeeps,
     GenerateKeeps, ValidateCitationsKeeps, AbstainKeeps, FinalizeKeeps, StutteringKeeps
     DEF Next, Node, Done
<1>3. CASE UNCHANGED vars
  BY <1>1, <1>3, StutteringKeeps
<1>4. QED
  BY <1>2, <1>3

LEMMA InvHolds == Spec => []Inv
  BY InvInit, InvStep, PTL DEF Spec

\* Wherever a run is, its evidence, its verdict, its attempts and the nodes it has taken are
\* what the place implies, under every controller (graph/nodes.py, graph/routing.py).
THEOREM InvariantOfRuns == Spec => []InductiveInvariant
<1>1. Inv => InductiveInvariant
  BY DEF Inv, TypeInv, InductiveInvariant
<1>2. QED
  BY InvHolds, <1>1, PTL

\* No run dies inside the graph: the validator of domain/state.py rejects no node's result and
\* the recursion limit of graph/workflow.py is not met, whatever a controller decides.
THEOREM NothingFailsInside == Spec => []NoInternalFailure
<1>1. Inv => NoInternalFailure
  BY DEF Inv
<1>2. QED
  BY InvHolds, <1>1, PTL

\* No pair of query and route is tried twice, so that the guard of retrieve_node against it has
\* nothing to catch (graph/nodes.py).
THEOREM NothingIsTriedTwice == Spec => []AttemptsAreNovel
<1>1. Inv => AttemptsAreNovel
  BY DEF Inv, AttemptControl, AttemptsAreNovel
<1>2. QED
  BY InvHolds, <1>1, PTL

\* A completed factual answer rests on evidence of the last search, judged sufficient and
\* without a blocking conflict, and cites some of it and nothing else (graph/nodes.py).
THEOREM CompletionIsGrounded == Spec => []GroundedCompletion
<1>1. Inv => GroundedCompletion
  <2> SUFFICES ASSUME Inv, Response = "completed", ~ApprovedGreeting
               PROVE  GroundedCompletion
    BY DEF GroundedCompletion
  <2>1. pc = "end" /\ status = "completed"
    BY DEF Response
  <2>2. /\ evidence_status = "sufficient" /\ conflict_score < BlockingConflict
        /\ CitationsValid /\ citations = CitedIds(cites) /\ route # "direct"
    BY <2>1 DEF Inv, DraftControl
  <2>3. LastSearchSucceeded /\ evidence # {} /\ packed /\ evidence \subseteq last_evidence_ids
    BY <2>2 DEF Inv, EvidenceControl
  <2>4. /\ Malformed \notin cites /\ CitedIds(cites) \subseteq CitationIds(evidence)
        /\ CitedIds(cites) # {}
    BY <2>2 DEF CitationsValid, CitationsRequired
  <2>5. CitedIds(cites) = cites
    BY <2>4 DEF CitedIds
  <2>6. QED
    BY <2>2, <2>3, <2>4, <2>5 DEF GroundedCompletion, LastSearchSucceeded
<1>2. QED
  BY InvHolds, <1>1, PTL

\* A contradiction among the results of a search is not forgotten because ranking or packing
\* dropped one of its witnesses (graph/nodes.py, evidence/conflict.py).
THEOREM ConflictsAreRemembered == Spec => []WitnessesSurviveRanking
<1>1. Inv => WitnessesSurviveRanking
  <2> SUFFICES ASSUME Inv, Response = "completed", ~ApprovedGreeting
               PROVE  ConflictScore(last_evidence_ids) = 0
    BY DEF WitnessesSurviveRanking
  <2>1. status = "completed"
    BY DEF Response
  <2>2. conflict_score < BlockingConflict /\ conflict_score >= ConflictScore(last_evidence_ids)
    BY <2>1 DEF Inv, DraftControl, EvidenceControl
  <2>3. conflict_score \in {0, 75} /\ ConflictScore(last_evidence_ids) \in {0, 75}
    BY ScoreType DEF Inv, TypeInv, TypeOK
  <2>4. QED
    BY <2>2, <2>3 DEF BlockingConflict
<1>2. QED
  BY InvHolds, <1>1, PTL

\* Once a reason to abstain is recorded it stays, nothing is searched or drafted any more, and
\* the run does not complete, although nodes abstain by calling another and the graph walks on.
THEOREM AbstentionsAreFinal == Spec => AbstentionIsFinal
<1>1. Inv /\ Inv' /\ [Next]_vars =>
        [abstention_reason # NoReason =>
           /\ abstention_reason' = abstention_reason
           /\ UNCHANGED <<searches, generation_attempts>>
           /\ Response' # "completed"]_vars
  <2> SUFFICES ASSUME Inv, Inv', Next, abstention_reason # NoReason
               PROVE  /\ abstention_reason' = abstention_reason
                      /\ UNCHANGED <<searches, generation_attempts>>
                      /\ Response' # "completed"
    OBVIOUS
  <2>1. pc \notin {"initialize", "retrieve", "reformulate", "generate", "finalize"}
    BY DEF Inv, VerdictControl
  <2>2. /\ abstention_reason' = abstention_reason
        /\ UNCHANGED <<searches, generation_attempts>>
    <3>1. CASE ExtractFeatures
      BY <3>1 DEF ExtractFeatures, verdict, budget, drafting
    <3>2. CASE ControllerDecide
      BY <3>2 DEF ControllerDecide, verdict, budget, drafting
    <3>3. CASE Rerank
      BY <3>3 DEF Rerank, RerankSkipped, verdict, budget, drafting
    <3>4. CASE EvaluateEvidence
      BY <3>4 DEF EvaluateEvidence, EvaluationSkipped, verdict, budget, drafting
    <3>5. CASE ValidateCitations
      BY <3>5 DEF ValidateCitations, verdict, budget
    <3>6. CASE Abstain
      BY <3>6 DEF Abstain, Abstaining, budget, drafting
    <3>7. CASE Done
      BY <3>7 DEF Done, vars, verdict, budget, drafting
    <3>8. ~Initialize /\ ~Retrieve /\ ~Reformulate /\ ~Generate /\ ~Finalize /\ ~ControllerRaises
      BY <2>1 DEF Initialize, Retrieve, Reformulate, Generate, Finalize, ControllerRaises, Enter
    <3>9. QED
      BY <3>1, <3>2, <3>3, <3>4, <3>5, <3>6, <3>7, <3>8 DEF Next, Node
  <2>3. status' # "completed"
    BY <2>2 DEF Inv, VerdictControl
  <2>4. QED
    BY <2>2, <2>3 DEF Response
<1>2. QED
  BY InvHolds, <1>1, PTL DEF Spec, AbstentionIsFinal

-----------------------------------------------------------------------------
(* The promise to the caller.                                               *)

\* A node that does not search, draft or end the run is not seen by the caller; one
\* that ends it gives the response.
LEMMA OtherNodes ==
  ASSUME Inv, Inv', UNCHANGED <<req, searches, generation_attempts>>, pc # "end",
         pc' = "end" => \/ error' # NoError
                        \/ status' \in {"completed", "abstained"}
  PROVE  [Promise!Next]_(Promise!vars)
<1>1. Response = "pending"
  BY DEF Response
<1>2. CASE pc' # "end"
  <2>1. Response' = "pending"
    BY <1>2 DEF Response
  <2>2. QED
    BY <1>1, <2>1 DEF Promise!vars
<1>3. CASE pc' = "end"
  <2>1. Response' \in {"completed", "abstained", "failed"}
    BY <1>3 DEF Response
  <2>2. Response' = "completed" => generation_attempts > 0
    BY DEF Response, Inv, DraftControl
  <2>3. Promise!Finish
    BY <1>1, <2>1, <2>2 DEF Promise!Finish
  <2>4. QED
    BY <2>3 DEF Promise!Next
<1>4. QED
  BY <1>2, <1>3

\* Nothing fails inside, so that a node is left along its edge.
LEMMA EdgesAreFollowed ==
  ASSUME Inv', NEW node, Leave(node)
  PROVE  pc' = node
  BY DEF Leave, Inv, NoInternalFailure

LEMMA SearchesArePromised ==
  ASSUME Inv, Inv', Retrieve
  PROVE  [Promise!Next]_(Promise!vars)
<1>1. /\ pc = "retrieve" /\ UNCHANGED <<req, generation_attempts>> /\ pc' = "rerank"
  BY EdgesAreFollowed DEF Retrieve, Enter, request, drafting
<1>2. generation_attempts = 0 /\ abstention_reason = NoReason /\ searches = retrieval_calls
      /\ retrieval_calls \in 0..3 /\ req.max_retrieval_calls \in 1..3
  BY <1>1, CountersTyped DEF Inv, VerdictControl, Gathering, Counters
<1>3. Response = "pending" /\ Response' = "pending"
  BY <1>1 DEF Response
<1>4. CASE searches' = searches
  BY <1>1, <1>4, OtherNodes
<1>5. CASE searches' # searches
  <2>1. RetrieveRefusal = NoReason /\ Search
    BY <1>2, <1>5 DEF Retrieve, budget
  <2>2. searches' = searches + 1
    BY <1>2, <1>5, <2>1 DEF Search
  <2>3. searches < req.max_retrieval_calls
    BY <1>2, <2>1 DEF RetrieveRefusal
  <2>4. Promise!Search
    BY <1>1, <1>2, <1>3, <2>2, <2>3 DEF Promise!Search
  <2>5. QED
    BY <2>4 DEF Promise!Next
<1>6. QED
  BY <1>4, <1>5

LEMMA DraftsArePromised ==
  ASSUME Inv, Inv', Generate
  PROVE  [Promise!Next]_(Promise!vars)
<1>1. /\ pc = "generate" /\ UNCHANGED <<req, searches>> /\ pc' = "validate_citations"
  BY EdgesAreFollowed DEF Generate, Enter, request, budget
<1>2. abstention_reason = NoReason /\ generation_attempts \in 0..2
  BY <1>1, CountersTyped DEF Inv, VerdictControl, Counters
<1>3. Response = "pending" /\ Response' = "pending"
  BY <1>1 DEF Response
<1>4. CASE generation_attempts' = generation_attempts
  BY <1>1, <1>4, OtherNodes
<1>5. CASE generation_attempts' # generation_attempts
  <2>1. GenerateRefusal = NoReason /\ Drafts
    BY <1>2, <1>5 DEF Generate
  <2>2. generation_attempts < MaxGenerations /\ generation_attempts' = generation_attempts + 1
    BY <1>2, <2>1 DEF GenerateRefusal, Drafts, MaxGenerations
  <2>3. Promise!Draft
    BY <1>1, <1>3, <2>2 DEF Promise!Draft
  <2>4. QED
    BY <2>3 DEF Promise!Next
<1>6. QED
  BY <1>4, <1>5

\* The graph keeps the promise of BoundedRun to the caller of QueryService.execute_query: no
\* more searches than allowed, none after a draft, at most two drafts, and one response.
THEOREM RunsAreBounded == Spec => KeepsPromise
<1>1. Init => Promise!Init
  <2> SUFFICES ASSUME Init PROVE Promise!Init
    OBVIOUS
  <2>1. req.max_retrieval_calls \in 1..3
    BY TypeInit, CountersTyped DEF Counters
  <2>2. Response = "pending"
    BY DEF Init, Response
  <2>3. QED
    BY <2>1, <2>2 DEF Init, Promise!Init
<1>2. Inv /\ Inv' /\ [Next]_vars => [Promise!Next]_(Promise!vars)
  <2> SUFFICES ASSUME Inv, Inv', [Next]_vars PROVE [Promise!Next]_(Promise!vars)
    OBVIOUS
  <2>1. CASE Initialize
    <3>1. pc' = "extract_features" /\ pc = "initialize" /\ UNCHANGED <<req, searches, generation_attempts>>
      BY <2>1, EdgesAreFollowed DEF Initialize, Enter, request, budget, drafting
    <3>2. QED
      BY <3>1, OtherNodes
  <2>2. CASE ExtractFeatures
    <3>1. pc' = "controller_decide" /\ pc = "extract_features"
          /\ UNCHANGED <<req, searches, generation_attempts>>
      BY <2>2, EdgesAreFollowed DEF ExtractFeatures, Enter, request, budget, drafting
    <3>2. QED
      BY <3>1, OtherNodes
  <2>3. CASE ControllerDecide
    <3>1. pc' = AfterDecision' /\ pc = "controller_decide"
          /\ UNCHANGED <<req, searches, generation_attempts>>
      BY <2>3, EdgesAreFollowed DEF ControllerDecide, Enter, request, budget, drafting
    <3>2. QED
      BY <3>1, DecisionsLead, OtherNodes
  <2>4. CASE ControllerRaises
    <3>1. error' # NoError /\ pc = "controller_decide"
          /\ UNCHANGED <<req, searches, generation_attempts>>
      BY <2>4 DEF ControllerRaises, Enter, request, budget, drafting
    <3>2. QED
      BY <3>1, OtherNodes
  <2>5. CASE Retrieve
    BY <2>5, SearchesArePromised
  <2>6. CASE Rerank
    <3>1. pc' = "evaluate_evidence" /\ pc = "rerank" /\ UNCHANGED <<req, searches, generation_attempts>>
      BY <2>6, EdgesAreFollowed DEF Rerank, Enter, request, budget, drafting
    <3>2. QED
      BY <3>1, OtherNodes
  <2>7. CASE EvaluateEvidence
    <3>1. pc' = AfterEvaluation' /\ pc = "evaluate_evidence"
          /\ UNCHANGED <<req, searches, generation_attempts>>
      BY <2>7, EdgesAreFollowed DEF EvaluateEvidence, Enter, request, budget, drafting
    <3>2. QED
      BY <3>1, EvaluationsLead, OtherNodes
  <2>8. CASE Reformulate
    <3>1. pc' = "extract_features" /\ pc = "reformulate"
          /\ UNCHANGED <<req, searches, generation_attempts>>
      BY <2>8, EdgesAreFollowed DEF Reformulate, Enter, request, drafting
    <3>2. QED
      BY <3>1, OtherNodes
  <2>9. CASE Generate
    BY <2>9, DraftsArePromised
  <2>10. CASE ValidateCitations
    <3>1. pc' = AfterValidation' /\ pc = "validate_citations"
          /\ UNCHANGED <<req, searches, generation_attempts>>
      BY <2>10, EdgesAreFollowed DEF ValidateCitations, Enter, request, budget
    <3>2. QED
      BY <3>1, ValidationsLead, OtherNodes
  <2>11. CASE Abstain
    <3>1. status' = "abstained" /\ pc = "abstain" /\ UNCHANGED <<req, searches, generation_attempts>>
      BY <2>11 DEF Abstain, Abstaining, Enter, request, budget, drafting
    <3>2. QED
      BY <3>1, OtherNodes
  <2>12. CASE Finalize
    <3>1. status' \in {"completed", "abstained"} /\ pc = "finalize"
          /\ UNCHANGED <<req, searches, generation_attempts>>
      BY <2>12 DEF Finalize, Enter, request, budget, drafting
    <3>2. QED
      BY <3>1, OtherNodes
  <2>13. CASE UNCHANGED vars
    BY <2>13 DEF vars, request, machine, verdict, budget, drafting, Response, Promise!vars
  <2>14. QED
    BY <2>1, <2>2, <2>3, <2>4, <2>5, <2>6, <2>7, <2>8, <2>9, <2>10, <2>11, <2>12, <2>13
       DEF Next, Node, Done
<1>3. QED
  BY InvHolds, <1>1, <1>2, PTL DEF Spec, KeepsPromise, Promise!Spec

-----------------------------------------------------------------------------
(* One fallback a run.                                                      *)

Tried == {attempts[i].query : i \in DOMAIN attempts}
Spent == IF fallback_used /\ ~fallback_pending THEN 1 ELSE 0

\* Only a search by the fallback route is for a query tried before, and it comes with the
\* flag of the fallback taken back.
FallbackInv ==
  /\ IsFiniteSet(Tried) /\ Len(attempts) <= Cardinality(Tried) + Spent
  /\ pc = "retrieve" /\ ~fallback_pending => active_query \notin Tried

\* A search adds one attempt and its query.
LEMMA SearchTries ==
  ASSUME TypeInv, FallbackInv, NEW failed \in BOOLEAN,
         attempts' = Append(attempts, [query |-> active_query, route |-> route, failed |-> failed])
  PROVE  /\ IsFiniteSet(Tried') /\ Len(attempts') = Len(attempts) + 1
         /\ Len(attempts) \in Nat /\ Cardinality(Tried) \in Nat /\ Cardinality(Tried') \in Nat
         /\ Cardinality(Tried') >= Cardinality(Tried)
         /\ active_query \notin Tried => Cardinality(Tried') = Cardinality(Tried) + 1
<1>1. Tried' = Tried \cup {active_query}
  BY AttemptIsRecorded DEF Tried
<1>2. IsFiniteSet(Tried) /\ Cardinality(Tried) \in Nat
  BY FS_CardinalityType DEF FallbackInv
<1>3. /\ IsFiniteSet(Tried')
      /\ Cardinality(Tried') = IF active_query \in Tried THEN Cardinality(Tried)
                               ELSE Cardinality(Tried) + 1
  BY <1>1, <1>2, FS_AddElement
<1>4. QED
  BY <1>2, <1>3, AttemptIsRecorded

LEMMA FallbackStep == Inv /\ Inv' /\ FallbackInv /\ [Next]_vars => FallbackInv'
<1> SUFFICES ASSUME Inv, Inv', FallbackInv, [Next]_vars PROVE FallbackInv'
  OBVIOUS
<1>0. TypeInv /\ fallback_pending \in BOOLEAN /\ fallback_used \in BOOLEAN
      /\ fallback_pending' \in BOOLEAN /\ fallback_used' \in BOOLEAN
  BY DEF Inv, TypeInv, TypeOK
<1>1. ASSUME UNCHANGED <<attempts, fallback_used, fallback_pending>>,
             pc' = "retrieve" => fallback_pending \/ (pc = "retrieve" /\ UNCHANGED active_query)
      PROVE  FallbackInv'
  BY <1>1 DEF FallbackInv, Tried, Spent
<1>2. CASE Retrieve
  <2>1. pc = "retrieve" /\ pc' = "rerank" /\ abstention_reason = NoReason
    BY <1>2, EdgesAreFollowed DEF Retrieve, Enter, Inv, VerdictControl
  <2>2. CASE RetrieveRefusal # NoReason
    BY <1>1, <1>2, <2>1, <2>2 DEF Retrieve, budget, flags
  <2>3. CASE RetrieveRefusal = NoReason
    <3>1. Search
      BY <1>2, <2>1, <2>3 DEF Retrieve
    <3>2. fallback_pending => fallback_used
      BY DEF Inv, StepBudget
    <3>3. ASSUME NEW failed \in BOOLEAN,
                 attempts' = Append(attempts, [query |-> active_query, route |-> route, failed |-> failed]),
                 \/ ~fallback_used /\ fallback_used' /\ fallback_pending'
                 \/ UNCHANGED fallback_used /\ ~fallback_pending'
          PROVE  FallbackInv'
      <4>1. /\ IsFiniteSet(Tried') /\ Len(attempts') = Len(attempts) + 1
            /\ Len(attempts) \in Nat /\ Cardinality(Tried) \in Nat /\ Cardinality(Tried') \in Nat
            /\ Cardinality(Tried') >= Cardinality(Tried)
            /\ active_query \notin Tried => Cardinality(Tried') = Cardinality(Tried) + 1
        BY <1>0, <3>3, SearchTries
      <4>2. Len(attempts) <= Cardinality(Tried) + Spent
            /\ (~fallback_pending => active_query \notin Tried)
        BY <2>1 DEF FallbackInv
      <4>3. Len(attempts') <= Cardinality(Tried') + Spent'
        <5>1. CASE fallback_pending
          BY <1>0, <3>2, <3>3, <4>1, <4>2, <5>1 DEF Spent
        <5>2. CASE ~fallback_pending
          BY <1>0, <3>3, <4>1, <4>2, <5>2 DEF Spent
        <5>3. QED
          BY <5>1, <5>2
      <4>4. QED
        BY <2>1, <4>1, <4>3 DEF FallbackInv
    <3>4. CASE SearchFails
      <4>1. attempts' = Append(attempts, [query |-> active_query, route |-> route, failed |-> TRUE])
        BY <3>4 DEF SearchFails
      <4>2. \/ ~fallback_used /\ fallback_used' = TRUE /\ fallback_pending' = TRUE
            \/ UNCHANGED fallback_used /\ fallback_pending' = FALSE
        BY <3>4 DEF SearchFails, MayFallBack, FallBack
      <4>3. QED
        BY <3>3, <4>1, <4>2
    <3>5. ASSUME NEW results \in SearchResults, SearchReturns(results) PROVE FallbackInv'
      <4>1. /\ attempts' = Append(attempts, [query |-> active_query, route |-> route, failed |-> FALSE])
            /\ UNCHANGED fallback_used /\ fallback_pending' = FALSE
        BY <3>5 DEF SearchReturns
      <4>2. QED
        BY <3>3, <4>1
    <3>6. SearchFails \/ (\E results \in SearchResults : SearchReturns(results))
      BY <3>1, Zenon DEF Search
    <3>7. QED
      BY <3>4, <3>5, <3>6
  <2>4. QED
    BY <2>2, <2>3
<1>3. CASE ControllerDecide
  <2>1. /\ pc = "controller_decide" /\ pc' = AfterDecision'
        /\ UNCHANGED <<attempts, active_query, fallback_used, fallback_pending>>
    BY <1>3, EdgesAreFollowed DEF ControllerDecide, Enter, query, budget, flags
  <2>2. ASSUME pc' = "retrieve" PROVE active_query \notin Tried
    <3>1. abstention_reason = NoReason
      BY <1>0, <1>3, <2>1, <2>2, DecisionsLead, DecisionReasons DEF verdict
    <3>2. QED
      BY <2>1, <3>1 DEF Inv, AttemptControl, Tried
  <2>3. QED
    BY <2>1, <2>2 DEF FallbackInv, Tried, Spent
<1>4. CASE EvaluateEvidence
  <2>1. /\ pc' = AfterEvaluation' /\ UNCHANGED <<attempts, fallback_used, fallback_pending>>
    BY <1>4, EdgesAreFollowed DEF EvaluateEvidence, budget, flags
  <2>2. QED
    BY <1>1, <2>1, EvaluationsLead
<1>5. CASE Initialize \/ ExtractFeatures \/ ControllerRaises \/ Rerank
  <2>1. pc' # "retrieve"
    BY <1>5, EdgesAreFollowed DEF Initialize, ExtractFeatures, ControllerRaises, Rerank
  <2>2. UNCHANGED <<attempts, fallback_used, fallback_pending>>
    BY <1>5 DEF Initialize, ExtractFeatures, ControllerRaises, Rerank, budget, flags
  <2>3. QED
    BY <1>1, <2>1, <2>2
<1>6. CASE Reformulate \/ Generate \/ Abstain \/ Finalize
  <2>1. pc' # "retrieve"
    BY <1>6, EdgesAreFollowed DEF Reformulate, Generate, Abstain, Finalize
  <2>2. UNCHANGED <<attempts, fallback_used, fallback_pending>>
    BY <1>6 DEF Reformulate, Generate, Abstain, Finalize, budget, flags
  <2>3. QED
    BY <1>1, <2>1, <2>2
<1>7. CASE ValidateCitations
  <2>1. pc' = AfterValidation' /\ UNCHANGED <<attempts, fallback_used, fallback_pending>>
    BY <1>7, EdgesAreFollowed DEF ValidateCitations, budget, flags
  <2>2. QED
    BY <1>1, <2>1, ValidationsLead
<1>8. CASE UNCHANGED vars
  BY <1>1, <1>8 DEF vars, machine, query, budget, flags
<1>9. QED
  BY <1>2, <1>3, <1>4, <1>5, <1>6, <1>7, <1>8 DEF Next, Node, Done

\* Over all its refinements together a run falls back to another route once, so that at most
\* one query is ever tried on two routes (graph/nodes.py retrieve_node).
THEOREM FallbackHappensOnce == Spec => []OneFallbackPerRun
<1>1. Init => FallbackInv
  <2> SUFFICES ASSUME Init PROVE FallbackInv
    OBVIOUS
  <2>1. attempts = <<>> /\ pc = "initialize"
    BY DEF Init
  <2>2. Tried = {} /\ Len(attempts) = 0
    BY <2>1 DEF Tried
  <2>3. Spent \in {0, 1}
    BY DEF Spent
  <2>4. IsFiniteSet(Tried) /\ Cardinality(Tried) = 0
    BY <2>2, FS_EmptySet
  <2>5. QED
    BY <2>1, <2>2, <2>3, <2>4 DEF FallbackInv
<1>2. Inv /\ FallbackInv => OneFallbackPerRun
  <2> SUFFICES ASSUME Inv, FallbackInv PROVE OneFallbackPerRun
    OBVIOUS
  <2>1. attempts \in Seq(Attempt)
    BY DEF Inv, TypeInv, TypeOK
  <2>2. Len(attempts) \in Nat /\ Cardinality(Tried) \in Nat
    BY <2>1, LenProperties, FS_CardinalityType DEF FallbackInv
  <2>3. Len(attempts) <= Cardinality(Tried) + 1
    BY <2>2 DEF FallbackInv, Spent
  <2>4. QED
    BY <2>3 DEF OneFallbackPerRun, Tried
<1>3. QED
  BY InvHolds, FallbackStep, <1>1, <1>2, PTL DEF Spec
=============================================================================
