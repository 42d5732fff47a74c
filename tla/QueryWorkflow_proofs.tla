------------------------ MODULE QueryWorkflow_proofs ------------------------
(***************************************************************************)
(* Proofs about QueryWorkflow, for every set of chunks, queries, requests   *)
(* and deployments and for each of the three kinds of controller.           *)
(***************************************************************************)
EXTENDS QueryWorkflowInvariant, FiniteSetTheorems, SequenceTheorems, TLAPS

USE DEF NoReason, NoError

-----------------------------------------------------------------------------
(* Lemmas about the operators the workflow is built from.                   *)

\* What a controller needs of the view it is given.
ViewType ==
  [retrieval_calls : Int, max_retrieval_calls : Int,
   iteration_count : Int, max_iterations : Int,
   evidence_status : EvidenceStatuses, conflict_score : Int,
   route : Routes \cup {NoRoute}, tried_routes : SUBSET (Routes \cup {NoRoute}),
   refinement_ready : BOOLEAN, require_citations : BOOLEAN, kind : QueryKinds]

DecisionType ==
  [action : Actions, route : Routes \cup {NoRoute}, reason : ControllerReasons \cup {NoReason}]

\* RetrieveAction maps the routes that have a retriever to actions.
LEMMA RetrieveActionType ==
  ASSUME NEW r \in RetrievalRoutes
  PROVE  RetrieveAction(r) \in Actions \ {"stop", "direct_answer"}
  BY DEF RetrievalRoutes, RetrieveAction, Actions

\* A decision is well formed when its three parts are.
LEMMA DecisionIntro ==
  ASSUME NEW a \in Actions, NEW r \in Routes \cup {NoRoute},
         NEW why \in ControllerReasons \cup {NoReason}
  PROVE  Decision(a, r, why) \in DecisionType
  BY DEF Decision, DecisionType

\* The heuristic decides something for every view.
LEMMA HeuristicDecisionType ==
  ASSUME NEW s \in ViewType
  PROVE  HeuristicDecision(s) \in DecisionType
<1>1. /\ \A r \in RetrievalRoutes : Decision(RetrieveAction(r), r, NoReason) \in DecisionType
      /\ Decision("stop", NoRoute, NoReason) \in DecisionType
      /\ Decision("reformulate", NoRoute, NoReason) \in DecisionType
      /\ \A why \in ControllerReasons : Decision("abstain", NoRoute, why) \in DecisionType
  BY RetrieveActionType, DecisionIntro DEF Actions, Routes
<1>2. InitialDecision(s) \in DecisionType
  <2>1. Decision("direct_answer", "direct", NoReason) \in DecisionType
    BY DecisionIntro DEF Actions, Routes
  <2>2. /\ Decision("retrieve_dense", "dense", NoReason) \in DecisionType
        /\ Decision("retrieve_hybrid", "hybrid", NoReason) \in DecisionType
        /\ Decision("retrieve_sparse", "sparse", NoReason) \in DecisionType
    BY DecisionIntro DEF Actions, Routes, RetrievalRoutes
  <2>3. s.kind \in QueryKinds /\ s.require_citations \in BOOLEAN
    BY DEF ViewType
  <2>4. QED
    BY <2>1, <2>2, <2>3 DEF InitialDecision, QueryKinds
<1>3. UntriedRoute(s) \in RetrievalRoutes \cup {NoRoute}
  BY DEF UntriedRoute, RetrievalRoutes, NoRoute
<1>4. ConflictDecision(s) \in DecisionType
  BY <1>1, <1>3 DEF ConflictDecision, ControllerReasons
<1>5. QED
  BY <1>1, <1>2, <1>4 DEF HeuristicDecision, ControllerReasons

\* Every policy returns decisions, whatever the view.
LEMMA DecisionsType ==
  ASSUME NEW s \in ViewType, controller \in Controllers, NEW d \in DecisionsOf(controller, s)
  PROVE  d \in DecisionType
<1>1. CASE controller = "heuristic"
  BY <1>1, HeuristicDecisionType DEF DecisionsOf
<1>2. CASE controller = "learned"
  <2>1. ASSUME NEW label \in LearnedLabels
        PROVE  Decision(label, LabelRoute(label),
                        IF label = "abstain" THEN "learned_model_prediction" ELSE NoReason)
                 \in DecisionType
    <3>1. LabelRoute(label) \in Routes \cup {NoRoute}
      BY DEF LabelRoute, Routes, RetrievalRoutes, NoRoute
    <3>2. label \in Actions
      BY DEF LearnedLabels
    <3>3. QED
      BY <3>1, <3>2, DecisionIntro DEF ControllerReasons
  <2>2. /\ Decision("stop", NoRoute, NoReason) \in DecisionType
        /\ Decision("abstain", NoRoute, "learned_guardrail_budget_exhausted_abstain")
             \in DecisionType
    BY DecisionIntro DEF Actions, ControllerReasons
  <2>3. d \in LearnedDecisions(s)
    BY <1>2 DEF DecisionsOf
  <2>4. QED
    BY <2>1, <2>2, <2>3, HeuristicDecisionType DEF LearnedDecisions
<1>3. CASE controller = "custom"
  BY <1>3 DEF DecisionsOf, CustomDecisions, DecisionType, ControllerReasons
<1>4. QED
  BY <1>1, <1>2, <1>3 DEF Controllers

\* What a ranker or a packer keeps of a search result is again a result.
LEMMA SubsetIsResult ==
  ASSUME NEW r \in SearchResults, NEW kept \in SUBSET r
  PROVE  /\ kept \in SearchResults
         /\ Cardinality(kept) <= Cardinality(r)
<1>1. IsFiniteSet(r) /\ Cardinality(r) \in Nat
  BY FS_CardinalityType DEF SearchResults
<1>2. IsFiniteSet(kept) /\ Cardinality(kept) \in Nat /\ Cardinality(kept) <= Cardinality(r)
  BY <1>1, FS_Subset, FS_CardinalityType
<1>3. QED
  BY <1>1, <1>2 DEF SearchResults, MaxCandidates

-----------------------------------------------------------------------------
(* Type correctness.                                                        *)

\* TypeOK is inductive once it is known that a node still to be executed has a
\* step of the recursion limit left.
TypeInv == TypeOK /\ (pc # "end" => steps < RecursionLimit)

\* The part of TypeOK about LangGraph and the service.
MachineType ==
  /\ req \in RequestType /\ deps \subseteq Collaborators /\ controller \in Controllers
  /\ pc \in Nodes \cup {"end"} /\ steps \in 0..RecursionLimit
  /\ error \in {NoError, "invalid_state", "recursion_guard", "workflow_failed"}
  /\ pc # "end" => steps < RecursionLimit

\* The part of TypeOK about the verdict.
VerdictType ==
  /\ status \in {"created", "running", "completed", "abstained"}
  /\ next_action \in Actions \cup {NoAction}
  /\ abstention_reason \in WorkflowReasons \cup ControllerReasons \cup {NoReason}
  /\ answer \in {"none", "generated", "canned"}
  /\ cites \in Answers /\ citations \in Answers

\* The part of TypeOK about the evidence.
FindingsType ==
  /\ evidence \in SearchResults /\ last_evidence_ids \in SearchResults
  /\ packed \in BOOLEAN /\ retrieval_succeeded \in BOOLEAN
  /\ evidence_status \in EvidenceStatuses /\ conflict_score \in {0, 75}

\* The part of TypeOK about what a run has spent.
SpendingType ==
  /\ route \in Routes \cup {NoRoute}
  /\ active_query \in Queries /\ kind \in QueryKinds
  /\ iteration_count \in 0..3 /\ retrieval_calls \in 0..3 /\ searches \in Nat
  /\ attempts \in Seq(Attempt)
  /\ fallback_used \in BOOLEAN /\ fallback_pending \in BOOLEAN
  /\ refinement_ready \in BOOLEAN
  /\ generation_attempts \in 0..MaxGenerations
  /\ citation_check \in {"unset", "passed", "failed"}

\* The parts make up the whole.
LEMMA TypeParts ==
  /\ TypeInv <=> MachineType /\ VerdictType /\ FindingsType /\ SpendingType
  /\ TypeInv' <=> MachineType' /\ VerdictType' /\ FindingsType' /\ SpendingType'
  BY DEF TypeInv, TypeOK, MachineType, VerdictType, FindingsType, SpendingType

\* A node that is entered takes one of the steps that are left.
LEMMA EnterCounts ==
  ASSUME MachineType, NEW node \in Nodes, Enter(node)
  PROVE  /\ steps' = steps + 1 /\ steps \in Nat /\ steps < RecursionLimit
         /\ steps' \in 0..RecursionLimit
<1>1. node # "end"
  BY DEF Nodes
<1>2. pc # "end" /\ steps' = steps + 1
  BY <1>1 DEF Enter
<1>3. QED
  BY <1>2 DEF MachineType, RecursionLimit

\* Entering one node and leaving for another keeps the machine typed.
LEMMA MachineStep ==
  ASSUME MachineType, NEW node \in Nodes, NEW next \in Nodes \cup {"end"},
         Enter(node), Leave(next)
  PROVE  MachineType'
<1>1. req' \in RequestType /\ deps' \subseteq Collaborators /\ controller' \in Controllers
  BY DEF MachineType, Enter, request
<1>2. steps' \in 0..RecursionLimit
  BY EnterCounts
<1>3. error' \in {NoError, "invalid_state", "recursion_guard"}
  BY DEF Leave
<1>4. pc' \in Nodes \cup {"end"}
  BY DEF Leave
<1>5. pc' # "end" => steps' < RecursionLimit
  <2>1. pc' # "end" => error' = NoError /\ next # "end"
    BY DEF Leave
  <2>2. error' = NoError /\ next # "end" => ~(steps' >= RecursionLimit)
    BY DEF Leave
  <2>3. steps' \in Nat /\ RecursionLimit \in Nat
    BY <1>2 DEF RecursionLimit
  <2>4. QED
    BY <2>1, <2>2, <2>3
<1>6. QED
  BY <1>1, <1>2, <1>3, <1>4, <1>5 DEF MachineType

\* The bounds a request puts on a run.
LEMMA RequestBounds ==
  ASSUME req \in RequestType
  PROVE  /\ req.max_iterations \in 1..3 /\ req.max_retrieval_calls \in 1..3
         /\ req.top_k_context \in 1..6 /\ req.conflict_threshold \in 0..100
         /\ req.query \in Queries /\ req.kind \in QueryKinds
         /\ req.require_citations \in BOOLEAN
  BY DEF RequestType

\* Abstaining for one of the workflow's own reasons keeps the verdict typed.
LEMMA AbstainingType ==
  ASSUME VerdictType, NEW reason \in WorkflowReasons, Abstaining(reason)
  PROVE  VerdictType'
  BY DEF VerdictType, Abstaining, Answers

\* Detection gives one of two scores, and the larger of two scores is one of them.
LEMMA ScoreType ==
  /\ \A r : ConflictScore(r) \in {0, 75}
  /\ \A a, b \in {0, 75} : Larger(a, b) \in {0, 75}
  BY DEF ConflictScore, Larger

\* Each conditional edge leads to a node.
LEMMA EdgesLeadToNodes ==
  /\ AfterDecision' \in Nodes /\ AfterEvaluation' \in Nodes /\ AfterValidation' \in Nodes
  BY DEF AfterDecision, AfterEvaluation, AfterValidation, Nodes

\* What a controller is shown is typed.
LEMMA ViewTyped ==
  ASSUME req \in RequestType, VerdictType, FindingsType, SpendingType
  PROVE  View \in ViewType
<1>1. \A i \in DOMAIN attempts : attempts[i].route \in Routes \cup {NoRoute}
  <2>1. \A i \in DOMAIN attempts : attempts[i] \in Attempt
    BY ElementOfSeq DEF SpendingType
  <2>2. QED
    BY <2>1 DEF Attempt
<1>2. \A r \in {attempts[i].route : i \in DOMAIN attempts} : r \in Routes \cup {NoRoute}
  BY <1>1, Zenon
<1>3. QED
  BY <1>2, RequestBounds DEF View, ViewType, FindingsType, SpendingType

\* The refusals of the nodes are reasons, or none.
LEMMA RefusalsType ==
  /\ RetrieveRefusal \in WorkflowReasons \cup {NoReason}
  /\ ReformulateRefusal \in WorkflowReasons \cup {NoReason}
  /\ GenerateRefusal \in WorkflowReasons \cup {NoReason}
  BY DEF RetrieveRefusal, ReformulateRefusal, GenerateRefusal, WorkflowReasons

\* A search that was made, whatever came of it, keeps the state typed.
LEMMA SearchType ==
  ASSUME req \in RequestType, VerdictType, FindingsType, SpendingType,
         RetrieveRefusal = NoReason, Search, UNCHANGED <<query, drafting>>
  PROVE  VerdictType' /\ FindingsType' /\ SpendingType'
<1>1. retrieval_calls' \in 0..3 /\ searches' \in Nat /\ iteration_count' \in 0..3
  <2>1. retrieval_calls < req.max_retrieval_calls
    BY RequestBounds DEF RetrieveRefusal, SpendingType
  <2>2. QED
    BY <2>1, RequestBounds DEF Search, CallsAfterSearch, SpendingType
<1>2. /\ UNCHANGED <<active_query, kind, generation_attempts, citation_check>>
      /\ refinement_ready' = FALSE
  BY DEF Search, query, drafting
<1>3. \A failed \in BOOLEAN :
        Append(attempts, [query |-> active_query, route |-> route, failed |-> failed])
          \in Seq(Attempt)
  <2>1. \A failed \in BOOLEAN :
          [query |-> active_query, route |-> route, failed |-> failed] \in Attempt
    BY DEF SpendingType, Attempt
  <2>2. attempts \in Seq(Attempt)
    BY DEF SpendingType
  <2>3. QED
    BY <2>1, <2>2, AppendProperties
<1>4. CASE SearchFails
  <2>1. attempts' \in Seq(Attempt)
    BY <1>3, <1>4 DEF SearchFails
  <2>2. FindingsType'
    BY <1>4 DEF SearchFails, FindingsType, findings
  <2>3. CASE FallBack
    <3>1. /\ route' \in RetrievalRoutes /\ next_action' \in Actions
          /\ fallback_used' \in BOOLEAN /\ fallback_pending' \in BOOLEAN
      BY <2>3, RetrieveActionType DEF FallBack, FallbackRoutes
    <3>2. VerdictType'
      BY <2>3, <3>1 DEF FallBack, VerdictType, Answers
    <3>3. SpendingType'
      BY <3>1, <1>1, <1>2, <2>1 DEF SpendingType, Routes
    <3>4. QED
      BY <2>2, <3>2, <3>3
  <2>4. CASE ~FallBack
    <3>1. /\ Abstaining("retrieval_unavailable")
          /\ fallback_pending' = FALSE
          /\ UNCHANGED <<route, fallback_used>>
      BY <1>4, <2>4 DEF SearchFails
    <3>2. VerdictType'
      BY <3>1, AbstainingType DEF WorkflowReasons
    <3>3. SpendingType'
      BY <3>1, <1>1, <1>2, <2>1 DEF SpendingType
    <3>4. QED
      BY <2>2, <3>2, <3>3
  <2>5. QED
    BY <2>3, <2>4
<1>5. ASSUME NEW results \in SearchResults, SearchReturns(results)
      PROVE  VerdictType' /\ FindingsType' /\ SpendingType'
  <2>1. SpendingType'
    <3>1. attempts' \in Seq(Attempt)
      BY <1>3, <1>5 DEF SearchReturns
    <3>2. fallback_pending' = FALSE /\ UNCHANGED <<route, fallback_used>>
      BY <1>5 DEF SearchReturns
    <3>3. QED
      BY <3>1, <3>2, <1>1, <1>2 DEF SpendingType
  <2>2. CASE retrieval_succeeded /\ results = last_evidence_ids
    <3>1. \E reason \in WorkflowReasons : Abstaining(reason)
      BY <1>5, <2>2 DEF SearchReturns, WorkflowReasons
    <3>2. UNCHANGED findings
      BY <1>5, <2>2 DEF SearchReturns
    <3>3. QED
      BY <2>1, <3>1, <3>2, AbstainingType DEF FindingsType, findings
  <2>3. CASE RecordEvidence(results)
    <3>1. conflict_score' \in {0, 75}
      BY <2>3, ScoreType DEF RecordEvidence, FindingsType
    <3>2. FindingsType'
      BY <2>3, <3>1 DEF RecordEvidence, FindingsType, EvidenceStatuses
    <3>3. VerdictType'
      <4>1. CASE Abstaining("conflicting_evidence")
        BY <4>1, AbstainingType DEF WorkflowReasons
      <4>2. CASE UNCHANGED verdict
        BY <4>2 DEF VerdictType, verdict, Answers
      <4>3. QED
        BY <2>3, <4>1, <4>2 DEF RecordEvidence
    <3>4. QED
      BY <2>1, <3>2, <3>3
  <2>4. QED
    BY <1>5, <2>2, <2>3 DEF SearchReturns
<1>6. QED
  BY <1>4, <1>5 DEF Search

\* A run starts typed.
LEMMA TypeInit == Init => TypeInv
<1> SUFFICES ASSUME Init PROVE TypeInv
  OBVIOUS
<1>0. req \in RequestType /\ deps \subseteq Collaborators /\ controller \in Controllers
  BY WorkflowAssumption DEF Init, ConfigurationType
<1>1. MachineType
  BY <1>0 DEF Init, MachineType, Nodes, RecursionLimit
<1>2. VerdictType
  BY DEF Init, VerdictType, Answers, NoAction
<1>3. FindingsType
  <2>1. {} \in SearchResults
    BY FS_EmptySet DEF SearchResults, MaxCandidates
  <2>2. QED
    BY <2>1 DEF Init, FindingsType, EvidenceStatuses
<1>4. SpendingType
  <2>1. attempts \in Seq(Attempt)
    BY DEF Init
  <2>2. active_query \in Queries /\ kind \in QueryKinds
    BY <1>0, RequestBounds DEF Init
  <2>3. /\ route \in Routes \cup {NoRoute} /\ fallback_used \in BOOLEAN
        /\ fallback_pending \in BOOLEAN /\ refinement_ready \in BOOLEAN
    BY DEF Init
  <2>4. iteration_count = 0 /\ retrieval_calls = 0 /\ searches = 0
    BY DEF Init
  <2>5. generation_attempts = 0 /\ citation_check = "unset"
    BY DEF Init
  <2>6. QED
    BY <2>1, <2>2, <2>3, <2>4, <2>5 DEF SpendingType, MaxGenerations
<1>5. QED
  BY <1>1, <1>2, <1>3, <1>4, TypeParts

\* Every step of a run keeps the state typed.
LEMMA TypeStep == TypeInv /\ [Next]_vars => TypeInv'
<1> SUFFICES ASSUME MachineType, VerdictType, FindingsType, SpendingType, [Next]_vars
             PROVE  MachineType' /\ VerdictType' /\ FindingsType' /\ SpendingType'
  BY TypeParts
<1>0. req \in RequestType
  BY DEF MachineType
<1>1. CASE Initialize
  <2>1. MachineType'
    BY <1>1, MachineStep DEF Initialize, Nodes
  <2>2. VerdictType' /\ FindingsType' /\ SpendingType'
    BY <1>1 DEF Initialize, VerdictType, FindingsType, SpendingType, query, budget,
                findings, flags, drafting
  <2>3. QED
    BY <2>1, <2>2
<1>2. CASE ExtractFeatures
  <2>1. MachineType'
    BY <1>2, MachineStep DEF ExtractFeatures, Nodes
  <2>2. kind' \in QueryKinds
    BY <1>0, <1>2, RequestBounds DEF ExtractFeatures
  <2>3. VerdictType' /\ FindingsType' /\ SpendingType'
    BY <1>2, <2>2 DEF ExtractFeatures, VerdictType, FindingsType, SpendingType, verdict,
                      budget, findings, flags, drafting
  <2>4. QED
    BY <2>1, <2>3
<1>3. CASE ControllerDecide
  <2>1. MachineType'
    BY <1>3, MachineStep, EdgesLeadToNodes DEF ControllerDecide, Nodes
  <2>2. /\ next_action' \in Actions \cup {NoAction}
        /\ abstention_reason' \in WorkflowReasons \cup ControllerReasons \cup {NoReason}
        /\ route' \in Routes \cup {NoRoute}
        /\ UNCHANGED <<status, answer, cites, citations>>
    <3>1. CASE abstention_reason # NoReason
      BY <1>3, <3>1 DEF ControllerDecide, verdict, VerdictType, SpendingType
    <3>2. CASE abstention_reason = NoReason
      <4>1. View \in ViewType
        BY <1>0, ViewTyped
      <4>2. PICK d \in DecisionsOf(controller, View) :
               /\ next_action' = d.action
               /\ route' = IF d.route # NoRoute THEN d.route ELSE route
               /\ abstention_reason' = d.reason
        BY <1>3, <3>2 DEF ControllerDecide
      <4>3. d \in DecisionType
        BY <4>1, DecisionsType DEF MachineType
      <4>4. UNCHANGED <<status, answer, cites, citations>>
        BY <1>3, <3>2 DEF ControllerDecide
      <4>5. QED
        BY <4>2, <4>3, <4>4 DEF DecisionType, SpendingType
    <3>3. QED
      BY <3>1, <3>2
  <2>3. VerdictType' /\ FindingsType' /\ SpendingType'
    BY <1>3, <2>2 DEF ControllerDecide, VerdictType, FindingsType, SpendingType, query,
                      budget, findings, flags, drafting
  <2>4. QED
    BY <2>1, <2>3
<1>4. CASE ControllerRaises
  <2>1. MachineType'
    BY <1>4, EnterCounts DEF ControllerRaises, MachineType, Nodes, Enter, request
  <2>2. VerdictType' /\ FindingsType' /\ SpendingType'
    BY <1>4 DEF ControllerRaises, VerdictType, FindingsType, SpendingType, verdict, query,
                budget, findings, flags, drafting
  <2>3. QED
    BY <2>1, <2>2
<1>5. CASE Retrieve
  <2>1. MachineType'
    BY <1>5, MachineStep DEF Retrieve, Nodes
  <2>2. CASE UNCHANGED <<route, budget, findings, flags>>
    <3>1. FindingsType' /\ SpendingType'
      BY <1>5, <2>2 DEF Retrieve, FindingsType, SpendingType, query, budget, findings,
                        flags, drafting
    <3>2. VerdictType'
      <4>1. CASE UNCHANGED verdict
        BY <4>1 DEF VerdictType, verdict, Answers
      <4>2. CASE RetrieveRefusal # NoReason /\ Abstaining(RetrieveRefusal)
        BY <4>2, AbstainingType, RefusalsType
      <4>3. CASE RetrieveRefusal = NoReason /\ Search
        BY <1>0, <1>5, <4>3, SearchType DEF Retrieve
      <4>4. QED
        BY <1>5, <4>1, <4>2, <4>3 DEF Retrieve
    <3>3. QED
      BY <2>1, <3>1, <3>2
  <2>3. CASE RetrieveRefusal = NoReason /\ Search
    BY <1>0, <1>5, <2>1, <2>3, SearchType DEF Retrieve
  <2>4. QED
    BY <1>5, <2>2, <2>3 DEF Retrieve
<1>6. CASE Rerank
  <2>1. MachineType'
    BY <1>6, MachineStep DEF Rerank, Nodes
  <2>2. evidence' \in SUBSET evidence
    BY <1>6 DEF Rerank
  <2>3. FindingsType'
    BY <1>6, <2>2, SubsetIsResult DEF Rerank, FindingsType
  <2>4. VerdictType'
    <3>1. CASE UNCHANGED verdict
      BY <3>1 DEF VerdictType, verdict, Answers
    <3>2. CASE Abstaining("reranker_unavailable")
      BY <3>2, AbstainingType DEF WorkflowReasons
    <3>3. QED
      BY <1>6, <3>1, <3>2 DEF Rerank
  <2>5. SpendingType'
    BY <1>6 DEF Rerank, SpendingType, query, budget, flags, drafting
  <2>6. QED
    BY <2>1, <2>3, <2>4, <2>5
<1>7. CASE EvaluateEvidence
  <2>1. MachineType'
    BY <1>7, MachineStep, EdgesLeadToNodes DEF EvaluateEvidence, Nodes
  <2>2. evidence' \in SUBSET evidence /\ packed' \in BOOLEAN
    BY <1>7 DEF EvaluateEvidence, Packings, FindingsType
  <2>3. conflict_score' \in {0, 75} /\ evidence_status' \in EvidenceStatuses
    BY <1>7, ScoreType DEF EvaluateEvidence, FindingsType, EvidenceStatuses, SufficiencyOf
  <2>4. FindingsType'
    BY <1>7, <2>2, <2>3, SubsetIsResult DEF EvaluateEvidence, FindingsType
  <2>5. VerdictType'
    <3>1. CASE UNCHANGED verdict
      BY <3>1 DEF VerdictType, verdict, Answers
    <3>2. CASE Abstaining("conflicting_evidence")
      BY <3>2, AbstainingType DEF WorkflowReasons
    <3>3. QED
      BY <1>7, <3>1, <3>2 DEF EvaluateEvidence
  <2>6. SpendingType'
    BY <1>7 DEF EvaluateEvidence, SpendingType, query, budget, flags, drafting
  <2>7. QED
    BY <2>1, <2>4, <2>5, <2>6
<1>8. CASE Reformulate
  <2>1. MachineType'
    BY <1>8, MachineStep DEF Reformulate, Nodes
  <2>2. /\ active_query' \in Queries /\ refinement_ready' \in BOOLEAN
        /\ iteration_count' \in 0..3
    <3>1. CASE UNCHANGED <<active_query, refinement_ready, iteration_count>>
      BY <3>1 DEF SpendingType
    <3>2. ASSUME ReformulateRefusal = NoReason, NEW proposal \in Queries, Refines(proposal)
          PROVE  <2>2!1 /\ <2>2!2
      <4>1. iteration_count < req.max_iterations
        BY <1>0, <3>2, RequestBounds DEF ReformulateRefusal, SpendingType
      <4>2. QED
        BY <1>0, <3>2, <4>1, RequestBounds DEF Refines, SpendingType
    <3>3. QED
      BY <1>8, <3>1, <3>2 DEF Reformulate, RefinementFails
  <2>3. VerdictType'
    <3>1. CASE UNCHANGED verdict
      BY <3>1 DEF VerdictType, verdict, Answers
    <3>2. CASE \E reason \in WorkflowReasons : Abstaining(reason)
      BY <3>2, AbstainingType
    <3>3. QED
      BY <1>8, <3>1, <3>2, RefusalsType
         DEF Reformulate, RefinementFails, Refines, WorkflowReasons
  <2>4. FindingsType' /\ SpendingType'
    BY <1>8, <2>2 DEF Reformulate, FindingsType, SpendingType, findings, drafting
  <2>5. QED
    BY <2>1, <2>3, <2>4
<1>9. CASE Generate
  <2>1. MachineType'
    BY <1>9, MachineStep DEF Generate, Nodes
  <2>2. generation_attempts' \in 0..MaxGenerations /\ evidence' = evidence /\ packed' \in BOOLEAN
    <3>1. CASE UNCHANGED <<evidence, packed, generation_attempts>>
      BY <3>1 DEF FindingsType, SpendingType
    <3>2. CASE GenerateRefusal = NoReason /\ Drafts
      <4>1. generation_attempts < MaxGenerations
        BY <3>2 DEF GenerateRefusal, SpendingType, MaxGenerations
      <4>2. QED
        BY <3>2, <4>1 DEF Drafts, Repacked, FindingsType, SpendingType, MaxGenerations
    <3>3. QED
      BY <1>9, <3>1, <3>2 DEF Generate
  <2>3. VerdictType'
    <3>1. CASE \E reason \in WorkflowReasons : Abstaining(reason)
      BY <3>1, AbstainingType
    <3>2. CASE /\ answer' = "generated" /\ cites' \in Answers
               /\ UNCHANGED <<status, next_action, abstention_reason, citations>>
      BY <3>2 DEF VerdictType
    <3>3. QED
      BY <1>9, <3>1, <3>2, RefusalsType DEF Generate, Drafts, WorkflowReasons
  <2>4. FindingsType' /\ SpendingType'
    BY <1>9, <2>2 DEF Generate, FindingsType, SpendingType, query, budget, flags
  <2>5. QED
    BY <2>1, <2>3, <2>4
<1>10. CASE ValidateCitations
  <2>1. MachineType'
    BY <1>10, MachineStep, EdgesLeadToNodes DEF ValidateCitations, Nodes
  <2>2. citation_check' \in {"unset", "passed", "failed"}
    BY <1>10 DEF ValidateCitations, SpendingType
  <2>3. VerdictType'
    <3>1. CASE UNCHANGED verdict
      BY <3>1 DEF VerdictType, verdict, Answers
    <3>2. CASE Abstaining("invalid_citations")
      BY <3>2, AbstainingType DEF WorkflowReasons
    <3>3. CASE /\ citations' = CitedIds(cites)
               /\ UNCHANGED <<status, next_action, abstention_reason, answer, cites>>
      BY <3>3 DEF VerdictType, CitedIds, Answers
    <3>4. QED
      BY <1>10, <3>1, <3>2, <3>3 DEF ValidateCitations
  <2>4. FindingsType' /\ SpendingType'
    BY <1>10, <2>2 DEF ValidateCitations, FindingsType, SpendingType, query, budget,
                       findings, flags
  <2>5. QED
    BY <2>1, <2>3, <2>4
<1>11. CASE Abstain
  <2>1. MachineType'
    BY <1>11, MachineStep DEF Abstain, Nodes
  <2>2. VerdictType'
    BY <1>11, AbstainingType DEF Abstain, WorkflowReasons
  <2>3. FindingsType' /\ SpendingType'
    BY <1>11 DEF Abstain, FindingsType, SpendingType, query, budget, findings, flags, drafting
  <2>4. QED
    BY <2>1, <2>2, <2>3
<1>12. CASE Finalize
  <2>1. MachineType'
    BY <1>12, MachineStep DEF Finalize, Nodes
  <2>2. VerdictType' /\ FindingsType' /\ SpendingType'
    BY <1>12 DEF Finalize, VerdictType, FindingsType, SpendingType, query, budget,
                 findings, flags, drafting
  <2>3. QED
    BY <2>1, <2>2
<1>13. CASE UNCHANGED vars
  BY <1>13 DEF vars, MachineType, VerdictType, FindingsType, SpendingType, request, machine,
               verdict, query, budget, findings, flags, drafting
<1>14. QED
  BY <1>1, <1>2, <1>3, <1>4, <1>5, <1>6, <1>7, <1>8, <1>9, <1>10, <1>11, <1>12, <1>13
     DEF Next, Node, Done

\* The state of a run is typed throughout, whatever it is asked and answered.
THEOREM TypeCorrect == Spec => []TypeOK
<1>1. TypeInv => TypeOK
  BY DEF TypeInv
<1>2. QED
  BY TypeInit, TypeStep, <1>1, PTL DEF Spec
=============================================================================
