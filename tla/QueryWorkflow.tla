--------------------------- MODULE QueryWorkflow ----------------------------
(***************************************************************************)
(* One query run of the compiled LangGraph workflow (src/evidenceops/graph):*)
(* every node is one action, its conditional edge included, and the run     *)
(* ends in the response that QueryService._execute_query builds.            *)
(*                                                                         *)
(* What the outside world answers is a choice: which chunks a search        *)
(* returns or whether it raises, what the reranker keeps, whether the       *)
(* packed evidence scores as sufficient, which query a reformulator         *)
(* proposes, what an answer cites.  Texts are abstracted to what the graph  *)
(* tells apart: a chunk is an identifier, an answer the set of citation     *)
(* numbers it contains, a query an identifier with a kind.                  *)
(***************************************************************************)
EXTENDS RetrievalControllers, FiniteSets, Sequences

CONSTANTS
  Chunks,            \* identifiers of the indexed chunks
  ConflictingPairs,  \* sets of two chunks whose statements contradict
  Queries,           \* normalized query texts
  Configurations,    \* the requests a run may serve, and how the graph was built
  MaxCited           \* largest citation number an answer may contain

Collaborators == RetrievalRoutes \cup {"reranker", "generator"}

RequestType ==
  [query : Queries, kind : QueryKinds, require_citations : BOOLEAN,
   max_iterations : 1..3, max_retrieval_calls : 1..3,
   top_k_context : 1..6, conflict_threshold : 0..100]

\* A request, merged with the settings, and what GraphDependencies was given: the
\* collaborators and the decision policy.
ConfigurationType ==
  [request : RequestType, collaborators : SUBSET Collaborators, controller : Controllers]

ASSUME WorkflowAssumption ==
  /\ ConflictingPairs \subseteq {{a, b} : a, b \in Chunks}
  /\ Configurations \subseteq ConfigurationType
  /\ MaxCited \in Nat

RecursionLimit == 64   \* nodes LangGraph executes in one run at most
MaxCandidates  == 20   \* results kept of one search
MaxReranked    == 6    \* results accepted from the reranker
MaxGenerations == 2    \* a draft and one correction
NoError        == "none"
Malformed      == 0    \* stands for a malformed citation token in an answer

VARIABLES
  req, deps, controller,                      \* fixed for the whole run
  pc, steps, error,                           \* LangGraph and the service
  status, next_action, abstention_reason, answer, cites, citations,
  route, active_query, kind,
  iteration_count, retrieval_calls, attempts,
  evidence, packed, evidence_status, conflict_score, last_evidence_ids,
  retrieval_succeeded, fallback_used, fallback_pending, refinement_ready,
  generation_attempts, citation_check,
  searches                                    \* history: searches really made

request  == <<req, deps, controller>>
machine  == <<pc, steps, error>>
verdict  == <<status, next_action, abstention_reason, answer, cites, citations>>
query    == <<active_query, kind>>
budget   == <<iteration_count, retrieval_calls, attempts, searches>>
findings == <<evidence, packed, evidence_status, conflict_score,
              last_evidence_ids, retrieval_succeeded>>
flags    == <<fallback_used, fallback_pending, refinement_ready>>
drafting == <<generation_attempts, citation_check>>
vars == <<request, machine, verdict, route, query, budget, findings, flags, drafting>>

-----------------------------------------------------------------------------
(* The canonical state, validated on both sides of every node.              *)

Attempt == [query : Queries, route : Routes \cup {NoRoute}, failed : BOOLEAN]

WorkflowReasons ==
  {"retrieval_budget_exhausted", "iteration_budget_exhausted",
   "repeated_query_route", "retrieval_unavailable", "unchanged_evidence",
   "conflicting_evidence", "reranker_unavailable", "duplicate_reformulation",
   "evidence_below_threshold", "generator_unavailable", "generator_timeout",
   "invalid_citations", "context_budget_exceeded"}

Nodes == {"initialize", "extract_features", "controller_decide", "retrieve",
          "rerank", "evaluate_evidence", "reformulate", "generate",
          "validate_citations", "abstain", "finalize"}

\* Citation labels C1, C2, ... given to the evidence in order.
CitationIds(records) == 1..Cardinality(records)

CitedIds(tokens) == tokens \ {Malformed}

\* The only query that may be answered without evidence.
ApprovedGreeting == req.kind = "greeting" /\ ~req.require_citations

\* The validator of EvidenceOpsState; the graph raises when it rejects a state.
ValidState ==
  /\ packed => Cardinality(evidence) <= req.top_k_context
  /\ generation_attempts \in 0..MaxGenerations
  /\ iteration_count <= req.max_iterations
  /\ retrieval_calls <= req.max_retrieval_calls
  /\ status \in {"completed", "abstained"} => next_action = NoAction
  /\ status = "abstained" => abstention_reason # NoReason
  /\ status = "completed" =>
       /\ answer # "none"
       /\ citation_check = "passed"
       /\ route = "direct" => ApprovedGreeting
       /\ route # "direct" =>
            /\ CitedIds(cites) # {}
            /\ CitedIds(cites) \subseteq CitationIds(evidence)
            /\ CitedIds(cites) = citations

-----------------------------------------------------------------------------
(* Entering a node, and leaving it along an edge of the graph.              *)

Enter(node) ==
  /\ pc = node
  /\ steps' = steps + 1
  /\ UNCHANGED request

\* A rejected state and an exhausted recursion limit both end the run as FAILED.
Leave(node) ==
  /\ error' = IF ~ValidState' THEN "invalid_state"
              ELSE IF node # "end" /\ steps' >= RecursionLimit THEN "recursion_guard"
              ELSE NoError
  /\ pc' = IF error' = NoError THEN node ELSE "end"

\* Mutated: the last reason wins instead of the first.
AbstainingOverwrites(reason) ==
  /\ status' = "abstained" /\ next_action' = NoAction
  /\ abstention_reason' = reason
  /\ answer' = "canned" /\ cites' = {} /\ citations' = {}

\* abstain_node, which other nodes also call as a function.
Abstaining(reason) ==
  /\ status' = "abstained"
  /\ next_action' = NoAction
  /\ abstention_reason' = IF abstention_reason = NoReason THEN reason ELSE abstention_reason
  /\ answer' = "canned"
  /\ cites' = {}
  /\ citations' = {}

AfterDecision ==
  IF abstention_reason # NoReason THEN "abstain"
  ELSE CASE next_action \in {"direct_answer", "stop"} -> "generate"
         [] next_action \in {RetrieveAction(r) : r \in RetrievalRoutes} -> "retrieve"
         [] next_action = "reformulate" -> "reformulate"
         [] OTHER -> "abstain"

AfterEvaluation ==
  IF abstention_reason # NoReason THEN "abstain"
  ELSE IF fallback_pending THEN "retrieve"
  ELSE IF evidence_status = "sufficient" THEN "generate"
  ELSE IF /\ iteration_count < req.max_iterations
          /\ retrieval_calls < req.max_retrieval_calls THEN "reformulate"
  ELSE "abstain"

AfterValidation ==
  IF status = "abstained" THEN "abstain"
  ELSE IF citation_check # "failed" THEN "finalize"
  ELSE IF generation_attempts < MaxGenerations THEN "generate"
  ELSE "abstain"

\* Mutated: scores accumulate.
LargerAdds(a, b) == a + b

Larger(a, b) == IF a >= b THEN a ELSE b

\* detect_evidence_conflicts: some pair contradicts, or none does.
ConflictScore(records) ==
  IF \E pair \in ConflictingPairs : pair \subseteq records THEN 75 ELSE 0

-----------------------------------------------------------------------------
Init ==
  /\ \E c \in Configurations :
       req = c.request /\ deps = c.collaborators /\ controller = c.controller
  /\ pc = "initialize" /\ steps = 0 /\ error = NoError
  /\ status = "created" /\ next_action = NoAction /\ abstention_reason = NoReason
  /\ answer = "none" /\ cites = {} /\ citations = {}
  /\ route = NoRoute /\ active_query = req.query /\ kind = req.kind
  /\ iteration_count = 0 /\ retrieval_calls = 0 /\ attempts = <<>> /\ searches = 0
  /\ evidence = {} /\ packed = FALSE /\ evidence_status = "unknown"
  /\ conflict_score = 0 /\ last_evidence_ids = {} /\ retrieval_succeeded = FALSE
  /\ fallback_used = FALSE /\ fallback_pending = FALSE /\ refinement_ready = FALSE
  /\ generation_attempts = 0 /\ citation_check = "unset"

Initialize ==
  /\ Enter("initialize")
  /\ status' = "running"
  /\ UNCHANGED <<next_action, abstention_reason, answer, cites, citations,
                 route, query, budget, findings, flags, drafting>>
  /\ Leave("extract_features")

\* The features are those of the active query: a reformulated text may match
\* other patterns than the original one.
ExtractFeatures ==
  /\ Enter("extract_features")
  /\ IF active_query = req.query THEN kind' = req.kind ELSE kind' \in QueryKinds
  /\ UNCHANGED <<verdict, route, active_query, budget, findings, flags, drafting>>
  /\ Leave("controller_decide")

\* What a controller may read of the state.
View ==
  [retrieval_calls |-> retrieval_calls, max_retrieval_calls |-> req.max_retrieval_calls,
   iteration_count |-> iteration_count, max_iterations |-> req.max_iterations,
   evidence_status |-> evidence_status, conflict_score |-> conflict_score,
   route |-> route, tried_routes |-> {attempts[i].route : i \in DOMAIN attempts},
   refinement_ready |-> refinement_ready,
   require_citations |-> req.require_citations, kind |-> kind]

ControllerDecide ==
  /\ Enter("controller_decide")
  /\ IF abstention_reason # NoReason
     THEN UNCHANGED <<verdict, route>>
     ELSE /\ \E d \in DecisionsOf(controller, View) :
               /\ next_action' = d.action
               /\ route' = IF d.route # NoRoute THEN d.route ELSE route
               /\ abstention_reason' = d.reason
          /\ UNCHANGED <<status, answer, cites, citations>>
  /\ UNCHANGED <<query, budget, findings, flags, drafting>>
  /\ Leave(AfterDecision')

\* A controller of the caller's own may raise; the service reports a failed run.
ControllerRaises ==
  /\ controller = "custom"
  /\ Enter("controller_decide")
  /\ abstention_reason = NoReason
  /\ pc' = "end" /\ error' = "workflow_failed"
  /\ UNCHANGED <<verdict, route, query, budget, findings, flags, drafting>>

-----------------------------------------------------------------------------
(* Retrieval: one search, or the choice of the one fallback route.          *)

Attempted(q, r) ==
  \E i \in DOMAIN attempts : attempts[i].query = q /\ attempts[i].route = r

RetrieveRefusal ==
  IF retrieval_calls >= req.max_retrieval_calls THEN "retrieval_budget_exhausted"
  ELSE IF iteration_count >= req.max_iterations THEN "iteration_budget_exhausted"
  ELSE IF Attempted(active_query, route) THEN "repeated_query_route"
  ELSE NoReason

\* Mutated: the call counter is not advanced.
CallsNotCounted == retrieval_calls

\* A route without a retriever costs no call; a search that raises does.
CallsAfterSearch == retrieval_calls + (IF route \in deps THEN 1 ELSE 0)

\* Configured routes that no attempt of the run, this one included, has used.
FallbackRoutes ==
  { r \in RetrievalRoutes \cap deps :
      r # route /\ \A i \in DOMAIN attempts : attempts[i].route # r }

FallbackOrder(r) == CASE r = "sparse" -> 1 [] r = "dense" -> 2 [] r = "hybrid" -> 3

\* Mutated: forgets that the fallback of the run is spent.
MayFallBackAgain ==
  FallbackRoutes # {} /\ CallsAfterSearch < req.max_retrieval_calls

MayFallBack ==
  /\ FallbackRoutes # {}
  /\ ~fallback_used
  /\ CallsAfterSearch < req.max_retrieval_calls

FallBack ==
  /\ \E r \in FallbackRoutes :
       /\ \A other \in FallbackRoutes : FallbackOrder(r) <= FallbackOrder(other)
       /\ route' = r
       /\ next_action' = RetrieveAction(r)
  /\ fallback_used' = TRUE
  /\ fallback_pending' = TRUE
  /\ UNCHANGED <<status, abstention_reason, answer, cites, citations>>

\* The route has no retriever, or the search or the adaptation of its results raised.
SearchFails ==
  /\ attempts' = Append(attempts,
                        [query |-> active_query, route |-> route, failed |-> TRUE])
  /\ IF MayFallBack
     THEN FallBack
     ELSE /\ Abstaining("retrieval_unavailable")
          /\ fallback_pending' = FALSE
          /\ UNCHANGED <<route, fallback_used>>
  /\ UNCHANGED findings

\* Mutated: the context packed from the previous search is not dropped.
RecordEvidenceKeepsContext(results) ==
  /\ last_evidence_ids' = results /\ retrieval_succeeded' = TRUE
  /\ evidence' = results
  /\ conflict_score' = Larger(conflict_score, ConflictScore(results))
  /\ IF conflict_score' >= req.conflict_threshold
     THEN evidence_status' = "conflicting" /\ Abstaining("conflicting_evidence")
     ELSE UNCHANGED <<evidence_status, verdict>>
  /\ UNCHANGED packed

\* Mutated: contradictions are looked for after reranking only.
RecordEvidenceUninspected(results) ==
  /\ last_evidence_ids' = results /\ retrieval_succeeded' = TRUE
  /\ packed' = FALSE /\ evidence' = results
  /\ UNCHANGED <<conflict_score, evidence_status, verdict>>

RecordEvidence(results) ==
  /\ last_evidence_ids' = results
  /\ retrieval_succeeded' = TRUE
  /\ packed' = FALSE
  /\ evidence' = results
  /\ conflict_score' = Larger(conflict_score, ConflictScore(results))
  /\ IF conflict_score' >= req.conflict_threshold
     THEN /\ evidence_status' = "conflicting"
          /\ Abstaining("conflicting_evidence")
     ELSE UNCHANGED <<evidence_status, verdict>>

SearchReturns(results) ==
  /\ attempts' = Append(attempts,
                        [query |-> active_query, route |-> route, failed |-> FALSE])
  /\ fallback_pending' = FALSE
  /\ UNCHANGED <<route, fallback_used>>
  /\ IF retrieval_succeeded /\ results = last_evidence_ids
     THEN /\ Abstaining(IF conflict_score >= MaterialConflict
                        THEN "conflicting_evidence" ELSE "unchanged_evidence")
          /\ UNCHANGED findings
     ELSE RecordEvidence(results)

SearchResults == { r \in SUBSET Chunks : IsFiniteSet(r) /\ Cardinality(r) <= MaxCandidates }

Search ==
  /\ retrieval_calls' = CallsAfterSearch
  /\ searches' = searches + (IF route \in deps THEN 1 ELSE 0)
  /\ refinement_ready' = FALSE
  /\ \/ SearchFails
     \/ route \in deps /\ \E results \in SearchResults : SearchReturns(results)
  /\ UNCHANGED iteration_count

Retrieve ==
  /\ Enter("retrieve")
  /\ IF abstention_reason # NoReason
     THEN UNCHANGED <<verdict, route, budget, findings, flags>>
     ELSE IF RetrieveRefusal # NoReason
     THEN /\ Abstaining(RetrieveRefusal)
          /\ UNCHANGED <<route, budget, findings, flags>>
     ELSE Search
  /\ UNCHANGED <<query, drafting>>
  /\ Leave("rerank")

-----------------------------------------------------------------------------
(* Ranking, packing and scoring the evidence.                               *)

RerankSkipped ==
  \/ abstention_reason # NoReason \/ fallback_pending
  \/ "reranker" \notin deps \/ evidence = {}

Rerank ==
  /\ Enter("rerank")
  /\ IF RerankSkipped
     THEN UNCHANGED <<verdict, evidence>>
     ELSE \/ /\ \E ranked \in SUBSET evidence \ {{}} :
                  Cardinality(ranked) <= MaxReranked /\ evidence' = ranked
             /\ UNCHANGED verdict
          \/ Abstaining("reranker_unavailable") /\ UNCHANGED evidence
  /\ UNCHANGED <<route, query, budget, packed, evidence_status, conflict_score,
                 last_evidence_ids, retrieval_succeeded, flags, drafting>>
  /\ Leave("evaluate_evidence")

\* What pack_evidence_context may keep: whole chunks, at most top_k_context, as
\* many as the character budget admits (possibly none).
Packings(records) ==
  { kept \in SUBSET records : Cardinality(kept) <= req.top_k_context }

\* Packing keeps what it has packed once: same order, same labels, same sizes.
Repacked(records) == records

\* Without evidence the score is 0; otherwise it falls on either side of the threshold.
SufficiencyOf(records) ==
  IF records = {} THEN {"insufficient"} ELSE {"sufficient", "insufficient"}

EvaluationSkipped == abstention_reason # NoReason \/ fallback_pending

EvaluateEvidence ==
  /\ Enter("evaluate_evidence")
  /\ IF EvaluationSkipped
     THEN UNCHANGED <<verdict, evidence, packed, evidence_status, conflict_score>>
     ELSE /\ conflict_score' = Larger(conflict_score, ConflictScore(evidence))
          /\ IF conflict_score' >= req.conflict_threshold
             THEN /\ evidence_status' = "conflicting"
                  /\ Abstaining("conflicting_evidence")
                  /\ UNCHANGED <<evidence, packed>>
             ELSE /\ \E kept \in Packings(evidence) :
                       /\ evidence' = kept
                       /\ packed' = (kept # {})
                       /\ evidence_status' \in SufficiencyOf(kept)
                  /\ UNCHANGED verdict
  /\ UNCHANGED <<route, query, budget, last_evidence_ids, retrieval_succeeded,
                 flags, drafting>>
  /\ Leave(AfterEvaluation')

ReformulateRefusal ==
  IF retrieval_calls >= req.max_retrieval_calls THEN "retrieval_budget_exhausted"
  ELSE IF iteration_count >= req.max_iterations THEN "iteration_budget_exhausted"
  ELSE NoReason

PreviousQueries ==
  {attempts[i].query : i \in DOMAIN attempts} \cup {req.query, active_query}

\* The reformulator raised, or proposed nothing new.
RefinementFails ==
  /\ Abstaining("duplicate_reformulation")
  /\ UNCHANGED <<active_query, refinement_ready, iteration_count>>

\* Mutated: a proposal is compared with the active query only.
RefinementDiffers(proposal) == proposal # active_query

RefinementIsDistinct(proposal) == proposal \notin PreviousQueries

Refines(proposal) ==
  /\ active_query' = proposal
  /\ refinement_ready' = TRUE
  /\ iteration_count' = iteration_count + 1
  /\ IF iteration_count' >= req.max_iterations
     THEN Abstaining("iteration_budget_exhausted")
     ELSE UNCHANGED verdict

Reformulate ==
  /\ Enter("reformulate")
  /\ IF abstention_reason # NoReason
     THEN UNCHANGED <<verdict, active_query, refinement_ready, iteration_count>>
     ELSE IF ReformulateRefusal # NoReason
     THEN /\ Abstaining(ReformulateRefusal)
          /\ UNCHANGED <<active_query, refinement_ready, iteration_count>>
     ELSE \/ RefinementFails
          \/ \E proposal \in Queries :
               RefinementIsDistinct(proposal) /\ Refines(proposal)
  /\ UNCHANGED <<route, kind, retrieval_calls, attempts, searches, findings,
                 fallback_used, fallback_pending, drafting>>
  /\ Leave("extract_features")

-----------------------------------------------------------------------------
(* Generation, citation checking and the two ends of a run.                 *)

\* generate_node re-checks the greeting gate whatever the controller asked for.
DirectGeneration == next_action = "direct_answer" /\ ApprovedGreeting

\* Mutated: the conflict is not looked at again before generating.
GenerateRefusalIgnoresConflict ==
  IF ~DirectGeneration /\ (evidence = {} \/ evidence_status # "sufficient")
    THEN "evidence_below_threshold"
  ELSE IF "generator" \notin deps THEN "generator_unavailable"
  ELSE IF generation_attempts >= MaxGenerations THEN "invalid_citations"
  ELSE NoReason

GenerateRefusal ==
  IF ~DirectGeneration /\ conflict_score >= BlockingConflict THEN "conflicting_evidence"
  ELSE IF ~DirectGeneration /\ (evidence = {} \/ evidence_status # "sufficient")
    THEN "evidence_below_threshold"
  ELSE IF "generator" \notin deps THEN "generator_unavailable"
  ELSE IF generation_attempts >= MaxGenerations THEN "invalid_citations"
  ELSE IF ~DirectGeneration /\ Repacked(evidence) = {} THEN "context_budget_exceeded"
  ELSE NoReason

Answers == SUBSET (Malformed..MaxCited)

Drafts ==
  /\ generation_attempts' = generation_attempts + 1
  /\ packed' = (packed \/ ~DirectGeneration)
  /\ evidence' = IF DirectGeneration THEN evidence ELSE Repacked(evidence)
  /\ \/ /\ answer' = "generated"
        /\ cites' \in Answers
        /\ UNCHANGED <<status, next_action, abstention_reason, citations>>
     \/ Abstaining("generator_timeout")
     \/ Abstaining("generator_unavailable")

Generate ==
  /\ Enter("generate")
  /\ IF abstention_reason # NoReason \/ GenerateRefusal # NoReason
     THEN /\ Abstaining(IF abstention_reason # NoReason THEN "evidence_below_threshold"
                        ELSE GenerateRefusal)
          /\ UNCHANGED <<evidence, packed, generation_attempts>>
     ELSE Drafts
  /\ UNCHANGED <<route, query, budget, evidence_status, conflict_score,
                 last_evidence_ids, retrieval_succeeded, flags, citation_check>>
  /\ Leave("validate_citations")

\* The validator asks the route, not the action, whether citations are required.
CitationsRequired == ~(route = "direct" /\ ApprovedGreeting)

CitationsValid ==
  /\ Malformed \notin cites
  /\ CitedIds(cites) \subseteq CitationIds(evidence)
  /\ CitationsRequired => CitedIds(cites) # {}

ValidateCitations ==
  /\ Enter("validate_citations")
  /\ IF abstention_reason # NoReason
     THEN UNCHANGED <<verdict, citation_check>>
     ELSE /\ citation_check' = IF CitationsValid THEN "passed" ELSE "failed"
          /\ IF ~CitationsValid /\ generation_attempts >= MaxGenerations
             THEN Abstaining("invalid_citations")
             ELSE /\ citations' = CitedIds(cites)
                  /\ UNCHANGED <<status, next_action, abstention_reason, answer, cites>>
  /\ UNCHANGED <<route, query, budget, findings, flags, generation_attempts>>
  /\ Leave(AfterValidation')

Abstain ==
  /\ Enter("abstain")
  /\ Abstaining("evidence_below_threshold")
  /\ UNCHANGED <<route, query, budget, findings, flags, drafting>>
  /\ Leave("end")

Finalize ==
  /\ Enter("finalize")
  /\ next_action' = NoAction
  /\ status' = IF status = "abstained" THEN status ELSE "completed"
  /\ UNCHANGED <<abstention_reason, answer, cites, citations,
                 route, query, budget, findings, flags, drafting>>
  /\ Leave("end")

Node ==
  \/ Initialize \/ ExtractFeatures \/ ControllerDecide \/ ControllerRaises
  \/ Retrieve \/ Rerank \/ EvaluateEvidence \/ Reformulate
  \/ Generate \/ ValidateCitations \/ Abstain \/ Finalize

\* A finished run stays finished.
Done == pc = "end" /\ UNCHANGED vars

Next == Node \/ Done

Spec == Init /\ [][Next]_vars

\* LangGraph executes nodes until the run ends; every node returns.
FairSpec == Spec /\ WF_vars(Node)

\* The status of the QueryResponse.
Response ==
  IF pc # "end" THEN "pending" ELSE IF error # NoError THEN "failed" ELSE status

-----------------------------------------------------------------------------
(* Properties.                                                              *)

\* Every variable keeps to its domain.
TypeOK ==
  /\ req \in RequestType /\ deps \subseteq Collaborators /\ controller \in Controllers
  /\ pc \in Nodes \cup {"end"} /\ steps \in 0..RecursionLimit
  /\ error \in {NoError, "invalid_state", "recursion_guard", "workflow_failed"}
  /\ status \in {"created", "running", "completed", "abstained"}
  /\ next_action \in Actions \cup {NoAction}
  /\ abstention_reason \in WorkflowReasons \cup ControllerReasons \cup {NoReason}
  /\ answer \in {"none", "generated", "canned"}
  /\ cites \in Answers /\ citations \in Answers
  /\ route \in Routes \cup {NoRoute}
  /\ active_query \in Queries /\ kind \in QueryKinds
  /\ iteration_count \in 0..3 /\ retrieval_calls \in 0..3 /\ searches \in Nat
  /\ attempts \in Seq(Attempt)
  /\ evidence \in SearchResults /\ last_evidence_ids \in SearchResults
  /\ packed \in BOOLEAN /\ retrieval_succeeded \in BOOLEAN
  /\ evidence_status \in EvidenceStatuses /\ conflict_score \in {0, 75}
  /\ fallback_used \in BOOLEAN /\ fallback_pending \in BOOLEAN
  /\ refinement_ready \in BOOLEAN
  /\ generation_attempts \in 0..MaxGenerations
  /\ citation_check \in {"unset", "passed", "failed"}

\* No run dies inside the graph: whatever the controller decides and the
\* collaborators answer, the state validator never rejects a node's result and
\* the recursion limit, "only the last-resort guard", is never met.
NoInternalFailure == error \notin {"invalid_state", "recursion_guard"}

\* No pair of query text and route is tried twice, and it is the reformulator's
\* filter and the choice of the fallback that see to it: the guard of
\* retrieve_node against a repeated pair has nothing to catch.
AttemptsAreNovel ==
  /\ \A i, j \in DOMAIN attempts :
       i # j => \/ attempts[i].query # attempts[j].query
                \/ attempts[i].route # attempts[j].route
  /\ abstention_reason # "repeated_query_route"

\* Over all its refinements together a run falls back to another route once:
\* at most one query is ever tried on two routes.
OneFallbackPerRun ==
  Len(attempts) <= Cardinality({attempts[i].query : i \in DOMAIN attempts}) + 1

\* A completed factual answer rests on evidence of the last search: that search
\* succeeded on the reported route with the query then active, what is left of
\* its results was packed and judged sufficient without blocking conflict, and
\* the answer cites some of it and nothing else.  Only an approved greeting may
\* be answered otherwise, whatever the controller asked for.
GroundedCompletion ==
  Response = "completed" /\ ~ApprovedGreeting =>
    /\ attempts # <<>>
    /\ LET last == attempts[Len(attempts)]
       IN  ~last.failed /\ last.route = route /\ last.query = active_query
    /\ evidence # {} /\ evidence \subseteq last_evidence_ids /\ packed
    /\ evidence_status = "sufficient" /\ conflict_score < BlockingConflict
    /\ citations # {} /\ citations \subseteq CitationIds(evidence)
    /\ cites = citations

\* A contradiction among the candidates of a search is never forgotten because
\* ranking or packing dropped one of its witnesses.
WitnessesSurviveRanking ==
  Response = "completed" /\ ~ApprovedGreeting =>
    ConflictScore(last_evidence_ids) = 0

\* Once a reason to abstain is recorded it is the reason reported, no search or
\* generation is started any more, and the run does not complete.
AbstentionIsFinal ==
  [][abstention_reason # NoReason =>
       /\ abstention_reason' = abstention_reason
       /\ UNCHANGED <<searches, generation_attempts>>
       /\ Response' # "completed"]_vars

\* The graph implements the promise made to the caller.
Promise == INSTANCE BoundedRun WITH
  limit <- req.max_retrieval_calls, searches <- searches,
  drafts <- generation_attempts, response <- Response,
  MaxDrafts <- MaxGenerations
KeepsPromise == Promise!Spec

\* Unless a controller of the caller's own raises, every run is answered: completed
\* or abstained, never failed and never going round for ever.
EveryRunIsAnswered == <>(Response \in {"completed", "abstained"} \/ error = "workflow_failed")

\* SSOT 5.3: with insufficient evidence, "reformulation is unavailable, and calls
\* remain", the next node is "retrieval node".  reformulate_node abstains instead.
RefinementFailureRetrieves ==
  abstention_reason = "duplicate_reformulation" =>
    retrieval_calls >= req.max_retrieval_calls
=============================================================================
