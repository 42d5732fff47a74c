-------------------------- MODULE LiteBridgeProperties --------------------------
(***************************************************************************)
(* What LiteBridge owes those who call it.                                  *)
(***************************************************************************)
EXTENDS LiteBridge

Steps ==
  {"idle", "needs_sdk", "builds_sdk", "needs_store", "builds_store", "ready", "handle",
   "search_local", "cache", "search_web", "fill_cache", "build", "put", "look_up", "compress",
   "answer", "generate"}

\* Every variable holds what it is for, and every package is one the contracts of
\* src/evidenceops/bridge/contracts.py accept.
TypeOK ==
  /\ deployment \in Configurations
  /\ clock \in 0..deployment.ticks
  /\ loop \in Callers \cup {NoCaller}
  /\ app.sdk \in 0..Len(caches) /\ app.store \in 0..Len(stores)
  /\ pc \in [Callers -> Steps]
  /\ left \in [Callers -> 0..deployment.requests_each]
  /\ \A i \in DOMAIN caches : Len(caches[i]) <= CacheEntries
  /\ \A s \in DOMAIN stores : DOMAIN stores[s] \subseteq DOMAIN issued
  /\ \A h \in DOMAIN issued : ConsistentPackage(issued[h].package)
  /\ \A c \in Callers :
       /\ work[c].handle \in 0..Len(issued) /\ work[c].now \in 0..clock
       /\ work[c].sdk \in 0..Len(caches) /\ work[c].store \in 0..Len(stores)

(***************************************************************************)
(* Consent                                                                  *)
(***************************************************************************)

Words(text) == {text[j].words : j \in DOMAIN text}
WordsFound(candidates) == UNION {Words(x.text) : x \in candidates}

\* The words of the local documents that are found, except what the web says too.
PrivateWords ==
  LET local == {x \in CandidatesOf(deployment) : x.source_kind = "local_document"}
  IN  WordsFound(local) \ WordsFound(CandidatesOf(deployment) \ local)

SentWords(package) ==
  UNION {Words(package.context_text[i].content) : i \in DOMAIN package.context_text}

\* Nothing goes to a hosted provider without consent, and the words of a local document need
\* consent of their own, however the package came about: whoever prepared it, whether it was
\* compressed, and whatever the registry was called.  Through the API and the MCP server both
\* the client and the settings consent (service.py answer; api/routes/litebridge.py;
\* mcp_server/litebridge_tools.py).
EvidenceStaysPrivate ==
  \A c \in Callers :
    (/\ pc[c] = "generate"
     /\ \E p \in ProvidersNamed(deployment.providers, Asked(c).provider_id) : p.location = "hosted")
    => LET consents == {Asked(c)} \cup (IF OnEventLoop THEN {deployment.settings} ELSE {})
       IN  /\ \A by \in consents : by.allow_external_generation
           /\ SentWords(work[c].package) \cap PrivateWords # {}
                => \A by \in consents : by.allow_private_evidence_export

\* What was searched for a package is what the package says was spent, and no more than its
\* caller allowed; and no query left for the web without the consent of the client and, in a
\* server, of the settings (planner.py, budget.py and service.py prepare_context; the cache
\* of adapters/web_retriever.py makes searches free).
BudgetIsTrue ==
  \A c \in Callers :
    /\ work[c].searches > 0 =>
         LET policy == RetrievalPolicyOf(c)
         IN  /\ policy.execution_profile = "hybrid" /\ policy.web.allow_external_query
             /\ OnEventLoop => deployment.settings.allow_external_retrieval
    /\ pc[c] = "put" /\ Asked(c).op = "prepare" =>
         LET package == work[c].package
             budget == package.effective_policy.budget
             cost == package.budget_used.estimated_external_cost_microusd
         IN  /\ package.web_calls = work[c].searches
             /\ cost = (IF work[c].searches = 0 THEN 0
                        ELSE SourceFor(c).estimated_external_cost_microusd)
             /\ cost <= budget.max_estimated_external_cost_microusd
             /\ package.web_calls <= budget.max_web_calls
             /\ package.retrieval_calls <= budget.max_retrieval_calls

(***************************************************************************)
(* Packages                                                                 *)
(***************************************************************************)

\* A package keeps the limits of the request it is for, though its candidates may come from
\* the cache entry of a request with other limits (the key of adapters/web_cache.py leaves
\* max_evidence_items out) and though compression joins sentences anew; one that is called a
\* success has everything that was found (context_builder.py build_context_package;
\* compressor.py).
PackagesKeepLimits ==
  \A c \in Callers : pc[c] = "put" =>
    LET package == work[c].package
        limits == IF Asked(c).op = "prepare" THEN RetrievalPolicyOf(c)
                  ELSE work[c].parent.effective_policy
    IN  /\ package.effective_policy = limits
        /\ Len(package.evidence) <= limits.max_evidence_items
        /\ ContextChars(package.evidence) <= limits.max_context_chars
        /\ EstimateTokens(ContextChars(package.evidence)) <= limits.max_estimated_tokens
        /\ package.stop_reason = "success" /\ Asked(c).op = "prepare" =>
             /\ Len(package.evidence) = Len(work[c].batch.candidates)
             /\ package.budget_used.wall_clock_ms <= limits.budget.max_wall_clock_ms

\* The clauses of a compressed excerpt are clauses of the original, in their order.
IsExtract(excerpt, original) ==
  \E kept \in SUBSET DOMAIN original :
    LET order == InOrder(kept)
    IN  /\ Len(order) = Len(excerpt)
        /\ \A k \in DOMAIN order : excerpt[k].words = original[order[k]].words

\* A compressed package says nothing its parent does not: a label still stands for the same
\* evidence, an excerpt is an extract, a label in the text has its evidence, and evidence
\* that is gone was a copy of one that stays or came after all that stay; and what it says
\* of its target is so (compressor.py, quality_controls.py).
CompressionIsFaithful ==
  \A c \in Callers : pc[c] = "put" /\ Asked(c).op = "compress" =>
    LET parent == work[c].parent
        package == work[c].package
        From(r) == {o \in ToSet(parent.evidence) : o.citation_id = r.citation_id}
        gone == {o \in ToSet(parent.evidence) :
                   o.citation_id \notin CitationNumbers(package)}
    IN  /\ \A r \in ToSet(package.evidence) : \E o \in From(r) :
             /\ r.evidence_id = o.evidence_id /\ r.source_kind = o.source_kind
             /\ IsExtract(r.excerpt, o.excerpt)
             /\ BlockMentions(r) \subseteq CitationNumbers(package)
        /\ \A o \in gone :
             \/ \E r \in ToSet(package.evidence) : \A original \in From(r) :
                  original.excerpt = o.excerpt /\ original.document_id = o.document_id
             \/ \A r \in ToSet(package.evidence) : r.citation_id < o.citation_id
        /\ gone # {} => Asked(c).policy.allow_evidence_drop
        /\ package.compression_report.outcome = "reduced"
             => WithinCeilings(package.context_chars, Asked(c).policy)

\* DECISIONS.md:324 says that quality_controls.py and compressor.py share one parser and so
\* never disagree on boundaries: what is extracted is recognised as an extract.
ParsersAgree ==
  \A c \in Callers : pc[c] = "compress" =>
    \A o \in ToSet(work[c].package.evidence) :
      OrderedConcatenation(o.excerpt, ExtractedExcerpt(o.excerpt, Asked(c).policy))

(***************************************************************************)
(* Handles                                                                  *)
(***************************************************************************)

\* The handles that the store in use knows are the table of handles LiteBridge promises.
Table ==
  INSTANCE HandleTable WITH
    bound <- [h \in DOMAIN issued |-> issued[h].package],
    usable <- IF app.store = 0 THEN <<>>
              ELSE [h \in DOMAIN stores[app.store] |-> stores[app.store][h].package]

\* However requests interleave, and though two first requests may each build a store, a handle
\* gives the package it was issued for, a full store keeps its size, and what was forgotten
\* does not come back (bridge/package_store.py; api/routes/litebridge.py _get_package_store).
HandlesKeepPromise == Table!Spec

\* The entries for which a full store gives up that of handle h: those stored later or made
\* no earlier.
MakeRoom(h) ==
  {k \in DOMAIN issued :
     /\ k # h /\ issued[k].store = issued[h].store
     /\ k > h \/ issued[k].created_at >= issued[h].created_at}

\* A request that finds no package under a handle that was issued comes after its time, or
\* after enough other packages to fill the store, or it holds a store other than the one that
\* issued the handle; one that finds a package is in time (bridge/package_store.py put, get).
HandlesAreFound ==
  [][\A c \in Callers : LET h == work[c].handle IN
       /\ pc[c] = "look_up" /\ pc'[c] = "idle" /\ work'[c].outcome # "ok" /\ h # 0 =>
            \/ clock > issued[h].created_at + PackageTtl
            \/ Cardinality(MakeRoom(h)) >= MaxEntries
            \/ issued[h].store # work[c].store
       /\ pc[c] = "look_up" /\ (pc'[c] # pc[c] /\ (pc'[c] = "idle" => work'[c].outcome = "ok")) =>
            work[c].now <= issued[h].created_at + PackageTtl]_vars
=============================================================================
