------------------------------ MODULE LiteBridge ------------------------------
(***************************************************************************)
(* LiteBridge in use: callers prepare packages, compress them and have them *)
(* answered, through the HTTP API, through the MCP server or as threads of  *)
(* an application that embeds the SDK.  They share the package store with   *)
(* its handles and the cache of web results.  The endpoints of the API are  *)
(* coroutines that never await, and the tools of the MCP server run on the  *)
(* event loop, so that from its first line on a request there excludes the  *)
(* others; what its dependencies create runs in the thread pool and does    *)
(* not.  Threads interleave at every lock and every call.                   *)
(*                                                                          *)
(* Handles are numbered in the order in which they are issued.  The text of *)
(* what is searched and generated is the choice of the configuration.       *)
(***************************************************************************)
EXTENDS BridgeService

CONSTANTS
  Callers, NoCaller,
  Configurations,      \* what a deployment consists of, and what its callers may ask for
  MaxEntries,          \* settings: package_max_entries
  PackageTtl,          \* settings: package_ttl_seconds, in ticks of the clock
  CacheEntries,        \* settings: web_cache_max_entries
  CacheTtl             \* settings: web_cache_ttl_seconds, in ticks of the clock

Operations == {"prepare", "get", "compress", "answer"}

\* Every candidate that a search of a deployment may find.
CandidatesOf(d) ==
  (UNION {ToSet(ranked) : ranked \in d.local_results})
    \cup {hit.candidate : hit \in UNION {ToSet(results) : results \in d.web_results}}

\* A deployment registers sources the contracts accept, serves requests of the four
\* operations and finds lists of texts; the requests each caller makes and the ticks of the
\* clock are bounded.
DeploymentIsPossible(d) ==
  /\ d.kind \in {"sdk", "api", "mcp"}
  /\ d.requests_each \in Nat /\ d.ticks \in Nat
  /\ \A r \in d.requests : r.op \in Operations
  /\ d.registry.descriptors \in Seq(ToSet(d.registry.descriptors))
  /\ \A s \in ToSet(d.registry.descriptors) : DescriptorIsSound(s)
  /\ \A list \in d.local_results \cup d.web_results : list \in Seq(ToSet(list))
  /\ \A x \in CandidatesOf(d) : IsText(x.text) /\ x.frame_chars \in Nat
  /\ d.elapsed \subseteq Nat
  /\ d.settings.web_max_results \in 1..5

\* Both stores refuse other settings.
ASSUME LiteBridgeAssumption ==
  /\ NoCaller \notin Callers
  /\ MaxEntries \in Nat \ {0} /\ PackageTtl \in Nat \ {0}
  /\ CacheEntries \in Nat \ {0} /\ CacheTtl \in Nat \ {0}
  /\ \A d \in Configurations : DeploymentIsPossible(d)

VARIABLES
  deployment,   \* a member of Configurations
  clock,        \* time.time()
  loop,         \* the caller whose request the event loop runs
  app,          \* app.state: the SDK and the store in use, 0 while there is none
  caches,       \* for each SDK built, its web cache
  stores,       \* for each store built, its entries by handle
  issued,       \* handle -> the package it was issued for, when and by which store
  pc,           \* what a caller does
  left,         \* requests a caller still makes
  work          \* the request of a caller and what its handler holds

vars == <<deployment, clock, loop, app, caches, stores, issued, pc, left, work>>

NoPackage == [none |-> TRUE]
NoWork ==
  [request |-> [op |-> "none"], handle |-> 0, sdk |-> 0, store |-> 0, now |-> 0,
   decision |-> Blocked("retrieval_budget_exhausted"), batch |-> RetrievalBatch(<<>>, 0),
   parent |-> NoPackage, package |-> NoPackage, searches |-> 0, outcome |-> "none"]

OnEventLoop == deployment.kind \in {"api", "mcp"}

Init ==
  /\ deployment \in Configurations
  /\ clock = 0
  /\ loop = NoCaller
  /\ IF deployment.kind = "api"
     THEN app = [sdk |-> 0, store |-> 0] /\ caches = <<>> /\ stores = <<>>
     ELSE app = [sdk |-> 1, store |-> 1] /\ caches = << <<>> >> /\ stores = << <<>> >>
  /\ issued = <<>>
  /\ pc = [c \in Callers |-> "idle"]
  /\ left = [c \in Callers |-> IF c \in deployment.callers THEN deployment.requests_each ELSE 0]
  /\ work = [c \in Callers |-> NoWork]

(***************************************************************************)
(* Requests                                                                 *)
(***************************************************************************)

Working(c, at) == pc[c] = at
Goes(c, to) == pc' = [pc EXCEPT ![c] = to]
Holds(c, held) == work' = [work EXCEPT ![c] = held]

\* A request ends, with a result or with an error.
Ends(c, outcome) ==
  /\ Goes(c, "idle")
  /\ Holds(c, [NoWork EXCEPT !.outcome = outcome])
  /\ loop' = IF loop = c THEN NoCaller ELSE loop

Fails(c, error) == Ends(c, Response(deployment.kind, error))

\* A caller knows the handles that were issued; 0 stands for one that never was.
Accept(c) ==
  /\ Working(c, "idle") /\ left[c] > 0
  /\ left' = [left EXCEPT ![c] = @ - 1]
  /\ \E r \in deployment.requests :
     \E h \in IF r.op = "prepare" THEN {0} ELSE 0..Len(issued) :
       /\ Holds(c, [NoWork EXCEPT !.request = r, !.handle = h, !.sdk = app.sdk,
                                  !.store = app.store])
       /\ Goes(c, IF deployment.kind = "sdk" THEN "handle"
                  ELSE IF deployment.kind = "api" /\ r.op # "get" THEN "needs_sdk"
                  ELSE IF deployment.kind = "api" THEN "needs_store"
                  ELSE "ready")
  /\ UNCHANGED <<deployment, clock, loop, app, caches, stores, issued>>

\* _get_sdk and _get_package_store look at app.state first ...
NeedsSdk(c) ==
  /\ Working(c, "needs_sdk")
  /\ Holds(c, [work[c] EXCEPT !.sdk = app.sdk])
  /\ Goes(c, IF app.sdk = 0 THEN "builds_sdk" ELSE "needs_store")
  /\ UNCHANGED <<deployment, clock, loop, app, caches, stores, issued, left>>

\* ... and what is missing they build, whoever else is building it.
BuildsSdk(c) ==
  /\ Working(c, "builds_sdk")
  /\ IF BuildError(deployment.settings) # "none"
     THEN Fails(c, BuildError(deployment.settings)) /\ UNCHANGED <<app, caches>>
     ELSE /\ caches' = Append(caches, <<>>)
          /\ app' = [app EXCEPT !.sdk = Len(caches')]
          /\ Holds(c, [work[c] EXCEPT !.sdk = Len(caches')])
          /\ Goes(c, "needs_store")
          /\ UNCHANGED loop
  /\ UNCHANGED <<deployment, clock, stores, issued, left>>

NeedsStore(c) ==
  /\ Working(c, "needs_store")
  /\ Holds(c, [work[c] EXCEPT !.store = app.store])
  /\ Goes(c, IF app.store = 0 THEN "builds_store" ELSE "ready")
  /\ UNCHANGED <<deployment, clock, loop, app, caches, stores, issued, left>>

BuildsStore(c) ==
  /\ Working(c, "builds_store")
  /\ stores' = Append(stores, <<>>)
  /\ app' = [app EXCEPT !.store = Len(stores')]
  /\ Holds(c, [work[c] EXCEPT !.store = Len(stores')])
  /\ Goes(c, "ready")
  /\ UNCHANGED <<deployment, clock, loop, caches, issued, left>>

\* The event loop turns to a request.
Starts(c) ==
  /\ Working(c, "ready") /\ loop = NoCaller
  /\ loop' = c
  /\ Goes(c, "handle")
  /\ UNCHANGED <<deployment, clock, app, caches, stores, issued, left, work>>

(***************************************************************************)
(* prepare_context                                                          *)
(***************************************************************************)

Asked(c) == work[c].request
RetrievalPolicyOf(c) == IF OnEventLoop THEN FrontEndPolicy(Asked(c)) ELSE Asked(c).policy

\* What ends the request before anything is planned; "none" when nothing does.
RefusalOf(c) ==
  IF OnEventLoop /\ RetrievalForbidden(Asked(c), deployment.settings) THEN "forbidden"
  ELSE IF RetrievalPolicyOf(c) \notin RetrievalPolicy THEN "internal_error"
  ELSE PrepareError(Asked(c).query, RetrievalPolicyOf(c), Asked(c).source, deployment.registry)

DecisionFor(c) ==
  CheckedDecision(Asked(c).query, RetrievalPolicyOf(c), Asked(c).source, deployment.registry)
SourceFor(c) == ResolvedSource(work[c].decision, deployment.registry)

Handles(c, op) == Working(c, "handle") /\ Asked(c).op = op

PrepareRefused(c) ==
  /\ Handles(c, "prepare") /\ RefusalOf(c) # "none"
  /\ Fails(c, RefusalOf(c))
  /\ UNCHANGED <<deployment, clock, app, caches, stores, issued, left>>

\* A query that no source may be asked is answered with an empty package.
PrepareBlocked(c) ==
  /\ Handles(c, "prepare") /\ RefusalOf(c) = "none" /\ DecisionFor(c).route = "blocked"
  /\ Holds(c, [work[c] EXCEPT
                 !.now = clock, !.decision = DecisionFor(c),
                 !.package = BuildBlockedContextPackage(RetrievalPolicyOf(c), DecisionFor(c))])
  /\ Goes(c, "put")
  /\ UNCHANGED <<deployment, clock, loop, app, caches, stores, issued, left>>

PrepareRetrieves(c) ==
  /\ Handles(c, "prepare") /\ RefusalOf(c) = "none" /\ DecisionFor(c).route # "blocked"
  /\ LET d == ResolvedSource(DecisionFor(c), deployment.registry)
         error == ConsentError(RetrievalPolicyOf(c), d)
     IN  IF error # "none" THEN Fails(c, error)
         ELSE /\ Holds(c, [work[c] EXCEPT !.decision = DecisionFor(c)])
              /\ Goes(c, IF d.source_kind = "web_search_snippet" THEN "cache" ELSE "search_local")
              /\ UNCHANGED loop
  /\ UNCHANGED <<deployment, clock, app, caches, stores, issued, left>>

Receives(c, batch, to) == Holds(c, [work[c] EXCEPT !.batch = batch]) /\ Goes(c, to)

\* A retriever an application brings returns what it likes.
SearchesLocally(c) ==
  /\ Working(c, "search_local")
  /\ \/ \E error \in LocalFailures : Fails(c, error)
     \/ \E ranked \in deployment.local_results :
          LET found == IF deployment.own_retriever THEN Answer(ranked)
                       ELSE LocalRetrieve(Asked(c).query, RetrievalPolicyOf(c), ranked)
          IN  IF found.error # "none" THEN Fails(c, found.error)
              ELSE Receives(c, RetrievalBatch(found.candidates, 0), "build") /\ UNCHANGED loop
  /\ UNCHANGED <<deployment, clock, app, caches, stores, issued, left>>

KeyOf(c) == CacheKey(SourceFor(c).source_id, Asked(c).query, RetrievalPolicyOf(c).web)
CacheOf(c) == caches[work[c].sdk]

\* A cached result costs no call of the provider; without one the provider is called,
\* unless no call is allowed.
LooksInCache(c) ==
  /\ Working(c, "cache")
  /\ caches' = [caches EXCEPT ![work[c].sdk] = CacheAfterGet(@, KeyOf(c), clock)]
  /\ IF CacheHit(CacheOf(c), KeyOf(c), clock)
     THEN Receives(c, RetrievalBatch(
                        CacheOf(c)[Position(CacheOf(c), KeyOf(c))].candidates, 0), "build")
     ELSE IF RetrievalPolicyOf(c).budget.max_web_calls = 0
     THEN Receives(c, RetrievalBatch(<<>>, 0), "build")
     ELSE Goes(c, "search_web") /\ UNCHANGED work
  /\ UNCHANGED <<deployment, clock, loop, app, stores, issued, left>>

ResultsFor(c) == EffectiveResults(RetrievalPolicyOf(c), deployment.settings.web_max_results)

\* One call of the provider.  A result without hits is not cached, a bad hit fails it all.
SearchesWeb(c) ==
  /\ Working(c, "search_web")
  /\ \/ \E error \in SearchFailures : Fails(c, error)
     \/ \E results \in deployment.web_results :
          LET hits == TavilySearch(results, ResultsFor(c))
              found == WebCandidates(hits)
          IN  IF found.error # "none" THEN Fails(c, found.error)
              ELSE /\ Holds(c, [work[c] EXCEPT !.batch = RetrievalBatch(found.candidates, 1),
                                               !.searches = @ + 1, !.now = clock])
                   /\ Goes(c, IF hits = <<>> THEN "build" ELSE "fill_cache")
                   /\ UNCHANGED loop
  /\ UNCHANGED <<deployment, clock, app, caches, stores, issued, left>>

\* The cache is filled under its lock, for a lifetime that began before it.
FillsCache(c) ==
  /\ Working(c, "fill_cache")
  /\ caches' = [caches EXCEPT ![work[c].sdk] =
       CacheAfterPut(@, KeyOf(c), work[c].batch.candidates, work[c].now + CacheTtl, CacheEntries)]
  /\ Goes(c, "build")
  /\ UNCHANGED <<deployment, clock, loop, app, stores, issued, left, work>>

\* The package is built, and the store's put reads the clock.
Builds(c) ==
  /\ Working(c, "build")
  /\ IF ~CandidatesPermitted(work[c].batch.candidates, RetrievalPolicyOf(c), SourceFor(c),
                             deployment.registry)
     THEN Fails(c, "retrieval_error")
     ELSE /\ \E records \in {SelectRecords(work[c].batch.candidates, RetrievalPolicyOf(c))},
                elapsed \in deployment.elapsed :
               Holds(c, [work[c] EXCEPT !.now = clock, !.package =
                 PreparedPackage(RetrievalPolicyOf(c), work[c].batch, records, work[c].decision,
                                 elapsed, SourceFor(c))])
          /\ Goes(c, "put")
          /\ UNCHANGED loop
  /\ UNCHANGED <<deployment, clock, app, caches, stores, issued, left>>

(***************************************************************************)
(* The package store                                                        *)
(***************************************************************************)

Entries(s) == DOMAIN stores[s]
Unexpired(s, now) == {h \in Entries(s) : now <= stores[s][h].expires_at}

\* Mutated: the youngest entry makes room.
OldestFirstReversed(s, kept, evicted) ==
  \A h \in evicted, k \in kept : stores[s][k].created_at <= stores[s][h].created_at

\* Of two entries of the same time the one stored first is the older.
OldestFirst(s, kept, evicted) ==
  \A h \in evicted, k \in kept :
    \/ stores[s][h].created_at < stores[s][k].created_at
    \/ stores[s][h].created_at = stores[s][k].created_at /\ h < k

\* Mutated: one entry too many stays.
KeptOneMore(s, now, kept) ==
  /\ kept \subseteq Unexpired(s, now)
  /\ Cardinality(kept) <= MaxEntries
  /\ kept # Unexpired(s, now) => Cardinality(kept) = MaxEntries
  /\ OldestFirst(s, kept, Unexpired(s, now) \ kept)

\* What a full store keeps, so that one more entry fits.
Kept(s, now, kept) ==
  /\ kept \subseteq Unexpired(s, now)
  /\ Cardinality(kept) < MaxEntries
  /\ kept # Unexpired(s, now) => Cardinality(kept) = MaxEntries - 1
  /\ OldestFirst(s, kept, Unexpired(s, now) \ kept)

\* put() under the lock: expired entries go, as of the time read before, then the oldest.
Puts(c) ==
  /\ Working(c, "put")
  /\ LET s == work[c].store
         h == Len(issued) + 1
         entry == [package |-> work[c].package, created_at |-> work[c].now,
                   expires_at |-> work[c].now + PackageTtl]
     IN  /\ \E kept \in SUBSET Entries(s) :
              /\ Kept(s, work[c].now, kept)
              /\ stores' = [stores EXCEPT ![s] =
                              [k \in kept \cup {h} |-> IF k = h THEN entry ELSE stores[s][k]]]
         /\ issued' = Append(issued, [package |-> work[c].package, created_at |-> work[c].now,
                                      store |-> s])
  /\ Ends(c, "ok")
  /\ UNCHANGED <<deployment, clock, app, caches, left>>

\* get() reads the clock and then takes the lock.
ReadsClock(c) ==
  /\ \E op \in {"get", "compress", "answer"} : Handles(c, op)
  /\ Holds(c, [work[c] EXCEPT !.now = clock])
  /\ Goes(c, "look_up")
  /\ UNCHANGED <<deployment, clock, loop, app, caches, stores, issued, left>>

HandleOf(c) == work[c].handle
Found(c) ==
  /\ HandleOf(c) \in Entries(work[c].store)
  /\ work[c].now <= stores[work[c].store][HandleOf(c)].expires_at

\* An entry found too old is removed.
NotFound(c) ==
  /\ Working(c, "look_up") /\ ~Found(c)
  /\ stores' = [stores EXCEPT ![work[c].store] =
                  [h \in Entries(work[c].store) \ {HandleOf(c)} |-> stores[work[c].store][h]]]
  /\ Fails(c, "package_not_found")
  /\ UNCHANGED <<deployment, clock, app, caches, issued, left>>

LooksUp(c) ==
  /\ Working(c, "look_up") /\ Found(c)
  /\ LET package == stores[work[c].store][HandleOf(c)].package
     IN  IF Asked(c).op = "get" THEN Ends(c, "ok")
         ELSE /\ Holds(c, [work[c] EXCEPT !.package = package])
              /\ Goes(c, Asked(c).op)
              /\ UNCHANGED loop
  /\ UNCHANGED <<deployment, clock, app, caches, stores, issued, left>>

(***************************************************************************)
(* compress_context and answer                                              *)
(***************************************************************************)

Compresses(c) ==
  /\ Working(c, "compress")
  /\ \E compressed \in {CompressContextPackage(work[c].package, Asked(c).policy)} :
     LET parent == work[c].package
     IN  IF Asked(c).policy \in CompressionPolicy
            /\ QualityControlsPass(parent, compressed, Asked(c).policy)
         THEN /\ Holds(c, [work[c] EXCEPT !.parent = parent, !.package = compressed, !.now = clock])
              /\ Goes(c, "put")
              /\ UNCHANGED loop
         ELSE Fails(c, "validation_error")
  /\ UNCHANGED <<deployment, clock, app, caches, stores, issued, left>>

GenerationPolicyOf(c) == FrontEndGenerationPolicy(Asked(c))

AnswerRefusal(c) ==
  IF OnEventLoop /\ GenerationForbidden(Asked(c), work[c].package, deployment.providers,
                                        deployment.settings)
  THEN "forbidden"
  ELSE IF GenerationPolicyOf(c) \notin GenerationPolicy THEN "internal_error"
  ELSE "none"

AnswerOf(c) ==
  AnsweredWithoutProvider(work[c].package, GenerationPolicyOf(c), deployment.providers)

\* A request that is refused, or that is answered without a provider, ends here.
AnswersAlone(c) ==
  /\ Working(c, "answer")
  /\ \/ AnswerRefusal(c) # "none" /\ Fails(c, AnswerRefusal(c))
     \/ /\ AnswerRefusal(c) = "none"
        /\ \E answer \in AnswerOf(c) : Ends(c, answer.status)
  /\ UNCHANGED <<deployment, clock, app, caches, stores, issued, left>>

\* The context text leaves for the provider.
Asks(c) ==
  /\ Working(c, "answer") /\ AnswerRefusal(c) = "none" /\ AnswerOf(c) = {}
  /\ Goes(c, "generate")
  /\ UNCHANGED <<deployment, clock, loop, app, caches, stores, issued, left, work>>

\* The one call of the provider returns or fails.
Answers(c) ==
  /\ Working(c, "generate")
  /\ \E exchange \in Exchanges, response \in deployment.responses :
       Ends(c, AnswerAfter(GenerationPolicyOf(c), work[c].package,
                           Generate(Asked(c).provider_id, exchange), response).status)
  /\ UNCHANGED <<deployment, clock, app, caches, stores, issued, left>>

\* The bound on the ticks of the clock is the configuration's.
Tick ==
  /\ clock < deployment.ticks
  /\ clock' = clock + 1
  /\ UNCHANGED <<deployment, loop, app, caches, stores, issued, pc, left, work>>

(***************************************************************************)
(* Specification                                                            *)
(***************************************************************************)

\* What a request does once it was made.
Handler(c) ==
  \/ NeedsSdk(c) \/ BuildsSdk(c) \/ NeedsStore(c) \/ BuildsStore(c) \/ Starts(c)
  \/ PrepareRefused(c) \/ PrepareBlocked(c) \/ PrepareRetrieves(c)
  \/ SearchesLocally(c) \/ LooksInCache(c) \/ SearchesWeb(c) \/ FillsCache(c) \/ Builds(c)
  \/ Puts(c) \/ ReadsClock(c) \/ NotFound(c) \/ LooksUp(c)
  \/ Compresses(c) \/ AnswersAlone(c) \/ Asks(c) \/ Answers(c)

\* Nobody makes another request, and none is being served.
Rest ==
  /\ \A c \in Callers : pc[c] = "idle" /\ left[c] = 0
  /\ UNCHANGED vars

Next == Tick \/ Rest \/ \E c \in Callers : Accept(c) \/ Handler(c)

Spec == Init /\ [][Next]_vars
=============================================================================
