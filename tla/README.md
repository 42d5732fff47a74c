# EvidenceOps: TLA+ models, checks and proofs

EvidenceOps answers questions from a local corpus: a bounded LangGraph workflow decides how to
retrieve, refines the query when the evidence is thin, drafts an answer whose citations it
verifies, or abstains with a reason. A FastAPI service runs queries and benchmark evaluations
for HTTP clients. LiteBridge packages evidence for other assistants. Paths below are relative to
`src/evidenceops/` unless they name another directory.

## 1. The system

| Part | State it keeps | Operations | Talks to |
|---|---|---|---|
| Query workflow (`graph/`, `domain/state.py`) | one `EvidenceOpsState` per run: budgets, attempts, evidence, verdict | the eleven nodes of `graph/workflow.py`, validated on both sides | a controller, retrievers, reranker, reformulator, generator (injected) |
| Controllers (`controller/`) | none | `decide(state)` | read by `controller_decide_node` |
| Evidence (`evidence/`) | none | adapt, pack, score, detect conflicts, cite | called by the nodes |
| API coordinator (`api/service.py`, `api/routes/`) | work lock, run history, job registry, metrics | `POST /query`, `POST /eval/run`, polls, `GET /metrics` | the workflow, on a worker thread; the benchmark runner, on a daemon thread |
| Retrieval (`retrieval/`, `cli/retrieval.py`) | the snapshot file of the BM25 index, the points of a Qdrant collection, what a process has loaded | index, open, search, fuse, rerank | the artifacts of ingestion, Qdrant, Ollama embeddings |
| Ingestion (`ingestion/`) | files: one artifact per document, one manifest per run | load, chunk, write | the file system |
| LiteBridge (`bridge/`) | registries of sources and providers; packages are values | prepare, compress, answer | local and web retrievers, generation providers |
| Package store (`bridge/package_store.py`) | packages by opaque handle, with the time they were made | put, get, purge | LiteBridge's callers |
| Web cache (`bridge/adapters/web_cache.py`) | results by query and policy, with their time | get, set | the web retriever |
| LiteBridge front ends (`api/routes/litebridge.py`, `mcp_server/`) | the SDK and the store, built on first use | the LiteBridge operations over HTTP and MCP | LiteBridge, the package store |
| Generation adapters, tracing, CLI, evaluation | none that outlives a call, or files written once | | external services |

What is hard in it:

* **The workflow** has two cycles (refine and retrieve again; draft again after failed citations)
  and one shared fallback, bounded by four counters kept in four places. Nodes abstain by calling
  another node as a function and then still walk along their edge. Whatever a controller decides,
  the nodes have to re-check it.
* **The API** takes its lock on the event loop and releases it on worker threads, while clients
  disconnect, threads fail to start and queries raise; job state is spread over two locks.
* **Stores** (artifacts, manifests, packages, web cache) check and then act, or read the clock
  before they take their lock.
* **LiteBridge** spreads one promise over many places: whether evidence may leave the machine is
  decided in the route, in `answer` and by a descriptor; a package is checked when it is built, when
  it is compressed and by controls that parse the compressed text again; first requests build what
  they share on whichever thread comes first.
* **Indexes** are built from files that another command replaces, by runs that may overlap or crash,
  and are read by processes that opened them earlier.

`PROJECT.json` lists every component with its status, and under `hazards` each place where this
can go wrong with the property that would notice.

What makes each part correct:

| Part | Properties |
|---|---|
| Query workflow | bounded work, no internal failure, no repeated attempt, answers only from accepted evidence, conflicts never forgotten, an abstention is final, every run is answered |
| API coordinator | one piece of work at a time, lock held exactly then, every admitted query accounted and answered, registry keeps its bound and its promise to pollers, every job gets an outcome |
| Ingestion | an existing artifact or manifest is replaced only when asked to, a manifest describes what is on disk |
| Retrieval | what completed is indexed, a run can be repeated, what a search returns can be cited, a merged ranking agrees with its routes |
| LiteBridge | nothing leaves the machine without consent, what is spent is what is reported and allowed, packages keep their limits, a compression says nothing its parent does not |
| Package store, web cache | bounded, nothing expired is served, a handle stands for one package for life and is lost only for a reason |

## 2. The modules

```
BoundedRun ------ refined by ------ QueryWorkflow --- EXTENDS --- RetrievalControllers
                                        |
                        QueryWorkflowInvariant --- MCQueryWorkflow               (TLC)
                        QueryWorkflow_proofs, QueryWorkflowSafety_proofs         (TLAPS)

EvaluationJobs -- refined by ------ ApiService ------ MCApiService               (TLC)
                                        |
                ApiService_proofs <- ApiQueries_proofs                           (TLAPS)

WriteOnceFiles -- refined by ------ Ingestion ------- MCIngestion                (TLC)
                                        |
                                    Ingestion_proofs                             (TLAPS)

                                    TextChunker ----- MCTextChunker              (TLC)
                                        |
                                    TextChunker_proofs                           (TLAPS)

RankFusion <----------------------- DocumentIndex --- MCDocumentIndex            (TLC)
                                        |
                                    DocumentIndex_proofs                         (TLAPS)

BridgeContracts <- BridgePlanner <- BridgeAdapters <-+
       ^                                             |
ContextBuilder <-- Compressor <-----------------  BridgeService
                                                     ^
HandleTable ------ refined by ------------------ LiteBridge
                                                     |
                                LiteBridgeProperties --- MCLiteBridge            (TLC)
                                LiteBridge_proofs                                (TLAPS)
```

**RetrievalControllers** translates `controller/heuristic.py` and `controller/learned.py` into
functions of a read-only view of the state. The heuristic policy is deterministic; the learned
one may return the heuristic's decision (no model, low confidence, exception) or any label the
oracle can teach; `custom` is any object with a `decide` method.

**QueryWorkflow** is one run. `pc` is the node LangGraph executes next, `steps` its recursion
counter, and every node of `graph/nodes.py` is one action that includes the conditional edge
behind it (`graph/routing.py`) and the validation of the resulting state
(`EvidenceOpsState.validate_bounds_and_invariants`): `Leave` ends the run with `invalid_state` or
`recursion_guard` as `graph/service.py` does. The variables carry the names of the state's fields.
Chunks, queries and citation numbers are identifiers; an answer is the set of citation numbers it
contains, with 0 for a malformed token. The outside world is a choice: which chunks a search
returns or whether it raises, what reranking and packing keep, on which side of the threshold the
score falls, what is proposed, what is cited, whether the generator times out.

**BoundedRun** is the promise to the caller of `QueryService.execute_query`: at most `limit`
searches, none after the first draft, at most two drafts, one final response, and completion only
with a draft. `QueryWorkflow!KeepsPromise` is the refinement.

**QueryWorkflowInvariant** is an inductive strengthening: where the run is, and what this implies
for evidence, verdict, attempts and the number of nodes executed.

**ApiService** models the threads that meet in `api/service.py`. Each section under one lock is one
step. `POST /v1/query` runs on the event loop up to its first `await` (`PostQuery`); the worker
(`ExecuteQuery`, `Record`, `ReleaseQuery`) goes on when the client leaves (`Disconnect`), as
`asyncio.shield` makes it do. `POST /v1/eval/run` never awaits, so `handler` keeps the event loop
to itself while worker threads run between its steps; the daemon thread is `BeginJob`, `FinishJob`,
`ReleaseJob`. `GET /v1/metrics` only reads and is left out. `query_semaphore` is created and tested
but never acquired, so its test is always false and is left out.

**EvaluationJobs** is what a polling client relies on: one active job, queued to running to one
final outcome, and only finished jobs are ever forgotten.

**Ingestion** models invocations of `evidenceops-ingest` as processes over one directory of
artifacts and one of manifests, while a user saves the sources. A step is what happens between two
looks at the disk: `Stat` and `Read` (`ingestion/loaders.py` takes the time before the bytes),
`StatFails` for a source that is gone or too large (one that is no text fails in `Read`),
`CheckArtifact` and `ReplaceArtifact` (`ingestion/artifacts.py`), `CheckManifest`, `RecheckManifest`
and `WriteManifest` (`ingestion/manifest.py` looks twice before it renames). `SourceFails` is the
`except IngestionError` of `ingestion/pipeline.py`: the run goes on with the next source. `Crash` is
possible at every step. Writing, synchronising and removing the temporary file is part of the rename,
because no reader looks at such files. A document is its source, its text and its time of
modification; identifiers are pairs of source and text, as in `document_id`.

**WriteOnceFiles** is the promise of both stores: a file keeps the contents it was written with.

**TextChunker** is the loop of `ingestion/text_chunker.py`. Segments are numbered, and of each the
number of words of the text up to its end is kept. A chunk is an interval of segments, because what a
chunk takes over is the end of the one before. The text still to come is open, so `MaxSegments` bounds
the instances of TLC and nothing else.

**DocumentIndex** has three kinds of processes over the artifacts, the snapshot file and the Qdrant
collection: `evidenceops-index` (its sparse part, its dense part, or one after the other), a service
that opened the snapshot once and searches many times, and `evidenceops-search`, which opens it and
searches once. Ingestion is the environment: `Ingest` stores an artifact and, with `Overwriting`,
replaces one by another chunking of the document. A step is what lies between two looks at the disk
or two calls of Qdrant: listing, each artifact, the look for a snapshot and its rename, the two steps
of `ensure_collection`, each batch of points. `Crash` is possible at each. Qdrant and the
embedding model are external, described by what `retrieval/qdrant_store.py` and `retrieval/dense.py`
make of their answers.

**RankFusion** is `hybrid.py` and the reranker's order: reciprocal ranks as exact fractions where the
code adds floats, ties broken as the code breaks them.

**LiteBridge** is the composition. A caller's request goes through the steps of its front end (HTTP
route, MCP tool, or a thread of an embedding application), takes the event loop where there is one,
and then walks through `prepare_context`, `compress_context` or `answer`; it stops at every lock and
every call of the outside world, where other threads may run. The modules below it are pure
decisions: **BridgeContracts** the records and the consistency their validators enforce,
**BridgePlanner** the planner, the source registry and the budget guard, **BridgeAdapters** what each
adapter makes of every outcome of its one call, **ContextBuilder** selection, rendering and the token
estimate, **Compressor** the sentence parser, the extraction and the quality controls, and
**BridgeService** the refusals and gates of the facade and the front ends. A text is a sequence of
clauses with a length, the number of words it shares with the query, and the marks the parser looks
at; this is enough to tell the parser's boundaries apart, which the controls depend on. Of a block's
frame (source, title, section, address) the length and the labels `[Cn]` in it are kept, because the
controls scan the whole rendered text for labels.
**LiteBridgeProperties** says what callers are owed. **HandleTable** is what a handle promises: it is
issued for one package, stands for it for life, and once forgotten is never found again.

## 3. The runs

| Run | Instance | Shows |
|---|---|---|
| `workflow` | heuristic: all nine pairs of limits, thresholds 0.60 and 0.90, five deployments; learned: limits 2 and 3, every collaborator; custom: limits 2 and 2, sparse and hybrid routes; 3 chunks of which 2 contradict, 3 query texts | every property of the workflow under the default controller, under a model that predicts anything it was taught, and under any controller at all |
| `workflow_ssot` | largest limits | expected violation, see section 6 |
| `api` | 2 queries, 2 evaluations, history and registry of 1 | accounting and answering of queries; the registry, its counters and its promise |
| `ingest_sequential` | 1 source, 2 texts, 3 runs in turn of which two share an identifier, 2 edits | no file is replaced unless asked for, an exit code tells the truth about the manifest |
| `ingest_overlapping` | 2 sources, 2 runs at once, one overwriting, 1 edit | manifests describe the disk, crashes cause no conflicts, runs end |
| `ingest_shared_id`, `ingest_touched` | 1 source, 2 runs | expected violations, see section 6 |
| `text_chunks` | every text of up to 6 segments of 1, 3, 6 or 10 words for a target of 10, a maximum of 12 and an overlap of 2 | nothing is lost, overlaps, bound of a chunk |
| `text_chunks_fit` | the same | expected violation, see section 6 |
| `index` | 2 documents with 2 chunkings each, 2 indexing runs or one beside a searcher, batches of 2, top 2, 2 writes that may overwrite | what completed is indexed, runs can be repeated, results can be cited, fusion agrees with its routes |
| `bridge` | eight families of deployments, each asking one question (below) | consent, budgets, limits, compression, handles |
| `bridge_reparse` | the compression family | expected violation, see section 6 |

Bounds. `Queries` has three texts: the refinement that reaches `max_iterations` abstains, so two
new texts are all that can lead to a further search with the largest limit of 3. Three chunks with
one contradicting pair give searches with, without and with half of a contradiction, empty and
unchanged results. `top_k_context = 1` makes packing drop evidence. The learned and custom policies
get fewer limits because they branch at every decision; two routes and one refinement are enough for
a custom controller to repeat, skip or contradict everything the nodes guard. `HistoryLimit
= 1` makes every registration after the first, and every second run, meet a full store.
Two of each kind, each sent once, suffice for a race between two of a kind or of both.

In ingestion a conflict needs one artifact and one later run, a shared manifest two runs; three
sequential runs add a crash between. The second source matters only to a run that fails on one of
two. The chunker's numbers are its defaults 500, 600 and 60 in fiftieths, rounded up for the overlap,
so that a segment may be shorter than an overlap, longer, near the target and at its limit of 10; six
segments close several chunks in every order of the two ways to close one.

In `index`, two documents in either chunking fill one batch, overflow it or fill it exactly; two
writes store both, or store one and replace it. The indexers are symmetric. Searchers of both kinds
search by each method with and without a filter. The families of `bridge` are: *Planning* (every
query cue, policy and named source over six registries, with two web results allowed by the settings),
*Compressing* (copies, lists, paragraphs, cross references and a title that looks like a label,
against every combination of ceilings), *Answering* and *AnsweringDirectly*
(every consent of client and settings, every provider and every answer, over HTTP, MCP and embedded),
*Misconfigured* (servers that cannot be built), *Starting* (two first requests that both build),
*Storing* (two threads, a store of two packages, a clock that passes the expiry) and *Caching* (two
threads, a cache of one entry, requests with different limits). One caller is enough where nothing is
shared; the last three have two, because a race on a store or a cache needs no third. `PackageTtl`
and `CacheTtl` are one tick, so that a package is fresh, on the last tick and expired within two.

Fairness. `WF_vars(Node)`: LangGraph executes nodes synchronously and every collaborator returns or
raises (its clients have timeouts). In the API: threads are scheduled and the event
loop resumes ready handlers. A run of ingestion is a process that goes on until it exits or crashes
(`WF_vars(Step(r))`). Nothing is assumed about requests being sent, clients disconnecting or users
starting runs. `DocumentIndex` and `LiteBridge` state no fairness: every request there is a finite
sequence of steps without a loop, so that nothing but being scheduled is left to ask.

Deadlock is checked everywhere: a finished run stutters through `Done`, and `Settled` states exactly
when the API has nothing left to do; `AllExited`, `Rest` of `LiteBridge` and the end of `TextChunker`
are the same. In `DocumentIndex` a run may always be repeated.

## 4. The proofs

**Query workflow**, for every set of chunks and contradicting pairs, every configuration and each of
the three controllers, from `WorkflowAssumption` alone.

* `QueryWorkflow_proofs!TypeCorrect`: `Spec => []TypeOK`. One lemma a node, each split into what
  happens to the machine, the verdict, the findings and the spending. The lemmas about refusals show
  why no counter can pass its limit: each is incremented only after its own limit was tested in the
  same node.
* `QueryWorkflowSafety_proofs!InvariantOfRuns`: `Spec => []InductiveInvariant`. None of the safety
  properties is inductive: that a run never exceeds the recursion limit or fails its own validation
  depends on how many laps it can still make from where it is, with which budget, and on whether what
  it holds is what is left of its last search. The invariant says this for every place of the graph
  (`StepBudget`, `VerdictControl`, ...); the proof has one lemma an action.
* From it: `NothingFailsInside`, `NothingIsTriedTwice`, `CompletionIsGrounded`,
  `ConflictsAreRemembered`, the action property `AbstentionsAreFinal`, and `RunsAreBounded`, the
  refinement of `BoundedRun`. `FallbackHappensOnce` needs `FallbackInv` besides: the attempts are at
  most as many as the query texts tried, and one more once the fallback is spent.

**API coordinator**, for any number of requests and submissions and any history limit.

* `ExclusionHolds` with `MutualExclusion` and `RegistrationsFindRoom`. Mutual exclusion alone is not
  inductive: that registration never raises with the lock held follows from the handler having the
  event loop to itself (`HandlerControl`), so that the registry it found without active jobs still has
  none when it registers.
* `JobsHold` proves `JobInv`: the registry and the threads tell the same of every job, none is in it
  twice, at most one is active, and the counters count it. `CountersAgree` follows, and
  `PollersAreToldTheTruth`, the refinement of `EvaluationJobs`: each step is a step of what pollers
  see, or none. The hard step is registering in a full registry, where one finished job is removed
  from the middle of the sequence while the others keep their status.
* `AccountsHold` proves `AccountInv`: the counters and the history, together with what the one worker
  at work has yet to record, equal what the released queries and this one answer. `QueriesAreRecordedOnce`
  follows, and with the two invariants above `TypesAreKept`.

**Ingestion**, for any number of sources, runs and edits, assuming `IngestionAssumption` (distinct
sources, a text is not the mark of an unreadable file).

* `ManifestsAreTrue`: `ManifestsDescribeDisk` is not inductive by itself; `IngestionInvariant` adds
  what a run that has not written its manifest relies on (`AccountsForSources`): each source behind it
  is listed or recorded as failed, and what it has listed is on disk. The last holds because nothing
  removes an artifact and a run stores only documents (`ArtifactsStay`), although another run may
  replace it. TLC checks the invariant in `ingest_overlapping`. `TypesAreKept` needs nothing else.
* `ExitsReportManifests` and `ManifestsAreWriteOnce`, the refinement of `WriteOnceFiles`, hold of runs
  that share no manifest, `ManifestsAreUnshared`: they do not overlap, or no two have one identifier.
  Without this both are false, as `ingest_shared_id` shows. `ManifestInvariant`: a run about to write
  its manifest has seen that there is none, and nothing happened since.
* `ArtifactsAreWriteOnce` holds of runs that do not overlap and do not overwrite; two that overlap may
  both find an artifact missing.
* `ConflictsAreOfEditedFiles` needs neither: `EditInvariant` follows the time of modification from a
  file that was never saved to whatever a run made of it, so that what it finds on disk is the same.

**TextChunker**, for texts of any length, from `ChunkerAssumption`: `TextIsKept`,
`ConsecutiveChunksOverlap` and `ChunksStayBelowTwiceTheMaximum`. `ChunkerInvariant` is about what is
being gathered: it stays below the maximum, begins where the last chunk's overlap does, and every
segment before it is in a chunk; the chunks chain by their overlaps (`Gathered`). The bound of a chunk
then follows from that of a segment, `MaxWords - OverlapWords`.

**Retrieval**, for any documents, chunkings and processes. `DocumentIndexAssumption` says that a chunk
tells its document, that the chunks of one artifact are distinct (`ingestion/artifacts.py` rejects
others), and that documents and chunks are numbered in the order of their names.

* `CompletionImpliesIndexed`: what a run does at its end depends on all it did since it listed the
  artifacts, so `IndexInv` follows each run from there: every document that was there when it began has
  been read or is still listed, and every chunk before its position is a point.
* `ResultsAreKeptCitable` and `TypesAreKept`: `SearchInv` adds what is in the snapshot and the
  collection (`StoresInv`), what runs carry (`RunsInv`) and what each searcher holds
  (`SearchersInv`); while one loads, what its snapshot names and it has not found is still to be read.
* `FusionIsKeptFair`: a chunk ranked better by both routes comes first. The lemmas show that fused
  entries are totally ordered by their fractions (`FusionOrders`), that a finite set can be put in such
  an order, by counting predecessors, and that dominance decides it (`DominantComesBefore`).
* `RetriesAreAccepted`: as long as nothing was stored since a run began, its corpus is all chunks of
  what it read, in the order of names (`FreshInv`), and a set of artifacts makes one corpus only
  (`CorpusIsUnique`, by the least place where two would differ).

**LiteBridge**, for any deployments and callers and any bounds. `LiteBridgeAssumption` says that each
deployment is possible: its sources and providers have the descriptors the registry accepts, its texts
are texts, and its requests name operations that exist.

* `HandlesAreKept`, the refinement of `HandleTable`: that the store in use keeps the promise is not
  inductive, because a caller may still hold an earlier store and the next one in use is freshly built;
  `HandleInv` says it of every store ever built. A put purges, evicts and inserts in one step, and the
  lemma about it shows that whatever the eviction order, what stays was there before.
* `HandlesAreFoundInTime`: `StoredInv` says of every handle issued that its entry is there, has
  expired, or was followed by as many packages as a store holds.
* `BudgetIsKept`: `PlanInv` keeps, for each place of a request, what was decided before the search: the
  plan, the source it permits and the consents behind it.
* `PackagesAreKeptWithinLimits`, `EvidenceIsKeptPrivate` and `TypesAreKept`: every package that is held,
  stored or issued, and every result in a cache, is sound (`PackageInv`, `SharedInv`): its parts agree,
  it keeps the limits of its policy, and only evidence said to be a local document has private words.
  The gates then keep it from a hosted provider. `PrivateWords` are the words of local candidates that
  no other candidate has.
* `CompressionIsKeptFaithful`: a compressed package about to be stored is one the quality controls
  accepted (`PutInv`). The lemmas are about texts: an extract is placed by an increasing map, extracts
  compose, a part costs no more than the whole, the first copy of a sentence is distinct, and citation
  numbers are given once (`AreNumbered`).

**What the proofs rest on.** Where the argument is an induction (over the sentences of a text, the
places of a corpus or the segments of a chunk), it is made with the least counterexample
(`WFMin` of `WellFoundedInduction`), because the induction theorems of the library are out of the
provers' reach. For the same reason the order of a ranking is given by what it is
(`RankFusion!Sorted`) and not by a sorting operator.

**Only model-checked**: liveness, which like `ENABLED` is beyond the provers:
`EveryRunIsAnswered`, `QueriesAreAnswered`, `JobsAreFinished` and `RunsEnd`. Every invariant, action
property and refinement of a passing run is a theorem, ingestion's with the premises named above.

## 5. Not modelled, and the plan

Not modelled, with reasons in `PROJECT.json`: evaluation and benchmarks (offline floating-point
statistics), controller training (fitting a scikit-learn model), tracing, settings parsing and the
command line (stateless or pure I/O), the HTTP shell (middleware, schemas, exception tables). Inside
the modelled parts: texts are kept only as far as a guard looks at them, the scoring formulas of
`evidence/` are choices of a side of their threshold, and prompts are left out.

The properties of the bridge and of the index are safety properties only: their requests end by
construction, and a fairness-based liveness check of the bridge's deployments exceeds what TLC does
in minutes.

Left of the plan: `MarkdownChunker`, the grouping of headings and fences in `ingestion/chunker.py`;
`EvidenceScoring`, the pure rules of `evidence/` against reference definitions.

## 6. Where the code and its documents disagree

* `workflow_ssot`: `EvidenceOps_SSOT.md:682` retrieves when "reformulation is unavailable, and calls
  remain"; `reformulate_node` (`graph/nodes.py:304`) abstains with `duplicate_reformulation`.
* `ingest_shared_id`: `DECISIONS.md:39` calls manifests immutable with default refusal to overwrite;
  two overlapping runs with one `--run-id` both pass the second check of `ingestion/manifest.py:314`.
* `ingest_touched`: `EvidenceOps_SSOT.md:531` says "Ingestion must be idempotent."; the artifact holds
  the time of modification, its name does not depend on it, so a file saved again with the text it had
  fails the next run. `ConflictsComeFromEdits` shows that without a save there is no conflict.
* `text_chunks_fit`: `EvidenceOps_SSOT.md:509` and `tests/unit/test_text_chunker.py:49` expect at most
  600 words; paragraphs of 150 and 540 words give a chunk of 690. `ChunksAreBounded` is what holds.
* `bridge_reparse`: `DECISIONS.md:324` says that sharing one parser eliminates boundary disagreements
  between compressor and controls; `bridge/quality_controls.py:228` parses the compressed excerpt alone.
  Of "Set the flag. Restart the server.\n- first item\n- second item" one boundary is kept, which
  without the list is parsed as two sentences, and `compress_context` fails.

Seen while modelling and harmless for the properties checked: the STOP rule of the heuristic and the
node guards `repeated_query_route` and `context_budget_exceeded` cannot be reached in the graph;
`api_max_concurrent_queries` and `api_max_concurrent_evaluations` have no effect beyond 1 because of
the work lock; a job is reported completed before its thread releases the lock, so the next
submission may be refused although no job is active. The job counters that `GET /v1/metrics` reads under
one lock are written under another (`api/service.py:175`), so a response may show a submitted job
that is in no other counter.

In retrieval: a hybrid search with a source-type filter (`--filter-source-type`, the MCP tool's default
mode) filters the dense route only, which is why `ResultsAreCitable` speaks of what that route alone
found. Indexing again after new artifacts is refused ("already exists"), and with both parts asked for
the dense one is then not reached. An artifact overwritten with another chunking makes the old snapshot
unusable until its file is deleted, and the old points stay (`DECISIONS.md:49` acknowledges this).

In LiteBridge: `put` reads the clock before it takes its lock, so that a full store may give up a
package stored later than one it keeps; `HandlesAreFound` therefore counts those "stored later or made
no earlier". A result cached for a request with few evidence items is served to one that asks for more,
which then gets fewer than it could; no limit is exceeded. With the shipped adapters chunk identifiers
are unique, so removing copies only ever applies to a caller's own retriever. An embedding application
is taken to use the store as the servers do.
