---------------------------- MODULE DocumentIndex ----------------------------
(***************************************************************************)
(* The indexes over the processed artifacts and what is searched in them    *)
(* (src/evidenceops/retrieval and cli/retrieval.py).  evidenceops-index     *)
(* writes a snapshot of the sparse index to a file and the chunks as points *)
(* to Qdrant; services and evidenceops-search open the snapshot and query   *)
(* both.  Meanwhile evidenceops-ingest stores artifacts, and may overwrite  *)
(* one with other chunks of the same document.  Each of them is a process,  *)
(* and a step is what happens between two looks at the disk or two calls of *)
(* Qdrant.                                                                  *)
(*                                                                          *)
(* Documents are numbered in the order of their files' names, chunks in the *)
(* order of their identifiers, which differ between documents and texts, so *)
(* that no identifier ever occurs twice.                                    *)
(***************************************************************************)
EXTENDS RankFusion

CONSTANTS
  Documents, Chunkings,
  ChunksOf,        \* the chunks of a document under each chunking
  SourceTypes,     \* the source type of a document
  Indexers, Searchers,
  Deployments,     \* sets of indexers and searchers that run side by side
  BatchSize,       \* settings: embedding_batch_size
  TopK,            \* top_k of a request
  RouteLimit,      \* settings: top_k_sparse, top_k_dense and top_k_hybrid
  RrfK,            \* settings: rrf_k
  Overwriting,     \* whether ingestion runs with --overwrite-artifacts
  MaxWrites        \* bound on the artifacts stored

ASSUME DocumentIndexAssumption ==
  /\ Documents \subseteq Nat /\ SourceTypes \in [Documents -> STRING]
  /\ ChunksOf \in [Documents -> [Chunkings -> Seq(Nat \ {Missing})]]
  /\ \A d, e \in Documents, v, w \in Chunkings :
       /\ ChunksOf[d][v] # <<>> /\ IsInjective(ChunksOf[d][v])
       /\ d # e => ToSet(ChunksOf[d][v]) \cap ToSet(ChunksOf[e][w]) = {}
  /\ {BatchSize, TopK, RouteLimit, RrfK} \subseteq Nat \ {0}
  /\ Deployments \subseteq SUBSET (Indexers \cup Searchers)
  /\ Overwriting \in BOOLEAN /\ MaxWrites \in Nat

VARIABLES
  running,       \* the processes of this deployment
  artifacts,     \* document -> how it was chunked, for each artifact on disk
  writes,        \* how many artifacts were stored so far
  overwritten,   \* the documents whose artifact was replaced
  snapshot,      \* the chunk identifiers of the snapshot file, <<>> while there is none
  snapshot_of,   \* `writes' when the run that wrote the snapshot began
  collection,    \* the Qdrant collection: absent, compatible or incompatible
  points,        \* the chunks that are points of the collection
  indexer, searcher

disk   == <<running, artifacts, writes, overwritten>>
qdrant == <<collection, points>>
vars   == <<disk, snapshot, snapshot_of, qdrant, indexer, searcher>>

DocumentOf(c) == CHOOSE d \in Documents : \E v \in Chunkings : c \in ToSet(ChunksOf[d][v])
OnDisk(c) == \E d \in DOMAIN artifacts : c \in ToSet(ChunksOf[d][artifacts[d]])

NoIndexer ==
  [pc |-> "idle", build |-> {}, paths |-> <<>>, corpus |-> <<>>, at |-> 0, began |-> 0,
   known |-> {}, exit |-> "none"]
NoSearcher ==
  [pc |-> "idle", client |-> "service", loaded |-> <<>>, paths |-> <<>>, found |-> {},
   sparse |-> <<>>, request |-> [method |-> "sparse", source_type |-> "any"],
   sparse_results |-> <<>>, dense_results |-> <<>>, results |-> <<>>, error |-> "none"]

Init ==
  /\ running \in Deployments
  /\ artifacts = <<>> /\ writes = 0 /\ overwritten = {}
  /\ snapshot = <<>> /\ snapshot_of = 0
  /\ collection \in {"absent", "compatible", "incompatible"} /\ points = {}
  /\ indexer = [i \in Indexers |-> NoIndexer]
  /\ searcher = [s \in Searchers |-> NoSearcher]

\* Ingestion stores the artifact of a new document, or replaces one if it may.
Ingest ==
  /\ writes < MaxWrites
  /\ \E d \in Documents, v \in Chunkings :
       /\ d \in DOMAIN artifacts => Overwriting /\ artifacts[d] # v
       /\ artifacts' = [e \in DOMAIN artifacts \cup {d} |-> IF e = d THEN v ELSE artifacts[e]]
       /\ overwritten' = overwritten \cup ({d} \cap DOMAIN artifacts)
  /\ writes' = writes + 1
  /\ UNCHANGED <<running, snapshot, snapshot_of, qdrant, indexer, searcher>>

(***************************************************************************)
(* evidenceops-index                                                        *)
(***************************************************************************)

Indexing(i, at) == indexer[i].pc = at
BecomesIndexer(i, held) == indexer' = [indexer EXCEPT ![i] = held]
Exits(i, how) == BecomesIndexer(i, [NoIndexer EXCEPT !.pc = "exited", !.exit = how])

StartIndexing(i) ==
  /\ indexer[i].pc \in {"idle", "exited"}
  /\ \E build \in {{"sparse"}, {"dense"}, {"sparse", "dense"}} :
       BecomesIndexer(i, [NoIndexer EXCEPT !.pc = "list", !.build = build, !.began = writes,
                                           !.known = DOMAIN artifacts])
  /\ UNCHANGED <<disk, snapshot, snapshot_of, qdrant, searcher>>

\* Mutated: files come in the order of the directory.
PathsUnsorted(documents) == SetToSeqs(documents)

\* The artifacts are read in the order of their names.
Paths(documents) ==
  {paths \in SetToSeqs(documents) : \A m, n \in DOMAIN paths : m < n => paths[m] < paths[n]}

\* Mutated: the chunks read for the sparse index are still there.
ReadingKeepsCorpus(held, paths) == [held EXCEPT !.pc = "read", !.paths = paths]

Reading(held, paths) == [held EXCEPT !.pc = "read", !.paths = paths, !.corpus = <<>>]

\* The sparse and the dense part each list the artifacts; without any they fail.
ListArtifacts(i) ==
  /\ Indexing(i, "list")
  /\ IF DOMAIN artifacts = {} THEN Exits(i, "no_artifacts")
     ELSE \E paths \in Paths(DOMAIN artifacts) : BecomesIndexer(i, Reading(indexer[i], paths))
  /\ UNCHANGED <<disk, snapshot, snapshot_of, qdrant, searcher>>

ReadArtifact(i) ==
  /\ Indexing(i, "read")
  /\ LET d == Head(indexer[i].paths)
         rest == Tail(indexer[i].paths)
     IN  BecomesIndexer(i, [indexer[i] EXCEPT
           !.corpus = @ \o ChunksOf[d][artifacts[d]], !.paths = rest, !.at = 0,
           !.pc = IF rest # <<>> THEN "read"
                  ELSE IF "sparse" \in indexer[i].build THEN "check" ELSE "batch"])
  /\ UNCHANGED <<disk, snapshot, snapshot_of, qdrant, searcher>>

\* After the snapshot the dense part follows, if it was asked for.
SparseDone(i) ==
  IF "dense" \in indexer[i].build
  THEN BecomesIndexer(i, [indexer[i] EXCEPT !.pc = "list", !.build = {"dense"}])
  ELSE Exits(i, "completed")

\* JsonSparseIndexStore.write: an identical snapshot stays, another one is never replaced ...
CheckSnapshot(i) ==
  /\ Indexing(i, "check")
  /\ IF snapshot = <<>> THEN BecomesIndexer(i, [indexer[i] EXCEPT !.pc = "replace"])
     ELSE IF snapshot = indexer[i].corpus THEN SparseDone(i)
     ELSE Exits(i, "already_exists")
  /\ UNCHANGED <<disk, snapshot, snapshot_of, qdrant, searcher>>

\* ... unless it was written since.
ReplaceSnapshot(i) ==
  /\ Indexing(i, "replace")
  /\ snapshot' = indexer[i].corpus /\ snapshot_of' = indexer[i].began
  /\ SparseDone(i)
  /\ UNCHANGED <<disk, qdrant, searcher>>

\* A batch is embedded, then upsert() looks for the collection; all of it may fail.
EmbedBatch(i) ==
  /\ Indexing(i, "batch")
  /\ \/ Exits(i, "failed")
     \/ collection = "absent" /\ BecomesIndexer(i, [indexer[i] EXCEPT !.pc = "create"])
     \/ collection = "compatible" /\ BecomesIndexer(i, [indexer[i] EXCEPT !.pc = "upsert"])
  /\ UNCHANGED <<disk, snapshot, snapshot_of, qdrant, searcher>>

\* A collection that another run created in the meantime is an error.
CreateCollection(i) ==
  /\ Indexing(i, "create")
  /\ \/ Exits(i, "failed") /\ UNCHANGED collection
     \/ /\ collection = "absent"
        /\ collection' = "compatible"
        /\ BecomesIndexer(i, [indexer[i] EXCEPT !.pc = "upsert"])
  /\ UNCHANGED <<disk, snapshot, snapshot_of, points, searcher>>

\* Mutated: the last batch is left out unless it is full.
NextBatchIfFull(corpus, at) == at + 2 * BatchSize <= Len(corpus)

\* Whether chunks follow the batch that starts after position `at'.
NextBatch(corpus, at) == at + BatchSize < Len(corpus)

\* Points are named after their chunks, so that a chunk that is there is written again.
Upsert(i) ==
  /\ Indexing(i, "upsert")
  /\ LET corpus == indexer[i].corpus
         at == indexer[i].at
     IN  \/ Exits(i, "failed") /\ UNCHANGED points
         \/ /\ points' = points \cup
                 {corpus[n] : n \in (at + 1)..Min({at + BatchSize, Len(corpus)})}
            /\ IF NextBatch(corpus, at)
               THEN BecomesIndexer(i, [indexer[i] EXCEPT !.pc = "batch", !.at = at + BatchSize])
               ELSE Exits(i, "completed")
  /\ UNCHANGED <<disk, snapshot, snapshot_of, collection, searcher>>

Crash(i) ==
  /\ indexer[i].pc \notin {"idle", "exited"}
  /\ Exits(i, "crashed")
  /\ UNCHANGED <<disk, snapshot, snapshot_of, qdrant, searcher>>

(***************************************************************************)
(* The documentation service and evidenceops-search                         *)
(***************************************************************************)

Searching(s, at) == searcher[s].pc = at
BecomesSearcher(s, held) == searcher' = [searcher EXCEPT ![s] = held]

\* A service that was opened stays so, whatever becomes of a search.
SearchFails(s, error) ==
  LET opened == searcher[s].client = "service" /\ searcher[s].pc \notin {"idle", "load"}
  IN  BecomesSearcher(s, [NoSearcher EXCEPT
        !.pc = IF opened THEN "open" ELSE "idle", !.error = error,
        !.sparse = IF opened THEN searcher[s].sparse ELSE <<>>])

\* A search is over, and what it found was given out.
SearchEnds(s) ==
  BecomesSearcher(s, [NoSearcher EXCEPT
    !.pc = IF searcher[s].client = "service" THEN "open" ELSE "idle",
    !.sparse = IF searcher[s].client = "service" THEN searcher[s].sparse ELSE <<>>])

Requests(methods) ==
  [method : methods, source_type : {"any"} \cup {SourceTypes[d] : d \in Documents}]

\* build_documentation_service: the snapshot if there is one, else an index of the artifacts.
\* The dense search of the command needs neither.
Open(s) ==
  /\ Searching(s, "idle")
  /\ \/ \E request \in Requests({"dense"}) :
          BecomesSearcher(s, [NoSearcher EXCEPT !.pc = "dense", !.client = "command",
                                                !.request = request])
     \/ \E client \in {"service", "command"}, documents \in {
            IF snapshot # <<>> THEN {DocumentOf(c) : c \in ToSet(snapshot)} ELSE DOMAIN artifacts} :
          IF documents = {} THEN SearchFails(s, "no_artifacts")
          ELSE \E paths \in Paths(documents) :
                 BecomesSearcher(s, [NoSearcher EXCEPT !.pc = "load", !.client = client,
                                                       !.loaded = snapshot, !.paths = paths])
  /\ UNCHANGED <<disk, snapshot, snapshot_of, qdrant, indexer>>

\* Each artifact is read for its chunks; from_snapshot wants all those of the snapshot.
Load(s) ==
  /\ Searching(s, "load")
  /\ LET held == searcher[s]
         d == Head(held.paths)
         chunks == ChunksOf[d][artifacts[d]]
         found == held.found \cup ToSet(chunks)
         sparse == IF held.loaded = <<>> THEN held.sparse \o chunks ELSE held.loaded
         last == Len(held.paths) = 1
     IN  IF ~last THEN BecomesSearcher(s, [held EXCEPT !.paths = Tail(@), !.found = found,
                                                       !.sparse = sparse])
         ELSE IF ~ToSet(sparse) \subseteq found THEN SearchFails(s, "unresolved_chunk")
         ELSE BecomesSearcher(s, [NoSearcher EXCEPT !.pc = "open", !.client = held.client,
                                                    !.sparse = sparse])
  /\ UNCHANGED <<disk, snapshot, snapshot_of, qdrant, indexer>>

\* A route ranks all its chunks and returns the first ones.
Rankings(chunks, limit) ==
  {r \in UNION {[1..n -> chunks] : n \in {Min({limit, Cardinality(chunks)})}} : IsInjective(r)}

OnlySparse(ranking) == [n \in DOMAIN ranking |-> Ranked(ranking[n], ranking, <<>>)]
OnlyDense(ranking) == [n \in DOMAIN ranking |-> Ranked(ranking[n], <<>>, ranking)]

\* The service is asked for a sparse, dense or hybrid search, the command may also rerank.  The
\* sparse route knows no filter: the service refuses one in a sparse search, the command and
\* every hybrid search leave it aside.
StartSearch(s) ==
  /\ Searching(s, "open")
  /\ LET client == searcher[s].client IN
     \E request \in Requests({"sparse", "hybrid",
                              IF client = "service" THEN "dense" ELSE "reranked"}) :
       LET held == [searcher[s] EXCEPT !.request = request, !.error = "none"]
           Sparse(limit) == Rankings(ToSet(held.sparse), limit)
       IN  CASE request.method = "dense" -> BecomesSearcher(s, [held EXCEPT !.pc = "dense"])
             [] request.method = "sparse" /\ client = "service" /\ request.source_type # "any" ->
                  SearchFails(s, "invalid")
             [] request.method = "sparse" /\ (client = "command" \/ request.source_type = "any") ->
                  \E ranking \in Sparse(TopK) :
                    BecomesSearcher(s, [held EXCEPT !.pc = "found", !.results = OnlySparse(ranking)])
             [] OTHER ->
                  \E ranking \in Sparse(RouteLimit) :
                    BecomesSearcher(s, [held EXCEPT !.pc = "dense", !.sparse_results = ranking])
  /\ UNCHANGED <<disk, snapshot, snapshot_of, qdrant, indexer>>

\* Mutated: the filter is not passed on.
MatchingPointsUnfiltered(source_type) == points

MatchingPoints(source_type) ==
  {c \in points : source_type \in {"any", SourceTypes[DocumentOf(c)]}}

\* Qdrant is asked, and may fail; a hybrid search merges what both routes found.
SearchDense(s) ==
  /\ Searching(s, "dense")
  /\ LET held == searcher[s]
         method == held.request.method
     IN  \/ SearchFails(s, "vector_store")
         \/ /\ collection = "compatible"
            /\ \E dense \in Rankings(MatchingPoints(held.request.source_type),
                                     IF method = "dense" THEN TopK ELSE RouteLimit) :
                 BecomesSearcher(s, [held EXCEPT
                   !.dense_results = dense,
                   !.results = IF method = "dense" THEN OnlyDense(dense)
                               ELSE ReciprocalRankFusion(held.sparse_results, dense,
                                      IF method = "reranked" THEN RouteLimit ELSE TopK, RrfK),
                   !.pc = IF method = "reranked" THEN "rerank" ELSE "found"])
  /\ UNCHANGED <<disk, snapshot, snapshot_of, qdrant, indexer>>

\* The reranker scores the candidates, or fails.
Rerank(s) ==
  /\ Searching(s, "rerank")
  /\ LET held == searcher[s]
     IN  \/ SearchFails(s, "reranking")
         \/ /\ held.results # <<>>
            /\ \E score \in [{r.chunk : r \in ToSet(held.results)} -> 0..1] :
                 BecomesSearcher(s, [held EXCEPT
                   !.pc = "found", !.results = ReorderRerankResults(held.results, score, TopK)])
  /\ UNCHANGED <<disk, snapshot, snapshot_of, qdrant, indexer>>

\* The service reads the artifact of each result for its source, and takes the next request;
\* the command prints and ends.
Serve(s) ==
  /\ Searching(s, "found")
  /\ LET held == searcher[s]
         cited == {DocumentOf(r.chunk) : r \in ToSet(held.results)}
     IN  IF held.client = "service" /\ ~cited \subseteq DOMAIN artifacts
         THEN SearchFails(s, "artifact_not_found") ELSE SearchEnds(s)
  /\ UNCHANGED <<disk, snapshot, snapshot_of, qdrant, indexer>>

(***************************************************************************)
(* Specification                                                            *)
(***************************************************************************)

Index(i) ==
  \/ StartIndexing(i) \/ ListArtifacts(i) \/ ReadArtifact(i) \/ CheckSnapshot(i)
  \/ ReplaceSnapshot(i) \/ EmbedBatch(i) \/ CreateCollection(i) \/ Upsert(i) \/ Crash(i)

SearchStep(s) ==
  Open(s) \/ Load(s) \/ StartSearch(s) \/ SearchDense(s) \/ Rerank(s) \/ Serve(s)

Next == Ingest \/ (\E i \in Indexers \cap running : Index(i)) \/ (\E s \in Searchers \cap running : SearchStep(s))

Spec == Init /\ [][Next]_vars

(***************************************************************************)
(* Properties                                                               *)
(***************************************************************************)

\* Every variable holds what it is for: a corpus has no chunk twice and only chunks of
\* documents on disk, and there are points only in a compatible collection.
TypeOK ==
  /\ artifacts \in UNION {[known -> Chunkings] : known \in SUBSET Documents}
  /\ writes \in 0..MaxWrites /\ overwritten \subseteq DOMAIN artifacts
  /\ snapshot_of \in 0..writes
  /\ points # {} => collection = "compatible"
  /\ \A corpus \in {snapshot} \cup {indexer[i].corpus : i \in Indexers}
                     \cup {searcher[s].sparse : s \in Searchers} :
       IsInjective(corpus) /\ \A n \in DOMAIN corpus : DocumentOf(corpus[n]) \in DOMAIN artifacts

\* When a run completes its dense part it has made a point of every chunk it read, and it read
\* every document that was there when it began, whatever other runs, crashes and ingestion did
\* meanwhile (dense.py DenseIndexer.index; qdrant_store.py upsert, ensure_collection).
CompletedRunsAreIndexed ==
  [][\A i \in Indexers : LET run == indexer[i] IN
       run.pc # "exited" /\ indexer'[i].exit = "completed" /\ indexer'[i].pc = "exited" =>
         /\ run.known \subseteq {DocumentOf(c) : c \in ToSet(run.corpus)}
         /\ run.build = {"dense"} => ToSet(run.corpus) \subseteq points']_vars

\* Only artifacts stored since the run, or the run that wrote the snapshot, began make them
\* conflict: one that repeats the work of a run that completed, failed or crashed is not
\* refused (sparse_store.py write, bm25.py Bm25IndexBuilder).
RetriesAreNotRefused ==
  [][\A i \in Indexers :
       indexer'[i].exit = "already_exists" /\ indexer[i].exit # "already_exists"
         => writes > Min({snapshot_of, indexer[i].began})]_vars

\* Unless artifacts are overwritten, a service can always be opened on a snapshot, and what a
\* search finds is found again under its identifier, once, and within the limit; what only the
\* dense route found is of the source type asked for (service.py, bm25.py from_snapshot,
\* hybrid.py; the index is built and searched by different processes at different times).
ResultsAreCitable ==
  \A s \in Searchers : LET held == searcher[s] IN
    /\ held.error = "unresolved_chunk" => overwritten # {}
    /\ held.error # "artifact_not_found"
    /\ held.pc = "found" =>
         /\ Len(held.results) <= TopK
         /\ IsInjective([n \in DOMAIN held.results |-> held.results[n].chunk])
         /\ \A r \in ToSet(held.results) :
              /\ OnDisk(r.chunk) \/ DocumentOf(r.chunk) \in overwritten
              /\ r.sparse_rank = Missing
                   => held.request.source_type \in {"any", SourceTypes[DocumentOf(r.chunk)]}

\* Neither route ranks r below t, and one of them ranks it higher.
Dominates(r, t) ==
  LET NoWorse(a, b) == a = b \/ (a # Missing /\ (b = Missing \/ a <= b))
  IN  /\ NoWorse(r.sparse_rank, t.sparse_rank) /\ NoWorse(r.dense_rank, t.dense_rank)
      /\ r # t

\* The merged ranking agrees with its routes: a chunk that both rank no lower than another is
\* not below it, and is not left out for it (hybrid.py reciprocal_rank_fusion, and its ties).
FusionRespectsRoutes ==
  \A s \in Searchers : LET held == searcher[s] IN
    held.pc = "found" /\ held.request.method = "hybrid" =>
      \A n \in DOMAIN held.results :
        \A c \in ToSet(held.sparse_results) \cup ToSet(held.dense_results) :
          Dominates(Ranked(c, held.sparse_results, held.dense_results), held.results[n])
            => \E m \in 1..(n - 1) : held.results[m].chunk = c
=============================================================================
