------------------------------ MODULE RankFusion ------------------------------
(***************************************************************************)
(* Rankings and how they are merged (src/evidenceops/retrieval/hybrid.py,   *)
(* reranker.py).  A ranking is a sequence of chunks, the best one first;    *)
(* chunks are numbered in the order of their identifiers.  Scores are kept  *)
(* as fractions, so that ties are exact.                                    *)
(***************************************************************************)
EXTENDS Integers, Sequences, FiniteSets, SequencesExt, FiniteSetsExt

Missing == 0
RankIn(ranking, chunk) == SelectInSeq(ranking, LAMBDA c : c = chunk)
Shortened(ranking, limit) == SubSeq(ranking, 1, Min({Len(ranking), limit}))

\* A chunk with its ranks in the two routes; a route that did not find it is Missing.
Ranked(chunk, sparse, dense) ==
  [chunk |-> chunk, sparse_rank |-> RankIn(sparse, chunk), dense_rank |-> RankIn(dense, chunk)]
RanksOf(r) == {r.sparse_rank, r.dense_rank} \ {Missing}

\* Mutated: the rank of a route that did not find the chunk counts as zero.
ScoreOfMissing(r, k) ==
  [num |-> 2 * k + r.sparse_rank + r.dense_rank, den |-> (k + r.sparse_rank) * (k + r.dense_rank)]

\* The sum of 1 / (k + rank) over the routes that found the chunk.
Score(r, k) ==
  IF Missing \in {r.sparse_rank, r.dense_rank}
  THEN [num |-> 1, den |-> k + r.sparse_rank + r.dense_rank]
  ELSE [num |-> 2 * k + r.sparse_rank + r.dense_rank,
        den |-> (k + r.sparse_rank) * (k + r.dense_rank)]

Greater(a, b) == a.num * b.den > b.num * a.den

\* The higher score, then the better of the two ranks, then the smaller identifier.
FusedBefore(k, r, s) ==
  \/ Greater(Score(r, k), Score(s, k))
  \/ /\ ~Greater(Score(s, k), Score(r, k))
     /\ \/ Min(RanksOf(r)) < Min(RanksOf(s))
        \/ Min(RanksOf(r)) = Min(RanksOf(s)) /\ r.chunk < s.chunk

\* The elements of a set in the order `Before' puts them in.
Sorted(S, Before(_, _)) ==
  CHOOSE seq \in SetToSeqs(S) : \A m, n \in DOMAIN seq : m < n => Before(seq[m], seq[n])

\* reciprocal_rank_fusion
ReciprocalRankFusion(sparse, dense, limit, k) ==
  Shortened(Sorted({Ranked(c, sparse, dense) : c \in ToSet(sparse) \cup ToSet(dense)},
                   LAMBDA r, s : FusedBefore(k, r, s)), limit)

\* reorder_rerank_results: the higher score of the reranker, then the place it had.
ReorderRerankResults(candidates, score, limit) ==
  LET Before(i, j) == \/ score[candidates[i].chunk] > score[candidates[j].chunk]
                      \/ score[candidates[i].chunk] = score[candidates[j].chunk] /\ i < j
      order == Sorted({i \in DOMAIN candidates : candidates[i].chunk \in DOMAIN score}, Before)
  IN  Shortened([n \in DOMAIN order |-> candidates[order[n]]], limit)
=============================================================================
