--------------------------- MODULE MCDocumentIndex ---------------------------
(***************************************************************************)
(* Two documents of different types.  The long chunking makes one chunk of  *)
(* a document, the short one two of the first.                              *)
(***************************************************************************)
EXTENDS DocumentIndex

MCChunksOf == << [short |-> <<4, 1>>, long |-> <<3>>], [short |-> <<2>>, long |-> <<5>>] >>
MCDeployments == {Indexers} \cup {{i, s} : i \in Indexers, s \in Searchers}
MCSourceTypes == <<"markdown", "text">>

\* The indexers are alike.
MCSymmetry == Permutations(Indexers)
=============================================================================
