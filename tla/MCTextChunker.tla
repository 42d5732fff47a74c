---------------------------- MODULE MCTextChunker ----------------------------
(* Small instances of TextChunker: the defaults 500, 600 and 60 in fiftieths, *)
(* with segments below an overlap, above it, and up to the limit.            *)
EXTENDS TextChunker

Sizes == {1, 3, 6, 10}
=============================================================================
