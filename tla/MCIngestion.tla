----------------------------- MODULE MCIngestion -----------------------------
(* Small instances of Ingestion: two sources, two texts, two or three runs. *)
EXTENDS Ingestion

CONSTANTS a, b, r1, r2, r3

TwoSources == <<"guide.md", "notes.txt">>
OneSource == <<"guide.md">>
TwoTexts == {a, b}
TwoRuns == {r1, r2}
ThreeRuns == {r1, r2, r3}
NoRuns == {}
SecondRun == {r2}
OwnIds == [r \in TwoRuns |-> r]
ReusedId == [r \in ThreeRuns |-> IF r = r3 THEN r2 ELSE r]
SharedId == [r \in TwoRuns |-> r1]
=============================================================================
