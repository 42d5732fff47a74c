SPECIFICATION Spec
CONSTANTS
  a = a
  b = b
  r1 = r1
  r2 = r2
  r3 = r3
  Absent = Absent
  Sources <- OneSource
  Texts <- TwoTexts
  Runs <- TwoRuns
  RunId <- OwnIds
  Overwriting <- NoRuns
  Overlapping = FALSE
  MaxEdits = 1
INVARIANT
  IngestionIsIdempotent
