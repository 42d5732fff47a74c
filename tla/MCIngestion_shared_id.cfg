SPECIFICATION Spec
CONSTANTS
  a = a
  b = b
  r1 = r1
  r2 = r2
  r3 = r3
  Absent = Absent
  Sources <- OneSource
  Texts <- TwoTexts
  Runs <- TwoRuns
  RunId <- SharedId
  Overwriting <- NoRuns
  Overlapping = TRUE
  MaxEdits = 0
PROPERTY
  ManifestsAreImmutable
