SPECIFICATION FairSpec
CONSTANTS
  a = a
  b = b
  r1 = r1
  r2 = r2
  r3 = r3
  Absent = Absent
  Sources <- TwoSources
  Texts <- TwoTexts
  Runs <- TwoRuns
  RunId <- OwnIds
  Overwriting <- SecondRun
  Overlapping = TRUE
  MaxEdits = 1
INVARIANTS
  ManifestsDescribeDisk
  ConflictsComeFromEdits
  IngestionInvariant
PROPERTIES
  RunsEnd
