SPECIFICATION Spec
CONSTANTS
  TargetWords = 10
  MaxWords = 12
  OverlapWords = 2
  SegmentSizes <- Sizes
  MaxSegments = 6
INVARIANT
  ChunksFit
