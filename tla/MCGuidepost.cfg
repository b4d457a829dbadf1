SPECIFICATION Spec
CONSTANTS
  f1 = f1
  f2 = f2
  f3 = f3
  NodeNum = 2
  Features = {f1, f2, f3}
  Builds <- AllBuilds
  Segments <- SegmentsOf
  HomeOf <- Homes
  MaxSlices <- SlicesOf
  GP_SIZE = 2
  GP_PART = 3
  HIT_THRES = 1
  LC_HIT_THRES = 0
  LCACHE_SIZE = 2
  FEATURE_NUM = 3
  EXP_SEGMENT_SIZE = 3
  MaxStored <- ChunksOf
  MaxEstimate = 2
  AnyLoads = {0, 1}
  SkewNum = 21
  SkewDen = 20
  None = None
CHECK_DEADLOCK FALSE
INVARIANTS
  Inv
  GuidepostTrue
  RepliesMatch
  EstimateLags
  FewPartsUsed
  FullMatchFound
