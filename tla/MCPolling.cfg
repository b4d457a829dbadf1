SPECIFICATION Spec
CONSTANTS
  f1 = f1
  f2 = f2
  f3 = f3
  Features = {f1, f2, f3}
  None = None
  SkewNum = 21
  SkewDen = 20
  NodeNum = 2
  Segments <- Sharing
  HomeOf <- Homes
  Builds <- AllBuilds
  LC_HIT_THRES = 1
  LCACHE_SIZE = 2
  FEATURE_NUM = 3
  EXP_SEGMENT_SIZE = 3
  MaxStored = 1
  MaxEstimate = 2
CHECK_DEADLOCK FALSE
INVARIANTS
  Inv
  StaysHome
  FullMatchFound
  CacheTrue
