SPECIFICATION FairSpec
CONSTANTS
  b1 = b1
  b2 = b2
  b3 = b3
  Chunks <- FPs
  Boundaries = {2}
  Folders <- SmallFolders
  Null = Null
  MisreadMax = 2
  MIN_SEGMENT_SIZE = 3
  MAX_SEGMENT_SIZE = 5
  FEATURE_NUM = 2
  PartBoundaries = {2, 3}
  CANDIDATES = 3
  SEGMENT_MAX = 5
  Transforms <- UpAndDown
  Features <- FPs
  Blocks = {b1, b2, b3}
  LCACHE_SIZE = 2
  Free = Free
CHECK_DEADLOCK FALSE
INVARIANTS
  Inv
  NothingLost
  CutByContent
  FeaturesAreSmallest
PROPERTIES
  Terminates
  ImplementsLruSet
