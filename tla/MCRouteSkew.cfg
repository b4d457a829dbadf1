SPECIFICATION Spec
CONSTANTS
  NodeNum = 3
  MaxHit = 3
  Weights <- SomeWeights
  SkewNum = 3
  SkewDen = 2
CHECK_DEADLOCK FALSE
INVARIANT SkewRespected
