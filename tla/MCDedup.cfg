SPECIFICATION FairSpec
CONSTANTS
  x = x
  y = y
  z = z
  c1 = c1
  c2 = c2
  c3 = c3
  Conns = {c1, c2, c3}
  Chunks = {x, y, z}
  Segments <- TwoSegments
  SUB_NUM = 2
  SubOf <- TwoSubs
  None = None
INVARIANTS
  Inv
  NewOnce
PROPERTIES
  StorageGrows
  Answered
