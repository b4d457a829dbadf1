SPECIFICATION Spec
CONSTANTS
  c1 = c1
  c2 = c2
  f1 = f1
  f2 = f2
  f3 = f3
  t1 = t1
  t2 = t2
  k1 = k1
  k2 = k2
  k3 = k3
  Conns = {c1, c2}
  Carries <- AllKinds
  Features = {f1, f2, f3}
  Batches <- SomeBatches
  SubTables = {t1, t2}
  SubOf <- TwoSubs
  Containers = {k1, k2, k3}
  GP_SIZE = 2
  HIT_THRES = 1
  None = None
  Zero = Zero
  Torn = Torn
SYMMETRY Symmetry
INVARIANTS
  IndexIntact
  MemorySafe
  PoolBound
  BestExists
  SliceAnswers
PROPERTY
  EntriesForever
  ImplementsSliceIndex
