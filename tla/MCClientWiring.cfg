SPECIFICATION FairSpec
CONSTANTS
  a = a
  b = b
  sa = sa
  sb = sb
  fa = fa
  fb = fb
  f1 = f1
  f2 = f2
  t1 = t1
  k1 = k1
  k2 = k2
  k3 = k3
  Clients = {a, b}
  SegFd <- SegFds
  FeaFd <- FeaFds
  Conns = {sa, sb, fa, fb}
  Carries <- Uploads
  Features = {f1, f2}
  Batches <- OneBatch
  SubTables = {t1}
  SubOf <- OneSub
  Containers = {k1, k2, k3}
  GP_SIZE = 2
  HIT_THRES = 0
  None = None
  Zero = Zero
  Torn = Torn
PROPERTIES
  OneStreamSlices
  EventuallyIndexed
