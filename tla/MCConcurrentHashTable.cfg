SPECIFICATION TableSpec
CONSTANTS
  x = x
  y = y
  z = z
  u = u
  v = v
  t1 = t1
  t2 = t2
  t3 = t3
  Threads = {t1, t2, t3}
  Keys = {x, z}
  Vals = {u, v}
  SUB_NUM = 2
  SubOf <- TwoSubs
  Usages <- ServerTables
  Null = Null
SYMMETRY Symmetry
PROPERTY
  ImplementsAtomicMap
