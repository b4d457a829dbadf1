SPECIFICATION FairSpec
CONSTANTS
  seg = seg
  fea = fea
  stop1 = stop1
  stop2 = stop2
  other1 = other1
  other2 = other2
  w1 = w1
  w2 = w2
  Conns = {fea, stop1, stop2}
  Script <- TwoFiles
  Awaits = {stop1}
  After <- Rounds
  Workers = {w1, w2}
  Listen = Listen
  None = None
PROPERTIES
  Served
  ShutdownEnds
