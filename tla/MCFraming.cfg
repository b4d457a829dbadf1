SPECIFICATION FairSpec
CONSTANTS
  None = None
  Scripts <- Peers
  FixedLen <- MessageSizes
  ReplyLen <- ReplySizes
  SizeAt = 2
  BufSize = 5
  Rooms = {3, 4}
INVARIANTS
  Inv
  NodeSurvives
PROPERTIES
  ImplementsExchange
  Answered
