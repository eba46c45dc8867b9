\* Two copies per server, every placement; the thread does not stop inside a call.
SPECIFICATION FairSpec
CONSTANTS
  n1 = n1
  n2 = n2
  n3 = n3
  Node = {n1, n2, n3}
  NoNode = NoNode
  UINT32_MAX = 10
  NUM_BUCKETS = 2
  BUCKET_SIZE = 5
  MaxWeight = 2
  Crcs <- MCCrcs
  Tables <- MCTables
  NumResults = {0, 2, 3}
INVARIANTS
  TypeOK
  BucketsAlike
  AnswersDistinct
PROPERTIES
  WalkEnds
  AnsweredIfEnough
