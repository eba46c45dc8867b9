\* Two servers are left of a pool that answers with three.
SPECIFICATION FairSpec
CONSTANTS
  n1 = n1
  n2 = n2
  n3 = n3
  Node = {n1, n2, n3}
  NoNode = NoNode
  UINT32_MAX = 10
  NUM_BUCKETS = 2
  BUCKET_SIZE = 5
  MaxWeight = 1
  Crcs <- MCCrcsHang
  Tables <- MCTablesHang
  NumResults = {3}
PROPERTIES
  EveryQueryAnswered
