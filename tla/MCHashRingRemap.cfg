\* Five servers apart from each other, and four that share positions.
SPECIFICATION Spec
CONSTANTS
  n1 = n1
  n2 = n2
  n3 = n3
  n4 = n4
  n5 = n5
  Node = {n1, n2, n3, n4, n5}
  NoNode = NoNode
  UINT32_MAX = 12
  NUM_BUCKETS = 2
  BUCKET_SIZE = 6
  MaxWeight = 2
  Crcs <- MCCrcs
  Tables <- MCTables
  NumResults = {2, 3}
INVARIANTS
  AnswersAgree
  RemovalKeepsFirstTwo
  SecondTakesOver
  BucketsAnswerAlike
