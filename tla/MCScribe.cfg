SPECIFICATION Spec
CONSTANTS
  w1 = w1
  w2 = w2
  Watcher = {w1, w2}
  Nobody = Nobody
  PeersOf <- MCOneAsks
  PEER_CONFIRM_LIMIT = 2
  Refetch = {}
  MaxLists <- MCTwoLists
  Restarts = {w1}
  Flaky = TRUE
  Settles = FALSE
  MaxCalls = 2
  MaxAsk = 1
INVARIANTS
  TypeOK
  RemovalNeedsTwoViews
  RestoreNeedsTwoViews
