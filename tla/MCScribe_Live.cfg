SPECIFICATION MCFairSpec
CONSTANTS
  w1 = w1
  w2 = w2
  Watcher = {w1, w2}
  Nobody = Nobody
  PeersOf <- MCOneAsks
  PEER_CONFIRM_LIMIT = 1
  Refetch = {w1}
  MaxLists <- MCOneList
  Restarts = {}
  Flaky = FALSE
  Settles = TRUE
  MaxCalls = 1
  MaxAsk = 1
PROPERTIES
  DownIsRemoved
  UpIsRestored
