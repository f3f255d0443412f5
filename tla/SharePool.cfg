SPECIFICATION FairSpec
CONSTANTS
  alice = alice
  rune = rune
  Requests <- MCRequests
  ShareIds = {1, 2, 3, 4}
  MinThreshold = 2
  Retries = 1
  Capacity = 1
  Divisibility = 1
  MaxAmount = 31
  None = None
  MaxFaults = 1
CHECK_DEADLOCK FALSE
INVARIANTS  PoolBounded StopLeavesNothing
PROPERTIES EveryCallAnswered StockRefilled
