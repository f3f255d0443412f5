SPECIFICATION Spec
CONSTANTS
  Verifiers = {v1, v2}
  Deposits = {d1}
  Claimed <- AllTwos
  Sent = {2}
  Exits = {x1}
  Target <- ExitOne
  None = None
  MaxU64 = 20
  MaxFaults = 0
CHECK_DEADLOCK FALSE
INVARIANT RowsNameOwnOutputs
