SPECIFICATION FairSpec
CONSTANTS
  Verifiers = {v1}
  Deposits = {d1, d2}
  Claimed <- OneAndTwo
  Sent = {0, 1, 2}
  Exits = {x1, x2}
  Target <- ExitTwo
  None = None
  MaxU64 = 20
  MaxFaults = 1
CHECK_DEADLOCK FALSE
INVARIANTS TypeOK  SureExitDelivers
PROPERTY ConfirmationGetsThrough
