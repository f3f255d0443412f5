SPECIFICATION FairSpec
CONSTANTS
  Verifiers = {v1, v2}
  Shares = {s1}
  Flows = {f1, f2, f3}
  None = None
  MaxFaults = 1
INVARIANTS TypeOK FinalizedAgree OneFlowPastRound1
PROPERTIES NoRegress DkgCompletes
CHECK_DEADLOCK FALSE
