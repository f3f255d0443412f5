SPECIFICATION Spec
CONSTANTS
  Verifiers = {v1, v2}
  Addrs = {a1}
  Exits = {e1, e2}
  Payings = {p1, p2}
  BtcFees = {b1}
  SparkFees = {s1}
  Requests = {r1, r2}
  None = None
  MaxFaults = 1
SYMMETRY Symmetry
CHECK_DEADLOCK FALSE
INVARIANTS TypeOK BtcFeeSettled OneExitWithoutCallback PayingInputFound 
PROPERTY ExitsApproved
