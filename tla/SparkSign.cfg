SPECIFICATION FairSpec
CONSTANTS
  k1 = k1
  Sends = {s1, s2}
  Keys = {k1}
  KeyOf <- OneKey
  Signers = {v1}
  Operators = {o1, o2}
  MaxTries = 2
  MaxFaults = 2
  MaxLapses = 1
CHECK_DEADLOCK FALSE
INVARIANT CommitFullySigned
PROPERTIES CallContract SendCompletes
