SPECIFICATION Spec
CONSTANTS
  Verifiers = {v1, v2}
  Addrs = {a1}
  Outpoints = {o1}
  Bridges = {b1}
  Requests = {r1}
  Runes = {rune}
  RuneOf <- MCRuneOf
  Shares = {1, 2}
  IssuedFor <- NoTokens
  None = None
  MaxFaults = 0
CHECK_DEADLOCK FALSE
INVARIANT MintAtMostOnce
