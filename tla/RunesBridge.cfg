SPECIFICATION FairSpec
CONSTANTS
  Verifiers = {v1, v2}
  Addrs = {a1, a2}
  Outpoints = {o1}
  Bridges = {b1}
  Requests = {r1, r2}
  Runes = {rune, newRune}
  RuneOf <- MCRuneOf
  Shares = {1, 2, 3}
  IssuedFor <- TokenExists
  None = None
  MaxFaults = 1
CHECK_DEADLOCK FALSE
INVARIANTS TypeOK MintBacked RowOutlivesTask
PROPERTIES NothingIsReset MintsApproved RecordedDepositMinted
