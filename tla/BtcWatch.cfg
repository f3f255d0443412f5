SPECIFICATION FairSpec
CONSTANTS
  d1 = d1
  f1 = f1
  Deposits = {d1}
  Fees = {f1}
  FeeOf <- PaysFee
  Delta = 1
  MaxTip = 4
  MaxFaults = 1
  None = None
INVARIANTS TypeOK ReportSound RowMatchesReport NoVerdictLost
PROPERTY DeepDepositReported
