CONSTANTS
  Requests <- MCRequests
  Issuer = 2
  Operators <- MCOperators
  Created = {0, 999, 1500}
  Expiries <- MCExpiries
  Transactions <- MCTransactions
SPECIFICATION Spec
INVARIANTS SignedAsDescribed IdentifierAgrees HashBinds
CHECK_DEADLOCK FALSE
