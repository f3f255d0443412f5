CONSTANTS
  Addresses <- MCAddresses
  Metadata <- MCMetadata
  Identifiers <- MCIdentifiers
  Networks = {"Bitcoin", "Testnet", "Testnet4", "Signet", "Regtest"}
  NewFields <- MCNewFields
SPECIFICATION Spec
INVARIANTS  CutShortIsRefused ForwardCompatible
CHECK_DEADLOCK FALSE
