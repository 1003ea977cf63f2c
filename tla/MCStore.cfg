SPECIFICATION FairStoreSpec
CONSTANTS
  Document <- MCDoc
  Config <- MCConfig
  Dependents <- MCDependents
  MaxBlocks = 2
  Limit = 2
  MaxOffers = 3
  MaxFaults = 1
INVARIANTS
  NewestKept
  FilterConsistent
PROPERTIES
  SpanShrinks
CHECK_DEADLOCK FALSE
