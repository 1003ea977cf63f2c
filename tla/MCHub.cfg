SPECIFICATION FairSpec
CONSTANTS
  View <- MCView
  NameOf <- MCNameOf
  PartsOf <- MCPartsOf
  FlawsOf <- MCFlawsOf
  LensOf <- MCLensOf
  PageLimit = 1
  Queries = 2
  Capacity = 1
  Attempts = 2
  PanicReads = 2
  MaxStarts = 2
  MaxFaults = 1
INVARIANTS
  Accounted
  Recovered
  RegistryKeeps
PROPERTIES
  EventsHandled
  ShutsDown
CHECK_DEADLOCK FALSE
