SPECIFICATION FairSpec
CONSTANTS
  h1 = h1
  h2 = h2
  withAddress = withAddress
  without = without
  Handler <- MCHandler
  View <- MCView
  Addressed <- MCAddressed
  Concurrency = 1
  MaxRestarts = 1
INVARIANTS
  OneRecordEach
  ActiveViewsGated
  QuietClose
PROPERTIES
  SubmitReturns
  CloseReturns
CHECK_DEADLOCK FALSE
