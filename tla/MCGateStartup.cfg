SPECIFICATION Spec
CONSTANTS
  h1 = h1
  h2 = h2
  withAddress = withAddress
  without = without
  Handler <- MCHandler
  View <- MCView
  Addressed <- MCView
  Concurrency = 1
  MaxRestarts = 1
INVARIANT ViewsBilled
CHECK_DEADLOCK FALSE
