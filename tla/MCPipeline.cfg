SPECIFICATION FairSpec
CONSTANTS
  x1 = x1
  x2 = x2
  y = y
  w1 = w1
  w2 = w2
  Job <- MCJob
  DocOf <- MCDocOf
  DataOf <- MCDataOf
  Writer <- MCWriter
  QueueSize = 2
  BatchSize = 2
  MaxConcurrent = 2
  MaxRetries = 2
  MaxFaults = 1
INVARIANTS
  SavedKept
PROPERTIES
  TwoPools
CHECK_DEADLOCK FALSE
