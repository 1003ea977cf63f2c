SPECIFICATION Spec
CONSTANTS
  a1 = a1
  b1 = b1
  b1x = b1x
  b2 = b2
  off = off
  forged = forged
  neg = neg
  w1 = w1
  w2 = w2
  Sig <- MCAgreeing
  Content <- MCContent
  Parsable <- MCParsable
  Worker <- MCWorker
  QueueSize = 1
  CacheSize = 1
  MaxAttempts = 2
  MaxArrivals = 3
  MaxFaults = 0
INVARIANT SourcesMerged
CHECK_DEADLOCK FALSE
