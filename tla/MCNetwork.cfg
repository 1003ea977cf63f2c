SPECIFICATION FairSpec
CONSTANTS
  peer = peer
  main = main
  first = first
  second = second
  Addr <- MCAddr
  Control = main
  Attempt <- MCAttempt
  MaxRetries = 2
  MaxPending = 2
  EnableAutoReconnect = TRUE
INVARIANTS
  NoStrandedPeer
  OneDialer
  QuietStop
PROPERTIES
  StopReturns
  Reconnected
