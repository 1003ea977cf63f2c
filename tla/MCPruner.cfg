SPECIFICATION FairSpec
CONSTANTS
  oldBlock = oldBlock
  newBlock = newBlock
  tx = tx
  row = row
  Doc <- MCDoc
  DependentCollections <- MCDependents
  BlockCollection = "Block"
  ColOf <- MCColOf
  KnownCollection <- MCKnown
  Imported <- MCImported
  MaxDocs = 1
  MaxArrivals = 3
  MaxRestarts = 2
INVARIANTS
  NoLeak
  OldestFirst
  SnapshotKept
PROPERTIES
  RetentionFloor
  ExcessPurged
CHECK_DEADLOCK FALSE
