SPECIFICATION FairSpec
CONSTANTS
  low = low
  mid = mid
  high = high
  forged = forged
  File <- MCFile
  StartBlock <- MCStart
  EndBlock <- MCEnd
  Signed <- MCSigned
  WithSignature <- MCWithSignature
  Genuine <- MCGenuine
  WithRoots <- MCWithRoots
  HistoricalRanges <- MCRanges
  OrderByIndex = TRUE
  Live <- MCLive
  MaxFaults = 2
  MaxStarts = 2
INVARIANTS
  OnlyVerified
  AttestedImported
  CleanSeed
  AllIndexed
PROPERTY BootEnds
CHECK_DEADLOCK FALSE
