SPECIFICATION FairSpec
CONSTANTS
  low = low
  mid = mid
  high = high
  forged = forged
  File <- MCFile
  StartBlock <- MCStart
  EndBlock <- MCEnd
  Signed <- MCSigned
  WithSignature <- MCWithSignature
  Genuine <- MCGenuine
  WithRoots <- MCWithRoots
  HistoricalRanges <- MCRanges
  OrderByIndex = FALSE
  Live <- MCLive
  MaxFaults = 0
  MaxStarts = 2
PROPERTY SkippedPresent
CHECK_DEADLOCK FALSE
