SPECIFICATION FairSpec
CONSTANTS
  r1 = r1
  r2 = r2
  r3 = r3
  payer = payer
  Request <- MCRequest
  Payer <- MCPayer
  PayerOf <- MCPayerOf
  Balance <- MCBalance
  MinBalance = 1
  EpochLength = 2
  MaxHeight = 2
INVARIANTS
  AllowSound
  DenySound
PROPERTIES
  ClockMonotone
  Answered
