CONSTANTS
  alice = alice
  bob = bob
  HTR = HTR
  Custom = Custom
  r1 = r1
  r2 = r2
  Keys <- MCKeys
  WalletKey = alice
  Tokens <- MCTokens
  Blindings <- MCBlindings
  Positions <- MCOnePosition
  Chains <- MCOneOutput
  Transparent = Transparent
  MaxCalls = 1
SPECIFICATION ScanSpec
CHECK_DEADLOCK FALSE
INVARIANT SkippedIsNotMalformed
