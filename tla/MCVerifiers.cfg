CONSTANTS
  HTR = HTR
  Tokens <- MCTokens
  Amounts <- MCAmounts
  Scalars = {0, 1, 2}
  ZERO_TWEAK = 0
  Plus <- MCPlus
  Negate <- MCNegate
  Times <- MCTimes
  Platforms = {"node", "browser"}
  MaxWord = 1
  ClaimedAmounts <- MCClaimedAmounts
  Malformed = Malformed
  ChainPoints <- MCChainPoints
  NoExcess = NoExcess
  MaxEntries = 3
SPECIFICATION Spec
INVARIANTS
  PlatformsAgree
  ThrowsMeansMalformed
  SumAgreesWithBalance
CHECK_DEADLOCK FALSE
