CONSTANTS
  HTR = HTR
  Custom = Custom
  Tokens <- MCTokens
  Scalars <- MCScalars
  ZERO_TWEAK = 0
  Plus <- MCPlus
  Negate <- MCNegate
  Times <- MCTimes
  Amounts <- MCAmounts
  Calls = {c1, c2}
  Buffers = {b1, b2}
  Malformed = Malformed
  WORD_BITS = 1
  ClaimedValues <- MCClaimedValues
SPECIFICATION Spec
INVARIANTS
  MatchProvesClaim
PROPERTIES
  HeldClaimGetsThrough
