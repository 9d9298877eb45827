CONSTANTS
  HTR = HTR
  Custom = Custom
  Tokens <- MCTokens
  Scalars <- MCScalars
  ZERO_TWEAK = 0
  Plus <- MCPlus
  Negate <- MCNegate
  Times <- MCTimes
  Amounts <- MCAmounts
  MAX_PROVABLE_AMOUNT = 1
  NoExcess = NoExcess
  MaxInputs = 2
  MaxOutputs = 1
SPECIFICATION Spec
INVARIANT TypeOK
PROPERTY ImplementsBalance
