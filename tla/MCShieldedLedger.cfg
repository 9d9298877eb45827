CONSTANTS
  HTR = HTR
  Custom = Custom
  Tokens <- MCTokens
  Scalars = {0, 1}
  ZERO_TWEAK = 0
  Plus <- MCPlus
  Negate <- MCNegate
  Times <- MCTimes
  Amounts <- MCAmounts
  MaxWord = 2
  Order = 7
  NoExcess = NoExcess
  Genesis <- MCGenesis
  MaxInputs = 2
  MaxOutputs = 2
  MaxUnspent = 3
SPECIFICATION Spec
INVARIANTS
  EveryOutputIsCoin
  NothingIsStuck
PROPERTIES
  ImplementsTokenLedger
