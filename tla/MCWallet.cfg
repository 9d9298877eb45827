CONSTANTS
  HTR = HTR
  Custom = Custom
  Tokens <- MCTokens
  Amounts <- MCAmounts
  Scalars = {0, 1, 2}
  ZERO_TWEAK = 0
  Plus <- MCPlus
  Negate <- MCNegate
  Times <- MCTimes
  Platforms = {"node", "mobile", "browser"}
  Plans <- MCPlans
  MAX_PROVABLE_AMOUNT = 3
  NoExcess = NoExcess
  Malformed = Malformed
  Unset = Unset
  MaxDrafts = 2
  MaxWrites = 1
SPECIFICATION FairSpec
CHECK_DEADLOCK FALSE
INVARIANTS
  TypeOK
  HeldIsAccepted
  CreatedOpensItself
  TokenShowsIfItShould
PROPERTIES
  ImplementsBalance
  AssemblyEnds
