CONSTANTS
  alice = alice
  bob = bob
  HTR = HTR
  Custom = Custom
  r1 = r1
  r2 = r2
  Keys <- MCKeys
  WalletKey = alice
  Tokens <- MCTokens
  Blindings <- MCBlindings
  Positions <- MCPositions
  Chains <- MCChains
  Transparent = Transparent
  MaxCalls = 2
SPECIFICATION ScanSpec
CHECK_DEADLOCK FALSE
INVARIANTS
  ScanTypeOK
  FailuresAreLoud
  ResultsAreFreed
  OwnOutputRecovered
  RecoveredReproducesCommitments
  ForeignIsSkipped
PROPERTY ScanEnds
