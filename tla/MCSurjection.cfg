CONSTANTS
  t1 = t1
  t2 = t2
  Tags <- MCTags
  Blindings <- MCBlindings
  MAX_SURJECTION_DOMAIN = 2
  SURJECTION_PROOF_ATTEMPTS = 2
  SubsetSize = 1
  Entries <- MCEntries
  ForeignProofs <- MCForeign
  MalformedBytes = MalformedBytes
  MaxInputs = 3
SPECIFICATION SurjectionSpec
INVARIANTS
  SurjectionTypeOK
  NeverAborts
  FailureIsFinal
  CreatedIsForThisOutput
  VerifiedAssetIsSpent
