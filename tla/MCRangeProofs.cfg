CONSTANTS
  g1 = g1
  g2 = g2
  Generators <- MCGenerators
  MalformedBytes = MalformedBytes
  WORD_BITS = 3
  RANGE_PROOF_BITS = 1
  MAX_RANGE_PROOF_SIZE = 180
  ForeignProofs <- MCAllProofs
  ForeignCommitments <- MCAllCommitments
  BatchProofs <- MCSomeProofs
  BatchCommitments <- MCSomeCommitments
  MaxBatch = 2
SPECIFICATION RangeSpec
INVARIANTS
  RangeTypeOK
  CreatedProofsLookAlike
  ProvableIsAccepted
  FalseMeansParsed
  VerifiedIsPositiveWord
  BatchIsEachInTurn
