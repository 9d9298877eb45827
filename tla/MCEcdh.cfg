CONSTANTS
  alice = alice
  bob = bob
  e1 = e1
  Recipients <- MCRecipients
  Ephemerals <- MCEphemerals
  Unparsable = Unparsable
  MaxRejected = 2
SPECIFICATION Spec
INVARIANTS
  NoncesAgree
  OnlyUnusedKeyIsLeft
