\* Three concurrent verifications over two nonces and two signatures; n2 has no
\* genuine signature.  One fault and one lost key.
CONSTANTS
  Calls = {c1, c2, c3}
  n1 = n1
  n2 = n2
  s1 = s1
  s2 = s2
  Nonces = {n1, n2}
  Signatures = {s1, s2}
  Genuine <- GenuinePayloads
  NoCall = NoCall
  MaxFaults = 1
  MaxLost = 1
SPECIFICATION Spec
SYMMETRY Symmetry
INVARIANTS
  AcceptedKeysKept
  AcceptedAnswersStored
  ClaimExclusion
  NonceReleased
CHECK_DEADLOCK FALSE
