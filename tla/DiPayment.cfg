\* Two verifications over two nonces, one of them in two
\* spellings, and two signatures, two settle calls, one
\* fault or lost key.
CONSTANTS
  Calls = {c1, c2}
  Requests = {r1, r2}
  NoCall = NoCall
  NoRequest = NoRequest
  n1 = n1
  N1 = N1
  n2 = n2
  s1 = s1
  s2 = s2
  Nonces = {n1, N1, n2}
  Lower <- LowerCase
  Signatures = {s1, s2}
  Genuine <- GenuinePayloads
  Rpcs = 1
  MaxFaults = 1
SPECIFICATION DiSpec
SYMMETRY Symmetry
INVARIANTS
  OneRequestPaid
  KeysFollowRows
  LockExclusionUntilFailure
PROPERTY ImplementsContract
CHECK_DEADLOCK FALSE
