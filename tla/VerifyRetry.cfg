\* No fault and no lost key: an attempt with an invalid signature, then the
\* buyer's own.
CONSTANTS
  Calls = {c1, c2}
  n1 = n1
  n2 = n2
  s1 = s1
  s2 = s2
  Nonces = {n1}
  Signatures = {s1, s2}
  Genuine <- OneGenuine
  NoCall = NoCall
  MaxFaults = 0
  MaxLost = 0
SPECIFICATION Spec
PROPERTY RetryNotBlocked
CHECK_DEADLOCK FALSE
