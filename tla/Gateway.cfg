\* Two concurrent requests of two sellers: a rotation can authenticate before
\* and write after another one, or after the seller was deactivated.
CONSTANTS
  r1 = r1
  r2 = r2
  s1 = s1
  s2 = s2
  Requests = {r1, r2}
  Sellers = {s1, s2}
  NoSeller = NoSeller
  Hooks = {h1}
  Devices = {d1}
  MaxKeys = 3
  PayKeys = {1}
  Limit = 1
  Window = 1
  Lifetime = 1
  MaxFaults = 1
SPECIFICATION Spec
SYMMETRY Symmetry
INVARIANTS
  RevokedStaysRevoked
  StuckOnlyAfterFault
  KeysHandedOutOnce
PROPERTY OthersUntouched
CHECK_DEADLOCK FALSE
