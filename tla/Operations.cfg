\* Two streams of one request; two dashboard clients for one slot and
\* three settlements; three admin calls; two calls for a key rotated twice;
\* three settlements of two sellers, before and after a premium tier ends.
CONSTANTS
  Streams = {s1, s2}
  Clients = {d1, d2}
  MaxSse = 1
  Batch = 2
  MaxRows = 3
  MaxPolls = 2
  AdminCalls = {a1, a2, a3}
  Chains = {b1, b2}
  Spellings = {"upper", "lower"}
  NoRow = NoRow
  KeyCalls = {k1, k2}
  MaxVersion = 3
  Malformed = {2}
  w1 = w1
  w2 = w2
  Addresses = {w1, w2}
  Codes = {g1, g2}
  NoCode = NoCode
  NoExpiry = NoExpiry
  Configs <- MCConfigs
  Amounts = {3, 7}
  MaxTime = 2
  MaxSettled = 3
SPECIFICATION OpsSpec
INVARIANTS
  ListenersSubscribed
  RowsWrittenOnce
  KeyFreshAfterInvalidation
  FeesWithinRate
  PremiumIsPersonal
  StatsAccountForShares
PROPERTIES
  StreamEnds
  DisabledStaysDisabled
CHECK_DEADLOCK FALSE
