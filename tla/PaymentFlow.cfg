\* One proof presented twice, by every pair of client libraries.  Two losses: a
\* timeout and a retry that fails as well.  One fault of POST /settle.
CONSTANTS
  Presenters = {p1, p2}
  Retries = 1
  MaxLosses = 2
  Calls <- CallIds
  Requests <- CallIds
  NoCall = NoCall
  NoRequest = NoRequest
  Rpcs = 1
  MaxFaults = 1
SYMMETRY Symmetry
SPECIFICATION FlowSpec
INVARIANTS
  ServedOnce
  PaidIsServed
CHECK_DEADLOCK FALSE
