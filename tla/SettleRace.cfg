\* No fault: two calls race between the existing check and the lock.
CONSTANTS
  Calls = {c1, c2}
  Requests = {r1}
  NoCall = NoCall
  NoRequest = NoRequest
  Rpcs = 1
  MaxFaults = 0
SPECIFICATION Spec
PROPERTY ConfirmedNeverReprocessed
CHECK_DEADLOCK FALSE
