\* One FacilitatorClient alone; one storage error of POST /verify.
CONSTANTS
  Presenters = {p1}
  Retries = 1
  MaxLosses = 1
  Calls <- CallIds
  Requests <- CallIds
  NoCall = NoCall
  NoRequest = NoRequest
  Rpcs = 1
  MaxFaults = 0
SPECIFICATION FlowSpec
INVARIANT RetryAfterError
CHECK_DEADLOCK FALSE
