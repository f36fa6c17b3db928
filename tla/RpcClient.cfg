\* Two concurrent calls: one keeps failing on a breaker the other has opened.
CONSTANTS
  Slots = {c1, c2}
  FailureThreshold = 2
  SuccessThreshold = 2
  ResetTicks = 1
  MaxRetries = 2
SPECIFICATION FairRpcSpec
INVARIANTS
  OutageTrips
  LateAttemptsBounded
PROPERTY BreakerRecovers
CHECK_DEADLOCK FALSE
