CONSTANTS
  Execs = {e1, e2, e3, e4}
  NoExec = NoExec
  Rpcs = 2
  MaxAttempts = 3
  MaxStalled = 1
  MaxFaults = 1
SPECIFICATION FairSpec
INVARIANTS
  ReceiptTrail
  FailedOnlyWhenDue
PROPERTIES
  ConfirmedKept
  ProcessingResolves
CHECK_DEADLOCK FALSE
