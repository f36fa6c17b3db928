CONSTANTS
  Notes = {n1, n2}
  NoNote = NoNote
  Workers = {w1, w2}
  Events = {settled, failed}
  MaxAttempts = 2
  MaxStalled = 1
  MaxTime = 1
  MaxFaults = 1
SPECIFICATION FairSpec
INVARIANTS
  SuccessMeansAcked
  NoEventLost
PROPERTIES
  JobsEnd
CHECK_DEADLOCK FALSE
