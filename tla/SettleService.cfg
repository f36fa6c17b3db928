\* Concurrent calls of one request under fair scheduling.  Two faults: a crash
\* and a storage error, or two crashes.  No symmetry, since liveness is checked.
CONSTANTS
  Calls = {c1, c2}
  Requests = {r1}
  NoCall = NoCall
  NoRequest = NoRequest
  Rpcs = 2
  MaxFaults = 2
SPECIFICATION FairSpec
INVARIANTS
  RetryNeverResubmits
  ReceiptMeansPaid
  ConfirmedAnswersAgree
  LockExclusion
  FailureOnRecord
PROPERTIES
  ImplementsContract
  ProcessingResolves
CHECK_DEADLOCK FALSE
