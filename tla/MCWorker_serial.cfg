SPECIFICATION Spec
CONSTANTS
  LogLen = 3
  MaxSessions = 2
  MaxCrashes = 1
  MaxFlushFailures = 1
  Payloads = {"valid"}
  FirstOffsets <- MCStored
  CommitOnAck = TRUE
  Graceful = FALSE
  MaxAttempts = 2
  Concurrency = 1
  Results = {"ok", "permanent", "transient"}
  Delays = {"zero", "positive"}
  Acks = {TRUE}
INVARIANTS
  NothingLost
  DeferredIsRedelivered
CHECK_DEADLOCK FALSE
