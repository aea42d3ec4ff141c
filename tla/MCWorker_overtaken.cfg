SPECIFICATION Spec
CONSTANTS
  LogLen = 2
  MaxSessions = 2
  MaxCrashes = 1
  MaxFlushFailures = 0
  Payloads = {"valid"}
  FirstOffsets <- MCStored
  CommitOnAck = TRUE
  Graceful = FALSE
  MaxAttempts = 1
  Concurrency = 2
  Results = {"ok", "transient"}
  Delays = {"positive"}
  Acks = {TRUE}
INVARIANTS
  NothingLost
CHECK_DEADLOCK FALSE
