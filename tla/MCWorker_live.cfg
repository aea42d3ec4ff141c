SPECIFICATION FairSpec
CONSTANTS
  LogLen = 2
  MaxSessions = 2
  MaxCrashes = 0
  MaxFlushFailures = 1
  Payloads = {"valid"}
  FirstOffsets <- MCStored
  CommitOnAck = FALSE
  Graceful = TRUE
  MaxAttempts = 2
  Concurrency = 1
  Results = {"transient"}
  Delays = {"positive"}
  Acks = {FALSE}
PROPERTIES
  CatchesUp
  ShutdownEnds
  RecordsDrain
  WaitIsCancelled
CHECK_DEADLOCK FALSE
