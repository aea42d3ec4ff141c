SPECIFICATION Spec
CONSTANTS
  LogLen = 2
  MaxSessions = 2
  MaxCrashes = 1
  MaxFlushFailures = 1
  Payloads = {"valid", "invalid"}
  FirstOffsets <- MCAny
  CommitOnAck = TRUE
  Graceful = TRUE
  MaxAttempts = 1
  Concurrency = 2
  Results = {"ok", "transient"}
  Delays = {"positive"}
  Acks = {TRUE}
INVARIANTS
  TypeOK
  ResumesAfterSettled
  StoredBeforeOffset
PROPERTIES
  OffsetNeverRewinds
CHECK_DEADLOCK FALSE
VIEW View
