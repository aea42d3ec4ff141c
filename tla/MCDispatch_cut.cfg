SPECIFICATION Spec
CONSTANTS
  Served = {"sms"}
  Recipients = 2
  Answers = {"accepted", "lost", "down", "refused", "throttled", "cut"}
  Backends = {"real"}
  Messages = {"m"}
  MessageOf <- MCMessage
  Failures = {0}
  Records = {"r1"}
  Sessions = {"s1"}
  Claims = {"a"}
  SessionOf <- MCSession
  ClaimOf <- MCClaim
  MaxAttempts = 2
  Concurrency = 1
  Delays = {"positive"}
  Acks = {TRUE}
INVARIANTS
  CutIsReprocessed
CHECK_DEADLOCK FALSE
