SPECIFICATION Spec
CONSTANTS
  Served = {"email", "sms", "whatsapp"}
  Recipients = 3
  Answers = {"accepted", "lost", "down", "refused", "throttled", "cut"}
  Backends = {"real", "mock"}
  Messages = {"m"}
  MessageOf <- MCMessage
  Failures = {0, 1, 2}
  Records = {"r1", "r2"}
  Sessions = {"s1"}
  Claims = {"a"}
  SessionOf <- MCSession
  ClaimOf <- MCClaim
  MaxAttempts = 2
  Concurrency = 2
  Delays = {"positive"}
  Acks = {TRUE}
INVARIANTS
  TypeOK
  SentReachesAll
  CopiesBounded
  PermanentHasReason
  MockRecovers
CHECK_DEADLOCK FALSE
