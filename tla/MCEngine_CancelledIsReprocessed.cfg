SPECIFICATION Spec
CONSTANTS
  Records <- MCSolo
  Sessions = {"s1"}
  Claims = {"a"}
  SessionOf <- MCSoloSession
  ClaimOf <- MCSoloClaim
  MaxAttempts = 2
  Concurrency = 1
  Results = {"ok", "permanent", "transient", "unknown", "deadline", "cancelled"}
  Delays = {"zero", "positive"}
  Acks = {TRUE, FALSE}
INVARIANTS
  CancelledIsReprocessed
CHECK_DEADLOCK FALSE
