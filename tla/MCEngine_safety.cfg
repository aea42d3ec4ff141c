SPECIFICATION Spec
CONSTANTS
  Records <- MCPair
  Sessions = {"s1", "s2"}
  Claims = {"a", "b"}
  SessionOf <- MCPairSession
  ClaimOf <- MCPairClaim
  MaxAttempts = 2
  Concurrency = 1
  Results = {"ok", "permanent", "transient", "unknown", "deadline", "cancelled"}
  Delays = {"zero", "positive"}
  Acks = {TRUE, FALSE}
INVARIANTS
  TypeOK
  DeliveryInv
  PermitsAccounted
  StatusOrdered
  OutcomeBeforeCommit
  DeadLetterHonest
  DeferredLeavesNoTrace
  SingleOutcome
PROPERTIES
  SendOnlyWhileOpen
  QuietAfterCommit
  ImplementsDelivery
CHECK_DEADLOCK FALSE
