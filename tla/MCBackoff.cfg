SPECIFICATION Spec
CONSTANTS
  Width = 9
  Platforms = {"amd64", "arm64"}
  LastAttempt = 12
  Environments <- MCEnvironments
  Services = {"email", "sms", "whatsapp"}
  Brokers = {TRUE, FALSE}
  Second = 2
INVARIANTS
  DelayWithinLimit
  JitterIsFull
  StartsAsConfigured
  RefusedForCause
CHECK_DEADLOCK FALSE
