SPECIFICATION Spec
CONSTANTS
  Inputs = {}
  Limits <- MCLimits
INVARIANTS
  RateLimitedIsTransient
CHECK_DEADLOCK FALSE
