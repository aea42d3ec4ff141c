SPECIFICATION Spec
CONSTANTS
  Inputs <- Replaced
  Limits <- MCLimits
INVARIANTS
  PerRecipient
CHECK_DEADLOCK FALSE
