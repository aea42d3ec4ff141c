SPECIFICATION Spec
CONSTANTS
  Inputs <- MCInputs
  Limits <- MCLimits
INVARIANTS
  StatusAgrees
  OverloadIsRetried
  MapOrderHarmless
  AcceptedReachesAll
  OwnFieldsKept
CHECK_DEADLOCK FALSE
