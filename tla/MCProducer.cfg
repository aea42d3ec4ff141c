SPECIFICATION FairSpec
CONSTANTS
  Callers = {"c1", "c2"}
  Buffer = 2
  MaxFlips = 2
PROPERTIES
  NoLateReadiness
  ReadinessConverges
  CloseReturns
  ErrorsSurface
CHECK_DEADLOCK FALSE
