SPECIFICATION FairSpec
CONSTANTS
  Callers = {"c1"}
  Buffer = 1
  MaxFlips = 0
PROPERTIES
  ReadyMeansRefreshed
CHECK_DEADLOCK FALSE
