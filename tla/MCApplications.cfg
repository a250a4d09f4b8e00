SPECIFICATION MCSpec
CONSTANTS
  Terminals = {t1, t2, t3}
  NumMessages = 2
  WarmupWindow = 5
  MaxWarmupAttempts = 2
  ThresholdNum = 2
  ThresholdDen = 3
  MaxInNetwork = 1
INVARIANTS
  PacketsConserved
  Answered
  OneMessageAhead
  PhasesAgree
  LoggedOnce
  LatenciesExtracted
PROPERTIES
  WorkloadEnds
CHECK_DEADLOCK FALSE
