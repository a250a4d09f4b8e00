SPECIFICATION Spec
CONSTANTS
  Logs <- TwoMessages
  AssertsOn = TRUE
INVARIANT LogUnderstood
CHECK_DEADLOCK FALSE
