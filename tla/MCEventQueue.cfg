SPECIFICATION Spec
CONSTANTS
  CycleTime = 2
  MaxCycle = 2
  MaxEpsilon = 1
  MaxEvents = 4
  NotYet = NotYet
INVARIANTS
  NoEventLost
  NothingLeftBehind
PROPERTIES
  SimulationRunsOut
CHECK_DEADLOCK FALSE
