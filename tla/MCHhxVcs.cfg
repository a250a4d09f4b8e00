CONSTANT
  p1 = p1
SPECIFICATION Spec
INVARIANT ResponseNeverEmpty
CHECK_DEADLOCK FALSE
