SPECIFICATION Spec
INVARIANT ResultsOptimal
CHECK_DEADLOCK FALSE
