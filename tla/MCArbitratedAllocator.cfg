SPECIFICATION Spec
CONSTANTS
  NumClients = 3
  NumResources = 2
  Iterations = 1
  SlipLatch = TRUE
  Kinds <- AllKinds
INVARIANTS
  OutcomeAllowed
PROPERTIES
  Served
