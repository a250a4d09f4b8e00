SPECIFICATION FairSpec
CONSTANTS
  Clients = {c1, c2, c3}
  Vcs = {v1, v2}
  NoClient = NoClient
  Allocations <- MCAllocations
INVARIANTS
  Exclusive
  TakenIsHeld
  NoLostRequest
PROPERTIES
  EveryRequestAnswered
  ImplementsOwnership
