CONSTANTS
  p1 = p1
  p2 = p2
  p3 = p3
  p4 = p4
SPECIFICATION Spec
INVARIANTS
  OffersUsable
  TrafficAsMeant
  SearchFinds
PROPERTIES
  HopsClimb
  AllDelivered
CHECK_DEADLOCK FALSE
