SPECIFICATION MCSpec
CONSTANTS
  c0 = c0
  c1 = c1
  i0 = i0
  v0 = v0
  v1 = v1
  p0 = p0
  p1 = p1
  None = None
  Clients = {c0, c1}
  FirstClient = c0
  Vcs = {v0, v1}
  Ports = {p0}
  InPort <- MCInPort
  PortOf <- MCPortOf
  Depth = 2
  DownDepth = 2
  FullPacket = TRUE
  PacketLock = TRUE
  IdleUnlock = FALSE
  VcaSwaWait = FALSE
  RoutingLatency = 1
  XbarLatency = 1
  CongestionLatency = 1
  Traffic <- MCTraffic
  Routes <- MCRoutes
  VcAllocations <- MCVcAllocations
  XbarAllocations <- MCXbarAllocations
INVARIANTS
  BuffersHold
  OrderIsKept
  NoLostWakeup
  StatusFollows
PROPERTIES
  UsesBothSchedulers
  AllDelivered
