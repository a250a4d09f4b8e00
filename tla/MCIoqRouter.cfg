SPECIFICATION FairSpec
CONSTANTS
  c0 = c0
  c1 = c1
  v0 = v0
  v1 = v1
  Clients = {c0, c1}
  InPort <- MCInPort
  Vcs = {v0, v1}
  None = None
  FirstClient = c0
  FirstVc = v0
  OutPort = p0
  Depth = 2
  OutDepth = 1
  FullPacket = FALSE
  PacketLock = TRUE
  IdleUnlock = TRUE
  OutFullPacket = TRUE
  OutPacketLock = TRUE
  OutIdleUnlock = FALSE
  VcaSwaWait = FALSE
  RoutingLatency = 1
  XbarLatency = 1
  OutXbarLatency = 1
  Traffic <- MCTraffic
  Routes <- MCRoutes
  VcAllocations <- MCVcAllocations
  XbarAllocations <- MCXbarAllocations
  OutAllocations <- MCOutAllocations
INVARIANTS
  SlotsAreCredits
  OutputOrder
  NoLostWakeup
PROPERTIES
  UsesBothSchedulers
  AllDelivered
