SPECIFICATION FairSpec
CONSTANTS
  Clients = {c0, c1}
  FirstClient = c0
  Vcs = {v0, v1}
  Ports = {p0}
  p0 = p0
  None = None
  PortOf <- MCPortOf
  Depth = 2
  Sizes <- MCSizes
  FullPacket = TRUE
  PacketLock = TRUE
  IdleUnlock = FALSE
  Allocations <- MCAllocations
PROPERTIES PacketsLockThePort
