SPECIFICATION AnySpec
CONSTANTS
  Peers = {"far"}
  Dials = {"far"}
  Identities = {"a", "b"}
  Inbounds = {1}
  QueueCap = 2
  MaxInbound = 3
  LinuxQueueCap = 2
  WinPeers = {"far", "near"}
  WinDials = {"far"}
  WinInbounds = {1}
  WinQueueCap = 2
  MaxGen = 2
INVARIANTS
  RowsFollowSessions
  InboundIsTrue
PROPERTY SessionsSettle
\* Services that are closed stay closed.
CHECK_DEADLOCK FALSE
