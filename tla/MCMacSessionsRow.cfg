SPECIFICATION Spec
CONSTANTS
  Peers = {"far"}
  Dials = {"far"}
  Identities = {"a", "b"}
  Inbounds = {1}
  QueueCap = 2
INVARIANT ConnectingIsPending
\* Services that are closed stay closed.
CHECK_DEADLOCK FALSE
