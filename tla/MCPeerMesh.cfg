\* The outbound mesh: one peer with two identities and two addresses.
SPECIFICATION Spec
CONSTANTS
  p1 = p1
  p2 = p2
  k1 = k1
  k2 = k2
  a1 = a1
  a2 = a2
  NoRecord = NoRecord
  NoRow = NoRow
  NoEntry = NoEntry
  NoAttempt = NoAttempt
  Peers <- OnePeer
  Keys <- TwoKeys
  NodeKeys <- SecondKey
  Addrs <- TwoAddrs
  RetryLimit = 2
  QueueCap = 2
  MaxGen = 3
INVARIANTS
  OwnedAndQuiet
  RowShowsTheSession
PROPERTIES
  HealthySessionIsKept
  DeadlineIsNotExtended
  KnownPeerIsSettled
  OffCompletes
