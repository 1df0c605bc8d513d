\* Discovery: one peer, queues of two, two retries.
SPECIFICATION Spec
CONSTANTS
  p1 = p1
  Peers <- OnePeer
  RetryLimit = 2
  QueueCap = 2
  MaxGen = 3
\* Off, with MaxGen reached, has no next step.
CHECK_DEADLOCK FALSE
INVARIANTS
  OwnedAndQuiet
  ActiveHasOneDriver
  ReadyOnLiveServicesOnly
PROPERTIES
  OnlyTheUserReopens
  ScanSettles
  OffCompletes
