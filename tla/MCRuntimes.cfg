CONSTANTS
  MediaCap    = 1
  ViewCap     = 1
  MaxServices = 1
  WinMaxMedia = 2
  MaxViews    = 2
  EventCap    = 1
  MaxAsks     = 2
  MaxSleeps   = 2
  MaxMedia    = 1
  FewSleeps   = 1
  FewMedia    = 0
SPECIFICATION AnySpec
INVARIANTS
  OneOwner
  NetworkFollowsRequests
PROPERTIES
  ImplementsLease
  RequestsEnd
\* The programs end.
CHECK_DEADLOCK FALSE
