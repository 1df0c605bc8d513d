\* A request to turn off that meets a failed network.
SPECIFICATION Spec
CONSTANTS
  EventCap = 1
  MaxAsks = 1
  MaxSleeps = 2
  MaxMedia = 0
PROPERTIES
  OffIsAcknowledged
\* The program ends.
CHECK_DEADLOCK FALSE
