\* The media slot: two remote screens, a queue of one, three activities.
SPECIFICATION Spec
CONSTANTS
  p1 = p1
  p2 = p2
  NoPath = NoPath
  Paths <- TwoPaths
  QueueCap = 1
  MaxGen = 3
INVARIANTS
  TypeOK
  SlotOwnsTheOnlyTask
  NoHandlerPanics
  DirectoryHasRoutes
  OnlyTheCurrentViewIsShown
  OffLeavesNothingBehind
PROPERTIES
  ImplementsLease
  EndedActivityFreesTheSlot
