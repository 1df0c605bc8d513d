SPECIFICATION FairSpec
CONSTANTS
  Selections = {"a", "b", "none", "unsupported"}
  Lengths = {3}
  Gaps = {0, 1}
  Chunk = 2
  Ceiling = 1
  SinkCapacity = 3
  EventCapacity = 2
  MaxFrames = 3
  MaxGenerations = 2
PROPERTY SoundIsAccounted
PROPERTY GenerationEnds
