SPECIFICATION Spec
INVARIANTS
  PlaybackIsCurrent
  PresentationIsTimely
PROPERTY PlaybackSettles
\* Playback ends.
CHECK_DEADLOCK FALSE
