\* One connection; a write ends.
SPECIFICATION Spec
CONSTANTS
  LengthSize = 2
  FrameSize = 3
  MaxFrames = 2
  MaxOut = 2
INVARIANTS TypeOK EndReachesHub EofIsLast
PROPERTY DroppedEnds
CHECK_DEADLOCK FALSE
