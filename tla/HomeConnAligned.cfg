\* A read that other branches cut short.
SPECIFICATION Spec
CONSTANTS
  LengthSize = 2
  FrameSize = 3
  MaxFrames = 2
  MaxOut = 2
INVARIANT ReaderAligned
CHECK_DEADLOCK FALSE
