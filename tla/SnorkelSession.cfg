\* Both copies, with peers that read.
SPECIFICATION Spec
CONSTANTS
  COPY_BUFFER = 2
  TlsBuffer = 1
  Window = 1
  MaxBytes = 3
INVARIANTS TypeOK NothingLostByEof
PROPERTIES EofEndsBoth DownDelivers
CHECK_DEADLOCK FALSE
