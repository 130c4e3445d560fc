\* Peers that read, and a writer that is never flushed.
SPECIFICATION Spec
CONSTANTS
  COPY_BUFFER = 2
  TlsBuffer = 1
  Window = 1
  MaxBytes = 2
PROPERTY UpDelivers
CHECK_DEADLOCK FALSE
