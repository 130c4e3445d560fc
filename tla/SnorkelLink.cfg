\* Reconnecting until told to stop, or --once; every --server value of up to six lexemes,
\* and those with a scope behind a host of up to three.
CONSTANTS
  MaxAttempts = 9
  MaxLexemes = 6
  MaxScoped = 3
SPECIFICATION Spec
INVARIANTS TypeOK StreamsPaired OnceDialsOnce ExitZeroMeans
  ParsedAsSpelled
PROPERTIES BackoffGrows ShutdownStops KeepsDialing
CHECK_DEADLOCK FALSE
