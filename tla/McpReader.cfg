\* The reader of a cancelled call.
CONSTANTS
  Legacy = TRUE
  MaxPages = 2
  MaxCalls = 5
  MaxStarts = 2
  MaxSpeaks = 1
  MaxCancels = 1
SPECIFICATION McpSpec
CHECK_DEADLOCK FALSE
INVARIANT LeftReaderKeepsItsPipe
