\* Two kinds of session, up to three typed lines, two rounds and two calls,
\* a notification and a Ctrl-C. The goroutines are fair; the user, the model
\* and the processes are not.
SPECIFICATION BoundedSpec
CONSTANTS
  LineKinds = {"text", "partial", "hot", "stats", "yes", "exit", "always", "retry", "clear", "compress"}
  Tools = {"read", "write", "start"}
  MaxTyped = 3
  MaxNotes = 1
  MaxSignals = 1
  MaxTurns = 2
  MaxCalls = 2
  Wallclock = TRUE
INVARIANTS TypedKept HistoryWellFormed RetryAsksOnce
PROPERTIES WatcherConfined NothingHangs
\* The console really stops.
CHECK_DEADLOCK FALSE
