\* Two calls, the reaper and the timer, or one call and the shutdown, race over
\* one process; then up to three processes in a registry of two.  Calls that race
\* for one listener of links; every way the listeners end; updates that stop
\* anywhere.
SPECIFICATION LifeSpec
CONSTANTS
  MaxStarts = 3
  MaxProcesses = 2
  Clients = {c1, c2}
  Codes = {0, 1}
  Callers = {d1, d2}
  MaxLinks = 2
  Ttls = {1, 2}
  MaxToken = 3
  MaxTime = 1
  Nobody = nobody
  Ports = {http, https}
  MaxReleases = 3
INVARIANTS
  EndedMeansGone
  AnswersTrue
  ExitTellsFailure
  BinaryNeverLost
PROPERTIES
  BoundedLife
  TableSpec
  LinksBounded
  LinksAndSocketsGo
  HalfUpNeverStays
\* The server really stops.
CHECK_DEADLOCK FALSE
