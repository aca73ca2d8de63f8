\* Connections and calls of the agent's MCP client, cancelled at any moment, with a
\* talkative server; and two requests to a server whose configuration is edited,
\* deleted, broken and restored.
SPECIFICATION RequestsSpec
CONSTANTS
  Legacy = TRUE
  MaxPages = 2
  MaxCalls = 5
  MaxStarts = 2
  MaxSpeaks = 1
  MaxCancels = 1
  plain = plain
  full = full
  Requests = {q1, q2}
  NoOne = nobody
  Configs <- MCConfigs
  Default = plain
  NoConfig = none
  Gone = gone
  Broken = broken
  NTools = 2
  ToolsOf <- MCToolsOf
  ExposedBy <- MCExposedBy
  Governed <- MCGoverned
  WithSudo <- MCWithSudo
  MaxEdits = 2
INVARIANTS
  AnswersTheCall
  NothingLeftBehind
  OneInEffect
  NextCallSeesEdit
  ToldTrue
  ShimThere
PROPERTIES
  CallEnds
  AnsweredOrStuck
\* The client makes only so many requests.
CHECK_DEADLOCK FALSE
