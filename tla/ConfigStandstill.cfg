SPECIFICATION FairSpec
CONSTANTS
  plain = plain
  full = full
  Requests = {q1, q2}
  NoOne = nobody
  Configs <- MCConfigs
  Default = plain
  NoConfig = none
  Gone = gone
  Broken = broken
  NTools = 2
  ToolsOf <- MCToolsOf
  ExposedBy <- MCExposedBy
  Governed <- MCGoverned
  WithSudo <- MCWithSudo
  MaxEdits = 1
CHECK_DEADLOCK FALSE
PROPERTY RequestsAnswered
