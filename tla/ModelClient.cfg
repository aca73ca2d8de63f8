\* A service found by detection, which restarts once with another model.
CONSTANTS
  Configured = "auto"
  Served = {"openai", "anthropic", "responses", "ollama", "completions"}
  Histories <- const_Histories
  Answers <- const_Answers
  JSON <- const_JSON
  Objects <- const_Objects
  RetryLimit = 2
  BackoffLimit = 2
  Idle = 2
  MaxAsks = 2
  MaxRestarts = 1
SPECIFICATION Spec
CHECK_DEADLOCK FALSE
INVARIANTS
  RequestsKeepTheConversation
  StreamedReplyFaithful
  RetryLooksAgain
PROPERTIES
  GivesUpForAReason
  CompletionEnds
