\* Two browsers, or one and a question, with rules or an LLM that may fail.
SPECIFICATION FairSpec
CONSTANTS
  c1 = c1
  c2 = c2
  Clients = {c1, c2}
  Pushers <- ThreePushers
  QueueMax = 2
  LlmThreads <- TwoLlmThreads
  MaxCallLog = 1
  MaxAuditLog = 1
  MaxRequests <- RequestsOf
  Failures <- SomeFailures
  Bounds <- Instances
INVARIANTS
  LogsSound
  StreamsSound
  ServerSound
PROPERTIES
  AskAnswered
  StreamsDrain
  StreamsEnd
CHECK_DEADLOCK FALSE
