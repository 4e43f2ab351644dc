\* Re-registration, subscription changes and acknowledgements under traffic.
SPECIFICATION Spec
CONSTANTS
  Agents = {"EA", "PA"}
  Started = {"PA"}
  Letters <- AdminLetters
  Consumers = {"PA"}
  ChurnTopics = {"broadcast"}
  QueueSize = 1
  MaxRetries = 2
  MaxLog = 1
  MaxDlq = 1
  AckWindow = 1
  MaxMsgs = 2
  MaxRegs = 2
  MaxChurn = 2
  MaxAcks = 1
INVARIANTS
  ChannelsSound
CHECK_DEADLOCK FALSE
