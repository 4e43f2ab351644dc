\* What the docstring promises, against queues nobody consumes.
SPECIFICATION Spec
CONSTANTS
  Agents = {"EA", "PA"}
  Started = {"EA", "PA"}
  Letters <- AlertLetters
  Consumers = {}
  ChurnTopics = {}
  QueueSize = 1
  MaxRetries = 3
  MaxLog = 2
  MaxDlq = 4
  AckWindow = 1
  MaxMsgs = 2
  MaxRegs = 1
  MaxChurn = 0
  MaxAcks = 0
INVARIANT AtLeastOnceOrDeadLetter
CHECK_DEADLOCK FALSE
