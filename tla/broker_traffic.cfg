\* All agents registered, as main() leaves them; several senders, queues that fill up.
SPECIFICATION FairSpec
CONSTANTS
  Agents = {"EA", "SA", "PA"}
  Started = {"EA", "SA", "PA"}
  Letters <- AlertLetters
  Consumers = {"PA"}
  ChurnTopics = {}
  QueueSize = 1
  MaxRetries = 2
  MaxLog = 2
  MaxDlq = 1
  AckWindow = 1
  MaxMsgs = 3
  MaxRegs = 1
  MaxChurn = 0
  MaxAcks = 0
INVARIANTS
  SenderOrder
  DeadLetterUndelivered
  UncongestedDelivery
PROPERTIES
  ImplementsMailbox
  PublishReturns
CHECK_DEADLOCK FALSE
