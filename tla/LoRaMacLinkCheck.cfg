CONSTANTS
  NbTrials = 2
  MAX_ACK_RETRIES = 8
  MaxJoinTrials = 2
  ChannelsNbRep = 2
  CadMax = 2
  StartJoined = FALSE
  OneRequest = TRUE
  ServerAcks = TRUE
  QuietChannel = TRUE
  ShortAnswers = FALSE
  TxMayTimeOut = FALSE
  QueueLen = 2
  SentCap = 4
  Classes <- NoClass
  Uplinks <- Both
  Commands <- AllCommands
  Downlinks <- AllFrames
SPECIFICATION Spec
INVARIANT CounterNotReused
