CONSTANTS
  NbTrials = 3
  MAX_ACK_RETRIES = 8
  MaxJoinTrials = 2
  ChannelsNbRep = 2
  CadMax = 3
  StartJoined = FALSE
  OneRequest = TRUE
  ServerAcks = TRUE
  QuietChannel = TRUE
  ShortAnswers = TRUE
  TxMayTimeOut = FALSE
  QueueLen = 2
  SentCap = 4
  Classes <- EveryClass
  Uplinks <- Both
  Commands <- OnlyJoin
  Downlinks <- NoAnswers
SPECIFICATION FairSpec
INVARIANTS
  ProcedureIsDriven
  TransmissionsBounded
  CounterNotReused
PROPERTIES
  AckIsReported
  UplinkConfirmed
