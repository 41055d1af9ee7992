CONSTANTS
  NbTrials = 3
  MAX_ACK_RETRIES = 1
  MaxJoinTrials = 2
  ChannelsNbRep = 2
  CadMax = 2
  StartJoined = FALSE
  OneRequest = TRUE
  ServerAcks = TRUE
  QuietChannel = TRUE
  ShortAnswers = FALSE
  TxMayTimeOut = TRUE
  QueueLen = 2
  SentCap = 4
  Classes <- NoClass
  Uplinks <- Both
  Commands <- AllCommands
  Downlinks <- AllFrames
SPECIFICATION FairSpec
INVARIANTS
  TypeOK
  ProcedureIsDriven
  IdleIsQuiet
PROPERTIES
  ConfirmedAfterWindows
  JoinIsReported
  TransmissionNotCut
  JoinConfirmed
