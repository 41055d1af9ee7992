CONSTANTS
  Classes = {"A", "C"}
  FCNT_MOD = 8
  MAX_FCNT_GAP = 3
  LORA_MAC_COMMAND_MAX_LENGTH = 8
  LORA_MAC_COMMAND_MAX_FOPTS_LENGTH = 4
  NbTrials = 2
  NbRep = 2
  TxParamSupported = TRUE
  Contents <- BothContents
  Starts <- Sessions
  Requests <- OwnRequests
  Refusals = {TRUE, FALSE}
  MAX_DOWNLINKS <- Downlinks
  MAX_UPLINKS = 2
  MAX_REQUESTS = 1
  MAX_FOREIGN = 1
SPECIFICATION Spec
INVARIANTS TypeOK BufferHolds AnswersAnnounced
PROPERTIES StickyRepeated CounterFollowsNetwork DeliveredOnceInOrder
CHECK_DEADLOCK FALSE
