CONSTANTS
  Classes = {"A"}
  FCNT_MOD = 8
  MAX_FCNT_GAP = 3
  LORA_MAC_COMMAND_MAX_LENGTH = 8
  LORA_MAC_COMMAND_MAX_FOPTS_LENGTH = 4
  NbTrials = 2
  NbRep = 2
  TxParamSupported = TRUE
  Contents <- BothContents
  Starts <- Sessions
  Requests <- OwnRequests
  Refusals = {FALSE}
  MAX_DOWNLINKS <- Downlinks
  MAX_UPLINKS = 3
  MAX_REQUESTS = 1
  MAX_FOREIGN = 1
SPECIFICATION Spec
INVARIANT StickyOnce
CHECK_DEADLOCK FALSE
