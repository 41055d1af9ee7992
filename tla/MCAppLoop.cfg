CONSTANTS
  Sources <- AllSources
  Reads <- PipeReads
  Texts <- TextLengths
  Ranges <- ChannelRanges
  fixed_data_len = 8
  LORAWAN_APP_DATA_MAX_SIZE = 128
SPECIFICATION Spec
INVARIANTS TypeOK ChannelsAsConfigured PayloadInBounds
PROPERTIES KeepsSending NextTxRecovers
CHECK_DEADLOCK FALSE
