CONSTANTS
  Draws <- Ends
  RegionBlank <- Blank
  RegionBandDCycle <- BandDCycle
  RegionJoinChannels <- JoinChannels
  RegionGetPhyParam <- GetPhyParam
  RegionSetBandTxDone <- SetBandTxDoneOn
  RegionInitDefaults <- InitDefaults
  RegionVerify <- Verify
  RegionApplyCFList <- ApplyCFList
  RegionChanMaskSet <- ChanMaskSet
  RegionAdrNext <- AdrNext
  RegionComputeRxWindowParameters <- RxWindow
  RegionRxConfig <- RxConfig
  RegionTxConfig <- TxConfig
  RegionLinkAdrReq <- LinkAdrReq
  RegionRxParamSetupReq <- RxParamSetupReq
  RegionNewChannelReq <- NewChannelReq
  RegionTxParamSetupReq <- TxParamSetupReq
  RegionDlChannelReq <- DlChannelReq
  RegionAlternateDr <- AlternateDr
  RegionCalcBackOff <- CalcBackOff
  RegionNextChannel <- NextChannel
  RegionChannelAdd <- ChannelAdd
  RegionChannelsRemove <- ChannelsRemove
  RegionSetContinuousWave <- SetContinuousWave
  RegionApplyDrOffset <- ApplyDrOffset
  Regions <- AllRegions
  AdrModes <- Modes
  Rates = {3}
  PayloadLen = 20
  FrameTypes <- Frames
  ConfirmedTrials = 3
  Attempts = {}
  SilentUplinks <- Silent
  Durations <- Times
  Accepts <- AllAccepts
  Commands <- AllCommands
  Settings <- AllSettings
  Tested = {"EU433", "US915_HYBRID"}
  CAD_CNT_MAX = 2
  MAX_REQUESTS = 3
  MAX_EDITS = 1
SPECIFICATION FairSpec

INVARIANTS TypeOK SentWhereAllowed TimeOffRespected WindowHearsPreamble PowerLegal
PROPERTIES SearchEnds NoChannelFavoured
