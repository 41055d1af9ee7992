-------------------------- MODULE RegionInterface --------------------------
(***************************************************************************)
(* Region.h: what the MAC knows of the regional layer, the functions it     *)
(* calls.  Each takes the region, and the static variables g of its file,   *)
(* and returns what Region.c returns.                                       *)
(***************************************************************************)
EXTENDS RegionCommon

CONSTANTS
  RegionBlank(_),                  \* the variables before the first InitDefaults
  RegionBandDCycle(_),             \* band -> the inverse of its duty cycle
  RegionJoinChannels(_),           \* the channels open to join requests
  RegionGetPhyParam(_, _, _),
  RegionSetBandTxDone(_, _, _, _),
  RegionInitDefaults(_, _, _),
  RegionVerify(_, _, _, _),
  RegionApplyCFList(_, _, _),
  RegionChanMaskSet(_, _, _, _),
  RegionAdrNext(_, _, _),
  RegionComputeRxWindowParameters(_, _, _, _, _),
  RegionRxConfig(_, _, _),
  RegionTxConfig(_, _, _),
  RegionLinkAdrReq(_, _, _),
  RegionRxParamSetupReq(_, _, _, _),
  RegionNewChannelReq(_, _, _, _),
  RegionTxParamSetupReq(_),
  RegionDlChannelReq(_, _, _, _),
  RegionAlternateDr(_, _, _),
  RegionCalcBackOff(_, _, _),
  RegionNextChannel(_, _, _),      \* every result that the call may have
  RegionChannelAdd(_, _, _, _),
  RegionChannelsRemove(_, _, _),
  RegionSetContinuousWave(_, _, _),
  RegionApplyDrOffset(_, _, _, _)

(* The regions that hop over their narrow channels.                         *)
HopRegions == {"US915", "US915_HYBRID", "AU915"}
Narrow == 0 .. 63

(* What RegionGetPhyParam is asked for; the MAC never asks for the lowest   *)
(* rate of a downlink.                                                      *)
Query(attribute, dr, dwell) ==
  [attribute |-> attribute, dr |-> dr, uplinkDwellTime |-> dwell, downlinkDwellTime |-> 0]

(* The attributes that depend on nothing else.                              *)
Default(r, attribute) == RegionGetPhyParam(r, RegionBlank(r), Query(attribute, 0, 0))
=============================================================================
