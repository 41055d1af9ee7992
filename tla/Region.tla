------------------------------- MODULE Region -------------------------------
(***************************************************************************)
(* Region.c: every call of the MAC into the regional layer names its region *)
(* and goes to that region's file.                                          *)
(***************************************************************************)
EXTENDS RegionCommon

AS923 == INSTANCE RegionAS923
AU915 == INSTANCE RegionAU915
CN470 == INSTANCE RegionCN470
CN779 == INSTANCE RegionCN779
EU433 == INSTANCE RegionEU433
EU868 == INSTANCE RegionEU868
IN865 == INSTANCE RegionIN865
KR920 == INSTANCE RegionKR920
US915 == INSTANCE RegionUS915
US915_HYBRID == INSTANCE RegionUS915_HYBRID

REGIONS == {"AS923", "AU915", "CN470", "CN779", "EU433",
            "EU868", "IN865", "KR920", "US915", "US915_HYBRID"}

(* The switch that Region.c writes in each function.                        *)
Active(region, as923, au915, cn470, cn779, eu433, eu868, in865, kr920, us915, hybrid) ==
  CASE region = "AS923" -> as923 [] region = "AU915" -> au915
    [] region = "CN470" -> cn470 [] region = "CN779" -> cn779
    [] region = "EU433" -> eu433 [] region = "EU868" -> eu868
    [] region = "IN865" -> in865 [] region = "KR920" -> kr920
    [] region = "US915" -> us915 [] region = "US915_HYBRID" -> hybrid

(* The table and the bands of a region before its first InitDefaults.       *)
Blank(region) ==
  Active(region, AS923!Plan!Blank, AU915!Plan!Blank, CN470!Plan!Blank, CN779!Plan!Blank,
         EU433!Plan!Blank, EU868!Plan!Blank, IN865!Plan!Blank, KR920!Plan!Blank,
         US915!Plan!Blank, US915_HYBRID!Plan!Blank)

(* The duty cycles of the bands, and the channels open to join requests.     *)
BandDCycle(region) ==
  Active(region, AS923!BAND_DCYCLE, AU915!BAND_DCYCLE, CN470!BAND_DCYCLE,
         CN779!BAND_DCYCLE, EU433!BAND_DCYCLE, EU868!BAND_DCYCLE, IN865!BAND_DCYCLE,
         KR920!BAND_DCYCLE, US915!BAND_DCYCLE, US915_HYBRID!BAND_DCYCLE)
JoinChannels(region) ==
  Active(region, AS923!JOIN_CHANNELS, AU915!JOIN_CHANNELS, CN470!JOIN_CHANNELS,
         CN779!JOIN_CHANNELS, EU433!JOIN_CHANNELS, EU868!JOIN_CHANNELS,
         IN865!JOIN_CHANNELS, KR920!JOIN_CHANNELS, US915!JOIN_CHANNELS,
         US915_HYBRID!JOIN_CHANNELS)

GetPhyParam(region, g, q) ==
  Active(region, AS923!GetPhyParam(g, q), AU915!GetPhyParam(g, q),
         CN470!GetPhyParam(g, q), CN779!GetPhyParam(g, q), EU433!GetPhyParam(g, q),
         EU868!GetPhyParam(g, q), IN865!GetPhyParam(g, q), KR920!GetPhyParam(g, q),
         US915!GetPhyParam(g, q), US915_HYBRID!GetPhyParam(g, q))

SetBandTxDoneOn(region, g, joined, channel) ==
  Active(region, AS923!SetBandTxDoneOn(g, joined, channel),
         AU915!SetBandTxDoneOn(g, joined, channel),
         CN470!SetBandTxDoneOn(g, joined, channel),
         CN779!SetBandTxDoneOn(g, joined, channel),
         EU433!SetBandTxDoneOn(g, joined, channel),
         EU868!SetBandTxDoneOn(g, joined, channel),
         IN865!SetBandTxDoneOn(g, joined, channel),
         KR920!SetBandTxDoneOn(g, joined, channel),
         US915!SetBandTxDoneOn(g, joined, channel),
         US915_HYBRID!SetBandTxDoneOn(g, joined, channel))

InitDefaults(region, g, type) ==
  Active(region, AS923!InitDefaults(g, type), AU915!InitDefaults(g, type),
         CN470!InitDefaults(g, type), CN779!InitDefaults(g, type),
         EU433!InitDefaults(g, type), EU868!InitDefaults(g, type),
         IN865!InitDefaults(g, type), KR920!InitDefaults(g, type),
         US915!InitDefaults(g, type), US915_HYBRID!InitDefaults(g, type))

Verify(region, attribute, value, dwell) ==
  Active(region, AS923!Verify(attribute, value, dwell),
         AU915!Verify(attribute, value, dwell), CN470!Verify(attribute, value, dwell),
         CN779!Verify(attribute, value, dwell), EU433!Verify(attribute, value, dwell),
         EU868!Verify(attribute, value, dwell), IN865!Verify(attribute, value, dwell),
         KR920!Verify(attribute, value, dwell), US915!Verify(attribute, value, dwell),
         US915_HYBRID!Verify(attribute, value, dwell))

ApplyCFList(region, g, freqs) ==
  Active(region, AS923!ApplyCFList(g, freqs), AU915!ApplyCFList(g, freqs),
         CN470!ApplyCFList(g, freqs), CN779!ApplyCFList(g, freqs),
         EU433!ApplyCFList(g, freqs), EU868!ApplyCFList(g, freqs),
         IN865!ApplyCFList(g, freqs), KR920!ApplyCFList(g, freqs),
         US915!ApplyCFList(g, freqs), US915_HYBRID!ApplyCFList(g, freqs))

ChanMaskSet(region, g, type, mask) ==
  Active(region, AS923!ChanMaskSet(g, type, mask), AU915!ChanMaskSet(g, type, mask),
         CN470!ChanMaskSet(g, type, mask), CN779!ChanMaskSet(g, type, mask),
         EU433!ChanMaskSet(g, type, mask), EU868!ChanMaskSet(g, type, mask),
         IN865!ChanMaskSet(g, type, mask), KR920!ChanMaskSet(g, type, mask),
         US915!ChanMaskSet(g, type, mask), US915_HYBRID!ChanMaskSet(g, type, mask))

AdrNext(region, g, a) ==
  Active(region, AS923!AdrNext(g, a), AU915!AdrNext(g, a), CN470!AdrNext(g, a),
         CN779!AdrNext(g, a), EU433!AdrNext(g, a), EU868!AdrNext(g, a),
         IN865!AdrNext(g, a), KR920!AdrNext(g, a), US915!AdrNext(g, a),
         US915_HYBRID!AdrNext(g, a))

RxWindow(region, dr, minRxSymbols, rxError, wakeUpTime) ==
  Active(region, AS923!RxWindow(dr, minRxSymbols, rxError, wakeUpTime),
         AU915!RxWindow(dr, minRxSymbols, rxError, wakeUpTime),
         CN470!RxWindow(dr, minRxSymbols, rxError, wakeUpTime),
         CN779!RxWindow(dr, minRxSymbols, rxError, wakeUpTime),
         EU433!RxWindow(dr, minRxSymbols, rxError, wakeUpTime),
         EU868!RxWindow(dr, minRxSymbols, rxError, wakeUpTime),
         IN865!RxWindow(dr, minRxSymbols, rxError, wakeUpTime),
         KR920!RxWindow(dr, minRxSymbols, rxError, wakeUpTime),
         US915!RxWindow(dr, minRxSymbols, rxError, wakeUpTime),
         US915_HYBRID!RxWindow(dr, minRxSymbols, rxError, wakeUpTime))

RxConfig(region, g, c) ==
  Active(region, AS923!RxConfig(g, c), AU915!RxConfig(g, c), CN470!RxConfig(g, c),
         CN779!RxConfig(g, c), EU433!RxConfig(g, c), EU868!RxConfig(g, c),
         IN865!RxConfig(g, c), KR920!RxConfig(g, c), US915!RxConfig(g, c),
         US915_HYBRID!RxConfig(g, c))

TxConfig(region, g, c) ==
  Active(region, AS923!TxConfig(g, c), AU915!TxConfig(g, c), CN470!TxConfig(g, c),
         CN779!TxConfig(g, c), EU433!TxConfig(g, c), EU868!TxConfig(g, c),
         IN865!TxConfig(g, c), KR920!TxConfig(g, c), US915!TxConfig(g, c),
         US915_HYBRID!TxConfig(g, c))

LinkAdrReq(region, g, reqs) ==
  Active(region, AS923!LinkAdrReq(g, reqs), AU915!LinkAdrReq(g, reqs),
         CN470!LinkAdrReq(g, reqs), CN779!LinkAdrReq(g, reqs), EU433!LinkAdrReq(g, reqs),
         EU868!LinkAdrReq(g, reqs), IN865!LinkAdrReq(g, reqs), KR920!LinkAdrReq(g, reqs),
         US915!LinkAdrReq(g, reqs), US915_HYBRID!LinkAdrReq(g, reqs))

RxParamSetupReq(region, drOffset, dr, freq) ==
  Active(region, AS923!RxParamSetupReq(drOffset, dr, freq),
         AU915!RxParamSetupReq(drOffset, dr, freq),
         CN470!RxParamSetupReq(drOffset, dr, freq),
         CN779!RxParamSetupReq(drOffset, dr, freq),
         EU433!RxParamSetupReq(drOffset, dr, freq),
         EU868!RxParamSetupReq(drOffset, dr, freq),
         IN865!RxParamSetupReq(drOffset, dr, freq),
         KR920!RxParamSetupReq(drOffset, dr, freq),
         US915!RxParamSetupReq(drOffset, dr, freq),
         US915_HYBRID!RxParamSetupReq(drOffset, dr, freq))

NewChannelReq(region, g, id, new) ==
  Active(region, AS923!NewChannelReq(g, id, new), AU915!NewChannelReq(g, id, new),
         CN470!NewChannelReq(g, id, new), CN779!NewChannelReq(g, id, new),
         EU433!NewChannelReq(g, id, new), EU868!NewChannelReq(g, id, new),
         IN865!NewChannelReq(g, id, new), KR920!NewChannelReq(g, id, new),
         US915!NewChannelReq(g, id, new), US915_HYBRID!NewChannelReq(g, id, new))

TxParamSetupReq(region) ==
  Active(region, AS923!TxParamSetupReq, AU915!TxParamSetupReq, CN470!TxParamSetupReq,
         CN779!TxParamSetupReq, EU433!TxParamSetupReq, EU868!TxParamSetupReq,
         IN865!TxParamSetupReq, KR920!TxParamSetupReq, US915!TxParamSetupReq,
         US915_HYBRID!TxParamSetupReq)

DlChannelReq(region, g, id, rx1) ==
  Active(region, AS923!DlChannelReq(g, id, rx1), AU915!DlChannelReq(g, id, rx1),
         CN470!DlChannelReq(g, id, rx1), CN779!DlChannelReq(g, id, rx1),
         EU433!DlChannelReq(g, id, rx1), EU868!DlChannelReq(g, id, rx1),
         IN865!DlChannelReq(g, id, rx1), KR920!DlChannelReq(g, id, rx1),
         US915!DlChannelReq(g, id, rx1), US915_HYBRID!DlChannelReq(g, id, rx1))

AlternateDr(region, g, nbTrials) ==
  Active(region, AS923!AlternateDr(g, nbTrials), AU915!AlternateDr(g, nbTrials),
         CN470!AlternateDr(g, nbTrials), CN779!AlternateDr(g, nbTrials),
         EU433!AlternateDr(g, nbTrials), EU868!AlternateDr(g, nbTrials),
         IN865!AlternateDr(g, nbTrials), KR920!AlternateDr(g, nbTrials),
         US915!AlternateDr(g, nbTrials), US915_HYBRID!AlternateDr(g, nbTrials))

CalcBackOff(region, g, b) ==
  Active(region, AS923!CalcBackOff(g, b), AU915!CalcBackOff(g, b),
         CN470!CalcBackOff(g, b), CN779!CalcBackOff(g, b), EU433!CalcBackOff(g, b),
         EU868!CalcBackOff(g, b), IN865!CalcBackOff(g, b), KR920!CalcBackOff(g, b),
         US915!CalcBackOff(g, b), US915_HYBRID!CalcBackOff(g, b))

NextChannel(region, g, p) ==
  Active(region, AS923!NextChannel(g, p), AU915!NextChannel(g, p),
         CN470!NextChannel(g, p), CN779!NextChannel(g, p), EU433!NextChannel(g, p),
         EU868!NextChannel(g, p), IN865!NextChannel(g, p), KR920!NextChannel(g, p),
         US915!NextChannel(g, p), US915_HYBRID!NextChannel(g, p))

ChannelAdd(region, g, id, new) ==
  Active(region, AS923!ChannelAdd(g, id, new), AU915!ChannelAdd(g, id, new),
         CN470!ChannelAdd(g, id, new), CN779!ChannelAdd(g, id, new),
         EU433!ChannelAdd(g, id, new), EU868!ChannelAdd(g, id, new),
         IN865!ChannelAdd(g, id, new), KR920!ChannelAdd(g, id, new),
         US915!ChannelAdd(g, id, new), US915_HYBRID!ChannelAdd(g, id, new))

ChannelsRemove(region, g, id) ==
  Active(region, AS923!ChannelsRemove(g, id), AU915!ChannelsRemove(g, id),
         CN470!ChannelsRemove(g, id), CN779!ChannelsRemove(g, id),
         EU433!ChannelsRemove(g, id), EU868!ChannelsRemove(g, id),
         IN865!ChannelsRemove(g, id), KR920!ChannelsRemove(g, id),
         US915!ChannelsRemove(g, id), US915_HYBRID!ChannelsRemove(g, id))

SetContinuousWave(region, g, c) ==
  Active(region, AS923!SetContinuousWave(g, c), AU915!SetContinuousWave(g, c),
         CN470!SetContinuousWave(g, c), CN779!SetContinuousWave(g, c),
         EU433!SetContinuousWave(g, c), EU868!SetContinuousWave(g, c),
         IN865!SetContinuousWave(g, c), KR920!SetContinuousWave(g, c),
         US915!SetContinuousWave(g, c), US915_HYBRID!SetContinuousWave(g, c))

ApplyDrOffset(region, dwell, dr, drOffset) ==
  Active(region, AS923!ApplyDrOffset(dwell, dr, drOffset),
         AU915!ApplyDrOffset(dwell, dr, drOffset),
         CN470!ApplyDrOffset(dwell, dr, drOffset),
         CN779!ApplyDrOffset(dwell, dr, drOffset),
         EU433!ApplyDrOffset(dwell, dr, drOffset),
         EU868!ApplyDrOffset(dwell, dr, drOffset),
         IN865!ApplyDrOffset(dwell, dr, drOffset),
         KR920!ApplyDrOffset(dwell, dr, drOffset),
         US915!ApplyDrOffset(dwell, dr, drOffset),
         US915_HYBRID!ApplyDrOffset(dwell, dr, drOffset))
=============================================================================
