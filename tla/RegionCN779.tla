---------------------------- MODULE RegionCN779 -----------------------------
(***************************************************************************)
(* One band with a duty cycle of 1 %.                                       *)
(***************************************************************************)
EXTENDS RegionCommon

MAX_NB_CHANNELS == 16
NB_JOIN_TRIALS == 48
NUMB_DEFAULT_CHANNELS == 3
NUMB_CHANNELS_CF_LIST == 5
TX_MIN_DATARATE == 0
TX_MAX_DATARATE == 7
RX_MIN_DATARATE == 0
RX_MAX_DATARATE == 7
DEFAULT_DATARATE == 5
DEFAULT_DATARATES == 0 .. 5
DWELL_LIMIT_DATARATES == {}
MAX_RX1_DR_OFFSET == 5
MIN_TX_POWER == 5
MAX_TX_POWER == 0
MAX_EIRP == 1215
ANTENNA_GAIN == 215
ADR_ACK_LIMIT == 64
ADR_ACK_DELAY == 32
DUTY_CYCLE_ENABLED == TRUE
RX_WND_2_FREQ == 7860000
RX_WND_2_DR == 0
BAND_DCYCLE == Table(<<100>>)
LC == [c \in 0 .. 2 |-> Channel(7795000 + 2000 * c, 0, 5, 0)]
DEFAULT_MASK == 0 .. 2
JOIN_CHANNELS == 0 .. 2
DATARATES == Table(<<12, 11, 10, 9, 8, 7, 7, 50>>)
BANDWIDTHS == Table(<<125, 125, 125, 125, 125, 125, 250, 0>>)
MaxPayload(dr, dwell) == <<51, 51, 51, 115, 242, 242, 242, 242>>[dr + 1]
LISTEN_BEFORE_TALK == FALSE
DEFAULT_RANGE_FIXED == TRUE

GetNextLowerTxDr(dr, minDr) == IF dr = minDr THEN minDr ELSE Int8(dr - 1)
LimitTxPower(txPower, dr, mask) == Max({txPower, MAX_TX_POWER})
Budget(freq, maxEirp, antennaGain) == maxEirp - antennaGain
VerifyTxFreq(freq) == IF ValueInRange(freq, 7795000, 7865000) THEN {0} ELSE {}
Reenabled(mask) == mask \cup DEFAULT_MASK
Rx1Frequency(g, channel) ==
  LET c == g.channels[channel] IN IF c.rx1 # 0 THEN c.rx1 ELSE c.freq

Plan == INSTANCE DynamicPlan

GetPhyParam(g, q) == Plan!GetPhyParam(g, q)
SetBandTxDoneOn(g, joined, channel) == Plan!SetBandTxDoneOn(g, joined, channel)
InitDefaults(g, type) == Plan!InitDefaults(g, type)
Verify(attribute, value, dwell) == Plan!Verify(attribute, value, dwell)
ApplyCFList(g, freqs) == Plan!ApplyCFList(g, freqs)
ChanMaskSet(g, type, mask) == Plan!ChanMaskSet(g, type, mask)
AdrNext(g, a) == Plan!AdrNext(g, a)
RxWindow(dr, minRxSymbols, rxError, wakeUpTime) ==
  Plan!RxWindow(dr, minRxSymbols, rxError, wakeUpTime)
RxConfig(g, c) == Plan!RxConfig(g, c)
TxConfig(g, c) == Plan!TxConfig(g, c)
LinkAdrReq(g, reqs) == Plan!LinkAdrReq(g, reqs)
RxParamSetupReq(drOffset, dr, freq) == Plan!RxParamSetupReq(drOffset, dr, freq)
NewChannelReq(g, id, new) == Plan!NewChannelReq(g, id, new)
TxParamSetupReq == -1
DlChannelReq(g, id, rx1) == Plan!DlChannelReq(g, id, rx1)
AlternateDr(g, nbTrials) == Plan!AlternateDr(g, nbTrials)
CalcBackOff(g, b) == Plan!CalcBackOff(g, b)
NextChannel(g, p) == Plan!NextChannel(g, p)
ChannelAdd(g, id, new) == Plan!ChannelAdd(g, id, new)
ChannelsRemove(g, id) == Plan!ChannelsRemove(g, id)
SetContinuousWave(g, c) == Plan!SetContinuousWave(g, c)
ApplyDrOffset(dwell, dr, drOffset) == Plan!ApplyDrOffset(dr, drOffset)
=============================================================================
