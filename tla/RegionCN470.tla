---------------------------- MODULE RegionCN470 -----------------------------
(***************************************************************************)
(* 96 channels that never change and no hopping; a device that finds all of *)
(* them disabled enables them again.                                        *)
(***************************************************************************)
EXTENDS RegionCommon

MAX_NB_CHANNELS == 96
NB_JOIN_TRIALS == 48
TX_MIN_DATARATE == 0
TX_MAX_DATARATE == 5
RX_MIN_DATARATE == 0
RX_MAX_DATARATE == 5
DEFAULT_DATARATE == 5
DEFAULT_DATARATES == 0 .. 5
DWELL_LIMIT_DATARATES == {}
MAX_RX1_DR_OFFSET == 3
MIN_TX_POWER == 7
MAX_TX_POWER == 0
MAX_EIRP == 1915
ANTENNA_GAIN == 215
ADR_ACK_LIMIT == 64
ADR_ACK_DELAY == 32
DUTY_CYCLE_ENABLED == FALSE
RX_WND_2_FREQ == 5053000
RX_WND_2_DR == 0
BAND_DCYCLE == Table(<<1>>)
FIRST_RX1_CHANNEL == 5003000
LAST_RX1_CHANNEL == 5097000
STEPWIDTH_RX1_CHANNEL == 2000
DATARATES == Table(<<12, 11, 10, 9, 8, 7>>)
BANDWIDTHS == Table(<<125, 125, 125, 125, 125, 125>>)
MaxPayload(dr, dwell) == <<51, 51, 51, 115, 222, 222>>[dr + 1]

GetNextLowerTxDr(dr, minDr) == IF dr = minDr THEN minDr ELSE Int8(dr - 1)
LimitTxPower(txPower, dr, mask) == Max({txPower, MAX_TX_POWER})
Budget(freq, maxEirp, antennaGain) == maxEirp - antennaGain
LC == [c \in 0 .. 95 |-> Channel(4703000 + 2000 * c, 0, 5, 0)]
DEFAULT_MASK == 0 .. 95
JOIN_CHANNELS == DEFAULT_MASK
Reenabled(mask) == DEFAULT_MASK
Rx1Frequency(g, channel) ==
  FIRST_RX1_CHANNEL + (channel % 48) * STEPWIDTH_RX1_CHANNEL

Plan == INSTANCE FlatPlan

GetPhyParam(g, q) == Plan!GetPhyParam(g, q)
SetBandTxDoneOn(g, joined, channel) == Plan!SetBandTxDoneOn(g, joined, channel)
InitDefaults(g, type) == Plan!InitDefaults(g, type)
Verify(attribute, value, dwell) == Plan!Verify(attribute, value, dwell)
ApplyCFList(g, freqs) == g
ChanMaskSet(g, type, mask) == Plan!ChanMaskSet(g, type, mask)
AdrNext(g, a) == Plan!AdrNext(g, a)
RxWindow(dr, minRxSymbols, rxError, wakeUpTime) ==
  Plan!RxWindow(dr, minRxSymbols, rxError, wakeUpTime)
RxConfig(g, c) == Plan!RxConfig(g, c)
TxConfig(g, c) == Plan!TxConfig(g, c)
LinkAdrReq(g, reqs) == Plan!LinkAdrReq(g, reqs)
RxParamSetupReq(drOffset, dr, freq) == Plan!RxParamSetupReq(drOffset, dr, freq)
NewChannelReq(g, id, new) == Plan!NewChannelReq(g, id, new)
TxParamSetupReq == -1
DlChannelReq(g, id, rx1) == Plan!DlChannelReq(g, id, rx1)
AlternateDr(g, nbTrials) == Plan!AlternateDr(g, nbTrials)
CalcBackOff(g, b) == Plan!CalcBackOff(g, b)
NextChannel(g, p) == Plan!NextChannel(g, p)
ChannelAdd(g, id, new) == Plan!ChannelAdd(g, id, new)
ChannelsRemove(g, id) == Plan!ChannelsRemove(g, id)
SetContinuousWave(g, c) == Plan!SetContinuousWave(g, c)
ApplyDrOffset(dwell, dr, drOffset) == Plan!ApplyDrOffset(dr, drOffset)
=============================================================================
