---------------------------- MODULE RegionUS915 -----------------------------
(***************************************************************************)
(* 64 narrow and 8 wide channels, all enabled at first.                     *)
(***************************************************************************)
EXTENDS RegionCommon

MAX_NB_CHANNELS == 72
NB_JOIN_TRIALS == 16
TX_MIN_DATARATE == 0
TX_MAX_DATARATE == 4
RX_MIN_DATARATE == 8
RX_MAX_DATARATE == 13
DEFAULT_DATARATE == 3
DEFAULT_DATARATES == 0 .. 5
DWELL_LIMIT_DATARATES == {}
MAX_RX1_DR_OFFSET == 3
MIN_TX_POWER == 10
MAX_TX_POWER == 0
MAX_EIRP == 0
DEFAULT_MAX_ERP == 3000
ANTENNA_GAIN == 0
ADR_ACK_LIMIT == 64
ADR_ACK_DELAY == 32
DUTY_CYCLE_ENABLED == FALSE
RX_WND_2_FREQ == 9233000
RX_WND_2_DR == 8
BAND_DCYCLE == Table(<<1>>)
FIRST_RX1_CHANNEL == 9233000
LAST_RX1_CHANNEL == 9275000
STEPWIDTH_RX1_CHANNEL == 6000
DATARATES == Table(<<10, 9, 8, 7, 8, 0, 0, 0, 12, 11, 10, 9, 8, 7, 0, 0>>)
BANDWIDTHS == Table(<<125, 125, 125, 125, 500, 0, 0, 0, 500, 500, 500, 500, 500, 500, 0, 0>>)
DATARATE_OFFSETS ==
  Table(<<Table(<<10, 9, 8, 8>>), Table(<<11, 10, 9, 8>>), Table(<<12, 11, 10, 9>>),
          Table(<<13, 12, 11, 10>>), Table(<<13, 13, 12, 11>>)>>)
MaxPayload(dr, dwell) == <<11, 53, 125, 242, 242, 0, 0, 0, 53, 129, 242, 242, 242, 242, 0, 0>>[dr + 1]

GetNextLowerTxDr(dr, minDr) == IF dr = minDr THEN minDr ELSE Int8(dr - 1)

\* Faulty: knows of the wide channels only.
LimitTxPowerWide(txPower, dr, mask) ==
  IF dr = 4 THEN Max({txPower, 2}) ELSE Max({txPower, MAX_TX_POWER})

LimitTxPower(txPower, dr, mask) ==
  CASE dr = 4 -> Max({txPower, 2})
    [] dr # 4 /\ CountChannels(mask, 0, 4) < 50 -> Max({txPower, 5})
    [] OTHER -> Max({txPower, MAX_TX_POWER})

Budget(freq, maxEirp, antennaGain) == DEFAULT_MAX_ERP
LC == [c \in 0 .. 71 |-> IF c < 64 THEN Channel(9023000 + 2000 * c, 0, 3, 0)
                        ELSE Channel(9030000 + 16000 * (c - 64), 4, 4, 0)]
DEFAULT_MASK == 0 .. 71
JOIN_CHANNELS == DEFAULT_MASK
JOIN_RATES == Table(<<0, 4>>)
UPDATES_TIME_OFF == TRUE
Reenabled(mask) == DEFAULT_MASK
RestoredMask(default) == default
CheckedMask(mask) == IF mask = {} THEN {} ELSE {mask}
AdrMask(mask) == {mask}
JoinMask(mask) == mask
Rx1Frequency(g, channel) ==
  FIRST_RX1_CHANNEL + (channel % 8) * STEPWIDTH_RX1_CHANNEL

Plan == INSTANCE FixedPlan

GetPhyParam(g, q) == Plan!GetPhyParam(g, q)
SetBandTxDoneOn(g, joined, channel) == Plan!SetBandTxDoneOn(g, joined, channel)
InitDefaults(g, type) == Plan!InitDefaults(g, type)
Verify(attribute, value, dwell) == Plan!Verify(attribute, value, dwell)
ApplyCFList(g, freqs) == g
ChanMaskSet(g, type, mask) == Plan!ChanMaskSet(g, type, mask)
AdrNext(g, a) == Plan!AdrNext(g, a)
RxWindow(dr, minRxSymbols, rxError, wakeUpTime) ==
  Plan!RxWindow(dr, minRxSymbols, rxError, wakeUpTime)
RxConfig(g, c) == Plan!RxConfig(g, c)
TxConfig(g, c) == Plan!TxConfig(g, c)
LinkAdrReq(g, reqs) == Plan!LinkAdrReq(g, reqs)
RxParamSetupReq(drOffset, dr, freq) == Plan!RxParamSetupReq(drOffset, dr, freq)
NewChannelReq(g, id, new) == Plan!NewChannelReq(g, id, new)
TxParamSetupReq == -1
DlChannelReq(g, id, rx1) == Plan!DlChannelReq(g, id, rx1)
AlternateDr(g, nbTrials) == Plan!AlternateDr(g, nbTrials)
CalcBackOff(g, b) == Plan!CalcBackOff(g, b)
NextChannel(g, p) == Plan!NextChannel(g, p)
ChannelAdd(g, id, new) == Plan!ChannelAdd(g, id, new)
ChannelsRemove(g, id) == Plan!ChannelsRemove(g, id)
SetContinuousWave(g, c) == Plan!SetContinuousWave(g, c)
ApplyDrOffset(dwell, dr, drOffset) == Plan!ApplyDrOffset(dr, drOffset)
=============================================================================
