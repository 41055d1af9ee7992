---------------------------- MODULE RegionAS923 -----------------------------
(***************************************************************************)
(* Carrier sense and dwell time limits.  It builds for the variants AS1 and *)
(* AS2; this is AS1.                                                        *)
(***************************************************************************)
EXTENDS RegionCommon

MAX_NB_CHANNELS == 16
NB_JOIN_TRIALS == 8
NUMB_DEFAULT_CHANNELS == 2
NUMB_CHANNELS_CF_LIST == 5
TX_MIN_DATARATE == 0
TX_MAX_DATARATE == 7
RX_MIN_DATARATE == 0
RX_MAX_DATARATE == 7
DEFAULT_DATARATE == 5
DEFAULT_DATARATES == 0 .. 5
DWELL_LIMIT_DATARATES == {2}
MAX_RX1_DR_OFFSET == 7
MIN_TX_POWER == 7
MAX_TX_POWER == 0
MAX_EIRP == 1600
ANTENNA_GAIN == 215
ADR_ACK_LIMIT == 64
ADR_ACK_DELAY == 32
DUTY_CYCLE_ENABLED == FALSE
RX_WND_2_FREQ == 9232000
RX_WND_2_DR == 2
BAND_DCYCLE == Table(<<1>>)
LC == Table(<<Channel(9232000, 0, 5, 0), Channel(9234000, 0, 5, 0)>>)
DEFAULT_MASK == 0 .. 1
JOIN_CHANNELS == 0 .. 1
EffectiveRx1DrOffset == Table(<<0, 1, 2, 3, 4, 5, -1, -2>>)
DATARATES == Table(<<12, 11, 10, 9, 8, 7, 7, 50>>)
BANDWIDTHS == Table(<<125, 125, 125, 125, 125, 125, 250, 0>>)
MaxPayload(dr, dwell) ==
  IF dwell = 0 THEN <<51, 51, 51, 115, 242, 242, 242, 242>>[dr + 1]
               ELSE <<0, 0, 11, 53, 125, 242, 242, 242>>[dr + 1]
LISTEN_BEFORE_TALK == TRUE
DEFAULT_RANGE_FIXED == TRUE

GetNextLowerTxDr(dr, minDr) == IF dr = minDr THEN minDr ELSE Int8(dr - 1)
LimitTxPower(txPower, dr, mask) == Max({txPower, MAX_TX_POWER})
Budget(freq, maxEirp, antennaGain) == maxEirp - antennaGain
VerifyTxFreq(freq) == IF ValueInRange(freq, 9150000, 9280000) THEN {0} ELSE {}
Reenabled(mask) == mask \cup DEFAULT_MASK
Rx1Frequency(g, channel) ==
  LET c == g.channels[channel] IN IF c.rx1 # 0 THEN c.rx1 ELSE c.freq

Plan == INSTANCE DynamicPlan

GetPhyParam(g, q) == Plan!GetPhyParam(g, q)
SetBandTxDoneOn(g, joined, channel) == Plan!SetBandTxDoneOn(g, joined, channel)
InitDefaults(g, type) == Plan!InitDefaults(g, type)
Verify(attribute, value, dwell) == Plan!Verify(attribute, value, dwell)
ApplyCFList(g, freqs) == Plan!ApplyCFList(g, freqs)
ChanMaskSet(g, type, mask) == Plan!ChanMaskSet(g, type, mask)
AdrNext(g, a) == Plan!AdrNext(g, a)
RxWindow(dr, minRxSymbols, rxError, wakeUpTime) ==
  Plan!RxWindow(dr, minRxSymbols, rxError, wakeUpTime)
RxConfig(g, c) == Plan!RxConfig(g, c)
TxConfig(g, c) == Plan!TxConfig(g, c)
LinkAdrReq(g, reqs) == Plan!LinkAdrReq(g, reqs)
RxParamSetupReq(drOffset, dr, freq) == Plan!RxParamSetupReq(drOffset, dr, freq)
NewChannelReq(g, id, new) == Plan!NewChannelReq(g, id, new)
TxParamSetupReq == 0
DlChannelReq(g, id, rx1) == Plan!DlChannelReq(g, id, rx1)
AlternateDr(g, nbTrials) == [g |-> g, dr |-> 2]
CalcBackOff(g, b) == Plan!CalcBackOff(g, b)
NextChannel(g, p) == Plan!NextChannel(g, p)
ChannelAdd(g, id, new) == Plan!ChannelAdd(g, id, new)
ChannelsRemove(g, id) == Plan!ChannelsRemove(g, id)
SetContinuousWave(g, c) == Plan!SetContinuousWave(g, c)
ApplyDrOffset(dwell, dr, drOffset) ==
  Min({5, Max({IF dwell = 1 THEN 2 ELSE 0, dr - EffectiveRx1DrOffset[drOffset]})})
=============================================================================
