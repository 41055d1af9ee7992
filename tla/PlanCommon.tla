----------------------------- MODULE PlanCommon -----------------------------
(***************************************************************************)
(* What the ten regional files have in common: they are one text with other *)
(* constants.  The constants are those of the headers; an operator among    *)
(* them is a static function that differs from file to file.                *)
(*                                                                          *)
(* A plan g holds the static variables of a regional file: Channels,        *)
(* ChannelsMask, ChannelsDefaultMask, ChannelsMaskRemaining (of the plans   *)
(* that have it) and the part of Bands that changes.                        *)
(***************************************************************************)
EXTENDS RegionCommon

CONSTANTS
  MAX_NB_CHANNELS,
  LC,                       \* the channels a fresh table holds
  DEFAULT_MASK,             \* the channels a fresh mask enables
  JOIN_CHANNELS,
  TX_MIN_DATARATE, TX_MAX_DATARATE, RX_MIN_DATARATE, RX_MAX_DATARATE,
  DEFAULT_DATARATE, DEFAULT_DATARATES,
  DWELL_LIMIT_DATARATES,    \* the lowest rate under a dwell time limit, if any
  MAX_RX1_DR_OFFSET, MIN_TX_POWER, MAX_TX_POWER,
  MAX_EIRP, ANTENNA_GAIN,
  ADR_ACK_LIMIT, ADR_ACK_DELAY,
  DUTY_CYCLE_ENABLED, NB_JOIN_TRIALS,
  RX_WND_2_FREQ, RX_WND_2_DR,
  BAND_DCYCLE,              \* band -> the inverse of its duty cycle
  DATARATES, BANDWIDTHS,    \* rate -> spreading factor, bandwidth in kHz
  MaxPayload(_, _),         \* of a rate, under a dwell time or not
  GetNextLowerTxDr(_, _),
  Reenabled(_),             \* the mask ADR falls back to
  LimitTxPower(_, _, _),
  Budget(_, _, _),          \* the radiated power less the antenna gain
  Rx1Frequency(_, _)        \* of the first window after an uplink

ChannelIds == 0 .. MAX_NB_CHANNELS - 1
Limits(dwell) == IF dwell = 0 THEN {} ELSE DWELL_LIMIT_DATARATES
LowestTxDr(dwell) == Max({TX_MIN_DATARATE} \cup Limits(dwell))
LowestRxDr(dwell) == Max({RX_MIN_DATARATE} \cup Limits(dwell))

(* The table and the bands before InitDefaults: C zeroes static variables.  *)
Blank == [channels    |-> [c \in ChannelIds |-> NoChannel],
          mask        |-> {}, defaultMask |-> {}, remaining |-> {},
          bands       |-> [b \in DOMAIN BAND_DCYCLE |->
                             [timeOff |-> 0, sinceTx |-> 0, sinceJoin |-> 0]]]

GetPhyParam(g, q) ==
  LET at == q.attribute
  IN  CASE at = "PHY_MIN_RX_DR"         -> LowestRxDr(q.downlinkDwellTime)
        [] at = "PHY_MIN_TX_DR"         -> LowestTxDr(q.uplinkDwellTime)
        [] at = "PHY_MAX_TX_DR"         -> TX_MAX_DATARATE
        [] at = "PHY_DEF_TX_DR"         -> DEFAULT_DATARATE
        [] at = "PHY_NEXT_LOWER_TX_DR"  -> GetNextLowerTxDr(q.dr, LowestTxDr(q.uplinkDwellTime))
        [] at = "PHY_DEF_TX_POWER"      -> MAX_TX_POWER
        [] at = "PHY_MAX_PAYLOAD"       -> MaxPayload(q.dr, q.uplinkDwellTime)
        [] at = "PHY_DUTY_CYCLE"        -> DUTY_CYCLE_ENABLED
        [] at = "PHY_CHANNELS_MASK"     -> g.mask
        [] at = "PHY_CHANNELS"          -> g.channels
        [] at = "PHY_DEF_RX2_FREQUENCY" -> RX_WND_2_FREQ
        [] at = "PHY_DEF_RX2_DR"        -> RX_WND_2_DR
        [] at = "PHY_DEF_MAX_EIRP"      -> MAX_EIRP
        [] at = "PHY_DEF_ANTENNA_GAIN"  -> ANTENNA_GAIN
        [] at = "PHY_NB_JOIN_TRIALS"    -> NB_JOIN_TRIALS
        [] OTHER -> 0

SetBandTxDoneOn(g, joined, channel) ==
  [g EXCEPT !.bands[g.channels[channel].band] = SetBandTxDone(joined, @)]

(* The channels of mask that may carry the next frame; delayTx: do the     *)
(* bands keep some of them silent?                                          *)
CountNbOfEnabledChannels(g, mask, joined, dr) ==
  LET usable  == {c \in mask : /\ g.channels[c].freq # 0
                               /\ joined \/ c \in JOIN_CHANNELS
                               /\ Supports(g.channels[c], dr)}
      enabled == {c \in usable : g.bands[g.channels[c].band].timeOff = 0}
  IN  [enabled |-> enabled, delayTx |-> usable # enabled]

Verify(attribute, value, dwell) ==
  CASE attribute = "PHY_TX_DR"        -> ValueInRange(value, LowestTxDr(dwell), TX_MAX_DATARATE)
    [] attribute = "PHY_DEF_TX_DR"    -> value \in DEFAULT_DATARATES
    [] attribute = "PHY_RX_DR"        -> ValueInRange(value, LowestRxDr(dwell), RX_MAX_DATARATE)
    [] attribute = "PHY_TX_POWER"     -> ValueInRange(value, MAX_TX_POWER, MIN_TX_POWER)
    [] attribute = "PHY_DUTY_CYCLE"   -> DUTY_CYCLE_ENABLED
    [] attribute = "PHY_NB_JOIN_TRIALS" -> value >= NB_JOIN_TRIALS
    [] OTHER -> FALSE

(* AdrNext is called before each data uplink with the number of uplinks     *)
(* since the last downlink: past the limit it asks for an answer at full    *)
(* power, past the delay it lowers the rate one step in every ADR_ACK_DELAY *)
(* uplinks and, at the lowest rate, enables the default channels again.     *)
AdrNext(g, a) ==
  LET lowest  == LowestTxDr(a.dwell)
      start   == IF DWELL_LIMIT_DATARATES = {} THEN a.dr ELSE Max({a.dr, lowest})
      limited == a.counter >= ADR_ACK_LIMIT
      lower   == /\ a.counter >= ADR_ACK_LIMIT + ADR_ACK_DELAY
                 /\ a.counter % ADR_ACK_DELAY = 1
      next    == IF lower THEN GetNextLowerTxDr(start, lowest) ELSE start
      bottom  == lower /\ next = lowest
      same    == [g |-> g, dr |-> start, power |-> a.power, counter |-> a.counter,
                  ackReq |-> FALSE]
  IN  CASE ~a.adr -> same
        [] a.adr /\ start = lowest -> [same EXCEPT !.counter = 0]
        [] OTHER ->
             [g       |-> IF bottom /\ a.updateMask THEN [g EXCEPT !.mask = Reenabled(@)] ELSE g,
              dr      |-> next,
              power   |-> IF limited THEN MAX_TX_POWER ELSE a.power,
              counter |-> a.counter,
              ackReq  |-> limited /\ ~bottom]

(* The parameters of a receive window at a rate.                            *)
RxWindow(dr, minRxSymbols, rxError, wakeUpTime) ==
  LET window == ComputeRxWindowParameters(SymbolTime(DATARATES[dr], BANDWIDTHS[dr]),
                                          minRxSymbols, rxError, wakeUpTime)
  IN  [dr |-> dr, bandwidth |-> BANDWIDTHS[dr], timeout |-> window.timeout, offset |-> window.offset]

(* What the radio is told before a window; nothing when it is not idle.     *)
RxConfig(g, c) ==
  IF ~c.radioIdle THEN {}
  ELSE {[frequency  |-> IF c.slot = "RX_SLOT_WIN_1" THEN Rx1Frequency(g, c.channel)
                                                    ELSE c.frequency,
         sf         |-> DATARATES[c.dr], bandwidth |-> BANDWIDTHS[c.dr],
         timeout    |-> c.timeout, continuous |-> c.continuous,
         maxPayload |-> MaxPayload(c.dr, 0)]}

(* What the radio is told before an uplink, and the power index in use.     *)
TxConfig(g, c) ==
  LET limited == LimitTxPower(c.power, c.dr, g.mask)
      freq    == g.channels[c.channel].freq
  IN  [frequency |-> freq, sf |-> DATARATES[c.dr], bandwidth |-> BANDWIDTHS[c.dr],
       txPower   |-> limited,
       phyPower  |-> ComputeTxPower(limited, Budget(freq, c.maxEirp, c.antennaGain))]

(* The unmodulated carrier of a certification test.                         *)
SetContinuousWave(g, c) ==
  LET freq == g.channels[c.channel].freq
  IN  [frequency |-> freq, timeout |-> c.timeout,
       phyPower  |-> ComputeTxPower(LimitTxPower(c.power, c.dr, g.mask),
                                    Budget(freq, c.maxEirp, c.antennaGain))]
-----------------------------------------------------------------------------
(* What every file gives: rates that its tables know, and the rest of it.   *)
DataRates ==
  /\ TX_MIN_DATARATE \in 0 .. TX_MAX_DATARATE /\ TX_MAX_DATARATE \in 0 .. 15
  /\ RX_MIN_DATARATE = LowestRxDr(0) /\ RX_MIN_DATARATE \in 0 .. 15 /\ RX_MAX_DATARATE \in 0 .. 15
  /\ \A dwell \in {0, 1} :
       /\ LowestRxDr(dwell) \in RX_MIN_DATARATE .. 15 /\ LowestTxDr(dwell) \in 0 .. 15
       /\ \A dr \in -128 .. 127 : GetNextLowerTxDr(dr, LowestTxDr(dwell)) \in -128 .. 127
  /\ \A dr \in RX_MIN_DATARATE .. RX_MAX_DATARATE :
       DATARATES[dr] = 50 \/ SymbolTime(DATARATES[dr], BANDWIDTHS[dr]) \in Nat \ {0}
Defaults ==
  /\ DEFAULT_DATARATE \in 0 .. 15 /\ NB_JOIN_TRIALS \in Nat /\ DUTY_CYCLE_ENABLED \in BOOLEAN
  /\ MAX_EIRP \in Int /\ ANTENNA_GAIN \in Nat /\ MAX_TX_POWER \in Nat
  /\ RX_WND_2_FREQ \in Nat /\ RX_WND_2_DR \in RX_MIN_DATARATE .. RX_MAX_DATARATE
=============================================================================
