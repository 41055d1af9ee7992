--------------------------- MODULE RegionContract ---------------------------
(***************************************************************************)
(* What the MAC relies on when it calls the regional layer.  The theorems   *)
(* about ChannelPlan assume Contract of the region, whatever its file does; *)
(* that the files of this repository keep it is proved in                   *)
(* DynamicPlan_proofs and Region_proofs.                                    *)
(***************************************************************************)
EXTENDS RegionInterface

Ids(r) == DOMAIN RegionBlank(r).channels
Bands(r) == DOMAIN RegionBandDCycle(r)
Start(r) == RegionInitDefaults(r, RegionBlank(r), "INIT")
JoinBand(r) == Start(r).channels[0].band
TopRate(r) == Default(r, "PHY_MAX_TX_DR")
DutyCycleOn(r) == Default(r, "PHY_DUTY_CYCLE")
MaxEirp(r) == Default(r, "PHY_DEF_MAX_EIRP")
AntennaGain(r) == Default(r, "PHY_DEF_ANTENNA_GAIN")

Rate == -128 .. 127
Ages == {"first_hour", "ten_hours", "later"}

(* A downlink rate, an offset that leads to one from every uplink rate, and *)
(* a radiated power: only a region with TxParamSetupReq lowers it.          *)
RxRate(r, dr) == dr \in 0 .. 15 /\ RegionVerify(r, "PHY_RX_DR", dr, 0)
RxOffset(r, offset) ==
  \A dwell \in {0, 1}, dr \in 0 .. TopRate(r) : RxRate(r, RegionApplyDrOffset(r, dwell, dr, offset))
Eirp(r, eirp) ==
  /\ eirp \in Int /\ eirp <= MaxEirp(r)
  /\ RegionTxParamSetupReq(r) = -1 => eirp = MaxEirp(r)

(* The files for the United States answer 0 when they are asked for an EIRP  *)
(* and keep to 30 dBm by themselves.                                        *)
Radiated(r, eirp) == IF r \in {"US915", "US915_HYBRID"} THEN 3000 ELSE eirp

(* One request of a block of LinkADRReq; those of a hopping region name     *)
(* channels of its table.                                                   *)
Request(r) ==
  {req \in [ctrl : 0 .. 7, mask : SUBSET (0 .. 15), dr : 0 .. 15, power : 0 .. 15, nbRep : 0 .. 15] :
     r \in HopRegions /\ req.ctrl \in {4, 6, 7} => req.mask \subseteq 0 .. 7}

-----------------------------------------------------------------------------
(* The variables of a regional file.                                        *)

ChannelOf(bands, rates) == [freq : Nat, rx1 : Nat, min : rates, max : rates, band : bands]
Band == [timeOff : Nat, sinceTx : Nat, sinceJoin : Nat]

Typed(r, g) ==
  g \in [channels  : [Ids(r) -> ChannelOf(Bands(r), 0 .. TopRate(r))],
         mask : SUBSET Ids(r), defaultMask : SUBSET Ids(r), remaining : SUBSET Ids(r),
         bands : [Bands(r) -> Band]]

(* The channels that are enabled once the device has tried to join.         *)
MaskAfterJoin(r, g) == RegionAlternateDr(r, [g EXCEPT !.bands = Start(r).bands], 1).g.mask

(* The join channels stay where the region put them; what is left of a      *)
(* round of hops is enabled, and an attempt to join disables no channel.    *)
WellFormed(r, g) ==
  /\ Typed(r, g)
  /\ \A c \in Ids(r) : g.channels[c].min <= g.channels[c].max
  /\ \A c \in RegionJoinChannels(r) : /\ g.channels[c].freq = Start(r).channels[c].freq
                                      /\ g.channels[c].band = JoinBand(r)
  /\ r \in HopRegions => g.remaining \subseteq g.mask
  /\ g.mask \subseteq MaskAfterJoin(r, g)

(* What a change of the channels leaves alone: the rests of the bands, and  *)
(* which of the enabled narrow channels the round of hops has used.         *)
Edited(r, g, h) ==
  /\ WellFormed(r, h) /\ h.bands = g.bands
  /\ r \in HopRegions => h.remaining \cap Narrow = g.remaining \cap h.mask \cap Narrow
MaskEdited(r, g, h) == Edited(r, g, h) /\ h.channels = g.channels

-----------------------------------------------------------------------------
(* The clauses, one for each function or group of functions.                *)

Constants(r) ==
  /\ RegionBandDCycle(r) \in [Bands(r) -> Nat \ {0}]
  /\ 0 \in RegionJoinChannels(r) /\ RegionJoinChannels(r) \subseteq Ids(r)
  /\ TopRate(r) \in 0 .. 127
  /\ Default(r, "PHY_DEF_TX_DR") \in Rate /\ Default(r, "PHY_DEF_TX_POWER") \in Int
  /\ Default(r, "PHY_NB_JOIN_TRIALS") \in Nat
  /\ DutyCycleOn(r) \in BOOLEAN /\ MaxEirp(r) \in Int /\ AntennaGain(r) \in Nat
  /\ Default(r, "PHY_DEF_RX2_FREQUENCY") \in Nat /\ RxRate(r, Default(r, "PHY_DEF_RX2_DR"))
  /\ RxOffset(r, 0)
  /\ r = "AU915" => Bands(r) = {JoinBand(r)} /\ ~DutyCycleOn(r)

RatesAsked(r, g) ==
  \A dwell \in {0, 1} :
    /\ RegionGetPhyParam(r, g, Query("PHY_MIN_TX_DR", 0, dwell)) \in Rate
    /\ \A dr \in Rate : RegionGetPhyParam(r, g, Query("PHY_NEXT_LOWER_TX_DR", dr, dwell)) \in Rate

Started(r) ==
  /\ WellFormed(r, Start(r))
  /\ Start(r).bands = [b \in Bands(r) |-> [timeOff |-> 0, sinceTx |-> 0, sinceJoin |-> 0]]
  /\ r \in HopRegions => Start(r).remaining \cap Narrow = Start(r).mask \cap Narrow

ApplicationEdits(r, g) ==
  /\ \A type \in {"CHANNELS_MASK", "CHANNELS_DEFAULT_MASK"}, mask \in SUBSET Ids(r) :
       MaskEdited(r, g, RegionChanMaskSet(r, g, type, mask).g)
  /\ \A id \in Nat, new \in ChannelOf(Nat, Nat) : Edited(r, g, RegionChannelAdd(r, g, id, new).g)
  /\ \A id \in Ids(r) : Edited(r, g, RegionChannelsRemove(r, g, id).g)
  /\ \A dr \in 0 .. 15, dwell \in {0, 1} : RegionVerify(r, "PHY_RX_DR", dr, dwell) => RxRate(r, dr)

NetworkEdits(r, g) ==
  /\ \A reqs \in Seq(Request(r)) : reqs # <<>> =>
       LET a == RegionLinkAdrReq(r, g, reqs)
       IN  MaskEdited(r, g, a.g) /\ (a.refused = {} => a.dr \in Rate /\ a.power \in Int)
  /\ \A id \in Ids(r), new \in ChannelOf(Nat, Nat) : Edited(r, g, RegionNewChannelReq(r, g, id, new).g)
  /\ \A id \in Ids(r), rx1 \in Nat : Edited(r, g, RegionDlChannelReq(r, g, id, rx1).g)
  /\ \A freqs \in Seq(Nat) : Edited(r, g, RegionApplyCFList(r, g, freqs))
  /\ \A offset \in Nat, dr \in 0 .. 15, freq \in Nat :
       RegionRxParamSetupReq(r, offset, dr, freq) = {} => RxRate(r, dr)

MacEdits(r, g) ==
  /\ MaskEdited(r, g, RegionInitDefaults(r, g, "RESTORE"))
  /\ \A n \in Nat : LET a == RegionAlternateDr(r, g, n)
                    IN  MaskEdited(r, g, a.g) /\ a.dr \in Rate
  /\ \A a \in [adr : BOOLEAN, dr : Rate, power : Int, counter : Nat, dwell : {0, 1},
               updateMask : BOOLEAN] :
       LET n == RegionAdrNext(r, g, a)
       IN  MaskEdited(r, g, n.g) /\ n.dr \in Rate /\ n.power \in Int /\ n.counter \in Nat

(* A frame of airTime keeps its band silent for as long as the duty cycle   *)
(* asks, and before the device has joined for as long as its age asks.      *)
BackOff(r, g) ==
  /\ \A joined \in BOOLEAN, c \in Ids(r) :
       RegionSetBandTxDone(r, g, joined, c)
         = [g EXCEPT !.bands[g.channels[c].band] = SetBandTxDone(joined, @)]
  /\ \A b \in [channel : Ids(r), joined : BOOLEAN, dutyCycle : {DutyCycleOn(r)}, age : Ages,
               airTime : {0, 1}] :
       LET band == g.channels[b.channel].band
           rest == RegionCalcBackOff(r, g, b).bands[band].timeOff
       IN  /\ RegionCalcBackOff(r, g, b) = [g EXCEPT !.bands[band].timeOff = rest]
           /\ rest \in Nat
           /\ ~b.joined \/ b.dutyCycle => rest >= b.airTime * (RegionBandDCycle(r)[band] - 1)
           /\ ~b.joined => rest >= b.airTime * (GetJoinDc(b.age) - 1)
           /\ r = "AU915" /\ b.joined => rest = 0

(* NextChannel clears rests that are over, and picks a channel that may     *)
(* carry the frame and whose band does not rest; AU915 may leave the old    *)
(* one.  A hopping region takes what it picks from the round, which begins  *)
(* again when nothing is left of it.                                        *)
Usable(r, g, p, c) ==
  /\ c \in g.mask /\ g.channels[c].freq # 0 /\ Supports(g.channels[c], p.dr)
  /\ p.joined \/ c \in RegionJoinChannels(r)
  /\ g.bands[g.channels[c].band].timeOff = 0
Parameters(r) ==
  [joined : BOOLEAN, dutyCycle : {DutyCycleOn(r)}, dr : Rate, aggrTimeOff : Int,
   sinceAggr : Nat, channel : Ids(r)]
RestsCleared(p, before, after) ==
  /\ after.sinceTx = before.sinceTx /\ after.sinceJoin = before.sinceJoin
  /\ \/ after.timeOff = before.timeOff
     \/ /\ after.timeOff = 0
        /\ \/ p.joined /\ ~p.dutyCycle
           \/ before.timeOff <= Elapsed(p.joined, p.dutyCycle, before)
Found(r, g, p, x) ==
  LET rested == p.aggrTimeOff <= p.sinceAggr
      ready  == x.ok /\ x.delay = 0
      picked == ready /\ x.g.bands[x.g.channels[x.channel].band].timeOff = 0
      left   == IF g.remaining \cap Narrow = {} THEN g.mask \cap Narrow
                                                ELSE g.remaining \cap Narrow
  IN  /\ WellFormed(r, x.g) /\ x.g.channels = g.channels
      /\ \A b \in Bands(r) : RestsCleared(p, g.bands[b], x.g.bands[b])
      /\ x.ok \in BOOLEAN /\ x.channel \in Ids(r)
      /\ x.ok => x.delay \in Nat
      /\ x.aggrTimeOff = IF rested THEN 0 ELSE p.aggrTimeOff
      /\ ready => rested /\ p.dr \in 0 .. TopRate(r)
      /\ picked => Usable(r, x.g, p, x.channel)
      /\ ~picked => x.channel = p.channel
      /\ ready /\ ~picked => r = "AU915"
      /\ r \in HopRegions =>
           /\ x.g.mask = g.mask
           /\ x.g.remaining \cap Narrow = left \ (IF picked THEN {x.channel} ELSE {})
           /\ picked /\ x.channel \in Narrow => x.channel \in left
Searches(r, g) == \A p \in Parameters(r) : \A x \in RegionNextChannel(r, g, p) : Found(r, g, p, x)

(* The radio's settings for an uplink, and those for a receive window.      *)
Radiates(r, g, c, t) ==
  /\ t.frequency = g.channels[c.channel].freq
  /\ Eirp(r, c.maxEirp) =>
       t.phyPower \in Int /\ 100 * t.phyPower + AntennaGain(r) <= Radiated(r, c.maxEirp)
  /\ r \in {"US915", "US915_HYBRID"} =>
       /\ t.bandwidth = 500 => t.phyPower <= 26
       /\ t.bandwidth = 125 /\ Cardinality(g.mask \cap Narrow) < 50 => t.phyPower <= 21
Transmits(r, g) ==
  \A c \in [channel : Ids(r), dr : 0 .. TopRate(r), power : Int, maxEirp : Int,
            antennaGain : {AntennaGain(r)}] :
    Radiates(r, g, c, RegionTxConfig(r, g, c))
InLoRa(conf) == conf.sf # 50
Opened(w, q, conf, symbols, error, wakeUp) ==
  /\ conf.timeout = q.timeout
  /\ InLoRa(conf) =>
       LET t == SymbolTime(conf.sf, conf.bandwidth)
           e == ComputeRxWindowParameters(t, symbols, error, wakeUp)
       IN  t \in Nat \ {0} /\ w.timeout = e.timeout /\ w.offset = e.offset
Listens(r, g) ==
  \A dr \in 0 .. 15, symbols \in Nat, error \in Nat, wakeUp \in Nat : RxRate(r, dr) =>
    LET w == RegionComputeRxWindowParameters(r, dr, symbols, error, wakeUp)
    IN  /\ w.dr = dr
        /\ \A q : q.dr = dr =>
             \A conf \in RegionRxConfig(r, g, q) : Opened(w, q, conf, symbols, error, wakeUp)

Contract(r) ==
  /\ Constants(r) /\ Started(r)
  /\ \A g : WellFormed(r, g) =>
       /\ RatesAsked(r, g) /\ ApplicationEdits(r, g) /\ NetworkEdits(r, g) /\ MacEdits(r, g)
       /\ BackOff(r, g) /\ Searches(r, g) /\ Transmits(r, g) /\ Listens(r, g)
=============================================================================
