------------------------- MODULE DynamicPlan_proofs -------------------------
(***************************************************************************)
(* The files with a channel table that the network edits keep the contract  *)
(* on which the theorems about ChannelPlan rest, for every header.          *)
(***************************************************************************)
EXTENDS RegionContract, DynamicPlan, WellFoundedInduction, TLAPS

(* A region whose file is built on PlanCommon, whatever its channel table.   *)
Common(r) ==
  /\ RegionBlank(r) = Blank
  /\ RegionBandDCycle(r) = BAND_DCYCLE
  /\ RegionJoinChannels(r) = JOIN_CHANNELS
  /\ \A g, q : RegionGetPhyParam(r, g, q) = GetPhyParam(g, q)
  /\ \A g, joined, c : RegionSetBandTxDone(r, g, joined, c) = SetBandTxDoneOn(g, joined, c)
  /\ \A attribute, value, dwell :
       RegionVerify(r, attribute, value, dwell) = Verify(attribute, value, dwell)
  /\ \A g, a : RegionAdrNext(r, g, a) = AdrNext(g, a)
  /\ \A dr, symbols, error, wakeUp :
       RegionComputeRxWindowParameters(r, dr, symbols, error, wakeUp)
         = RxWindow(dr, symbols, error, wakeUp)
  /\ \A g, c : RegionRxConfig(r, g, c) = RxConfig(g, c)
  /\ \A g, c : RegionTxConfig(r, g, c) = TxConfig(g, c)
  /\ RxOffset(r, 0)

(* A region whose functions are those of DynamicPlan; two files have their  *)
(* own for the rates of a join attempt and of the first window.             *)
Served(r) ==
  /\ Common(r) /\ r \notin HopRegions
  /\ \A g, type : RegionInitDefaults(r, g, type) = InitDefaults(g, type)
  /\ \A g, freqs : RegionApplyCFList(r, g, freqs) = ApplyCFList(g, freqs)
  /\ \A g, type, mask : RegionChanMaskSet(r, g, type, mask) = ChanMaskSet(g, type, mask)
  /\ \A g, reqs : RegionLinkAdrReq(r, g, reqs) = LinkAdrReq(g, reqs)
  /\ \A offset, dr, freq :
       RegionRxParamSetupReq(r, offset, dr, freq) = RxParamSetupReq(offset, dr, freq)
  /\ \A g, id, new : RegionNewChannelReq(r, g, id, new) = NewChannelReq(g, id, new)
  /\ \A g, id, rx1 : RegionDlChannelReq(r, g, id, rx1) = DlChannelReq(g, id, rx1)
  /\ \A g, b : RegionCalcBackOff(r, g, b) = CalcBackOff(g, b)
  /\ \A g, p : RegionNextChannel(r, g, p) = NextChannel(g, p)
  /\ \A g, id, new : RegionChannelAdd(r, g, id, new) = ChannelAdd(g, id, new)
  /\ \A g, id : RegionChannelsRemove(r, g, id) = ChannelsRemove(g, id)
  /\ \A g, n : /\ RegionAlternateDr(r, g, n).g = g
               /\ n \in Nat => RegionAlternateDr(r, g, n).dr \in Rate

RandrPicks == \A S \in SUBSET ChannelIds : S # {} => Draws(S) \subseteq S

-----------------------------------------------------------------------------
(* Numbers.                                                                 *)

\* A set of two numbers has a largest one.
LEMMA LargerOfTwo ==
  ASSUME NEW a \in Int, NEW b \in Int
  PROVE  Max({a, b}) = IF a >= b THEN a ELSE b
  BY DEF Max

\* A set of natural numbers has a least one.
LEMMA LeastIsIn ==
  ASSUME NEW S \in SUBSET Nat, S # {}
  PROVE  Min(S) \in S /\ \A n \in S : Min(S) <= n
<1>1. PICK x \in S : \A y \in S : ~(<<y, x>> \in OpToRel(<, Nat))
  BY NatLessThanWellFounded, WFMin
<1>2. \A y \in S : ~(y < x)
  <2>1. SUFFICES ASSUME NEW y \in S, y < x  PROVE FALSE
    OBVIOUS
  <2>2. <<y, x>> \in Nat \X Nat /\ <<y, x>>[1] = y /\ <<y, x>>[2] = x
    OBVIOUS
  <2>3. <<y, x>> \in OpToRel(<, Nat)
    BY <2>1, <2>2 DEF OpToRel
  <2> QED  BY <1>1, <2>3
<1>3. \A y \in S : x <= y
  BY <1>2
<1> QED  BY <1>3 DEF Min

\* A rate is of eight bits.
LEMMA EightBits == \A n \in Int : Int8(n) \in -128 .. 127
  BY DEF Int8

\* A request is accepted when no bit of the answer is cleared.
LEMMA AllSet ==
  ASSUME NEW x \in BOOLEAN, NEW y \in BOOLEAN
  PROVE  Cleared([freq |-> x, dr |-> y]) = {} <=> x /\ y
<1> DEFINE checks == [freq |-> x, dr |-> y]
<1>1. /\ DOMAIN checks = {"freq", "dr"} /\ checks["freq"] = x /\ checks["dr"] = y
  OBVIOUS
<1> HIDE DEF checks
<1>2. Cleared(checks) = {bit \in {"freq", "dr"} : ~checks[bit]}
  BY <1>1 DEF Cleared
<1>3. Cleared(checks) = {} <=> checks["freq"] /\ checks["dr"]
  BY <1>2
<1> QED  BY <1>1, <1>3 DEF checks

-----------------------------------------------------------------------------
(* What the contract asks of a plan g, in the words of this plan.           *)

Entry == ChannelOf(DOMAIN BAND_DCYCLE, 0 .. TX_MAX_DATARATE)
Plans == [channels : [ChannelIds -> Entry], mask : SUBSET ChannelIds,
          defaultMask : SUBSET ChannelIds, remaining : SUBSET ChannelIds,
          bands : [DOMAIN BAND_DCYCLE -> Band]]
Good(g) ==
  /\ g \in Plans
  /\ \A c \in ChannelIds : g.channels[c].min <= g.channels[c].max
  /\ \A c \in JOIN_CHANNELS : /\ g.channels[c].freq = LC[c].freq
                              /\ g.channels[c].band = LC[0].band

LEMMA Names ==
  ASSUME NEW r, Common(r)
  PROVE  /\ Ids(r) = ChannelIds /\ Bands(r) = DOMAIN BAND_DCYCLE
         /\ TopRate(r) = TX_MAX_DATARATE
         /\ DutyCycleOn(r) = DUTY_CYCLE_ENABLED /\ MaxEirp(r) = MAX_EIRP
         /\ AntennaGain(r) = ANTENNA_GAIN
<1>1. Ids(r) = ChannelIds
  BY DEF Common, Ids, Blank
<1>2. Bands(r) = DOMAIN BAND_DCYCLE
  BY DEF Common, Bands
<1>4. \A at : Default(r, at) = GetPhyParam(Blank, Query(at, 0, 0))
  BY DEF Common, Default
<1>5. \A at : Query(at, 0, 0).attribute = at
  BY DEF Query
<1>6. Default(r, "PHY_MAX_TX_DR") = TX_MAX_DATARATE
  BY <1>4, <1>5 DEF GetPhyParam
<1>7. Default(r, "PHY_DUTY_CYCLE") = DUTY_CYCLE_ENABLED
  BY <1>4, <1>5 DEF GetPhyParam
<1>8. Default(r, "PHY_DEF_MAX_EIRP") = MAX_EIRP
  BY <1>4, <1>5 DEF GetPhyParam
<1>9. Default(r, "PHY_DEF_ANTENNA_GAIN") = ANTENNA_GAIN
  BY <1>4, <1>5 DEF GetPhyParam
<1> QED  BY <1>1, <1>2, <1>6, <1>7, <1>8, <1>9 DEF TopRate, DutyCycleOn, MaxEirp, AntennaGain

\* An empty entry of the table is one of the first band.
LEMMA EmptyEntry ==
  ASSUME Header
  PROVE  NoChannel \in Entry /\ NoChannel.min <= NoChannel.max
<1>1. TX_MAX_DATARATE \in 0 .. 15
  BY DEF Header, DataRates
<1>2. 0 \in 0 .. TX_MAX_DATARATE
  BY <1>1
<1>3. 0 \in DOMAIN BAND_DCYCLE
  BY DEF Header, Tables
<1>4. NoChannel = [freq |-> 0, rx1 |-> 0, min |-> 0, max |-> 0, band |-> 0]
  BY DEF NoChannel, Channel
<1> QED  BY <1>2, <1>3, <1>4 DEF Entry, ChannelOf

\* A fresh plan: the channels of the header, then empty ones.
LEMMA FreshPlan ==
  ASSUME Header
  PROVE  /\ InitDefaults(Blank, "INIT") \in Plans
         /\ \A c \in ChannelIds :
              InitDefaults(Blank, "INIT").channels[c] = IF c \in DOMAIN LC THEN LC[c] ELSE NoChannel
         /\ InitDefaults(Blank, "INIT").bands
              = [b \in DOMAIN BAND_DCYCLE |-> [timeOff |-> 0, sinceTx |-> 0, sinceJoin |-> 0]]
         /\ 0 \in JOIN_CHANNELS /\ JOIN_CHANNELS \subseteq ChannelIds /\ LC[0].band \in DOMAIN BAND_DCYCLE
<1> DEFINE s == InitDefaults(Blank, "INIT")
           table == [c \in ChannelIds |-> IF c \in DOMAIN LC THEN LC[c] ELSE Blank.channels[c]]
<1>1. s = [Blank EXCEPT !.channels = table, !.defaultMask = DEFAULT_MASK, !.mask = DEFAULT_MASK]
  BY DEF InitDefaults
<1>2. /\ s.channels = table /\ s.mask = DEFAULT_MASK /\ s.defaultMask = DEFAULT_MASK
      /\ s.remaining = {} /\ s.bands = Blank.bands
      /\ s = [channels |-> table, mask |-> DEFAULT_MASK, defaultMask |-> DEFAULT_MASK,
              remaining |-> {}, bands |-> Blank.bands]
  BY <1>1 DEF Blank
<1>3. Tables
  BY DEF Header
<1>4. 0 \in JOIN_CHANNELS /\ JOIN_CHANNELS \subseteq DOMAIN LC /\ DOMAIN LC \subseteq ChannelIds
  BY <1>3 DEF Tables
<1>5. \A c \in DOMAIN LC : LC[c] \in Entry
  BY <1>3 DEF Tables, Entry, ChannelOf
<1>6. LC[0].band \in DOMAIN BAND_DCYCLE
  BY <1>4, <1>5 DEF Entry, ChannelOf
<1>7. NoChannel \in Entry
  BY EmptyEntry
<1>8. table \in [ChannelIds -> Entry]
  BY <1>5, <1>7 DEF Blank
<1>9. Blank.bands \in [DOMAIN BAND_DCYCLE -> Band]
  BY DEF Blank, Band
<1>10. DEFAULT_MASK \subseteq ChannelIds
  BY <1>3 DEF Tables
<1>11. s \in Plans
  BY <1>2, <1>8, <1>9, <1>10 DEF Plans
<1>12. \A c \in ChannelIds : table[c] = IF c \in DOMAIN LC THEN LC[c] ELSE NoChannel
  BY DEF Blank
<1>13. s.bands = [b \in DOMAIN BAND_DCYCLE |-> [timeOff |-> 0, sinceTx |-> 0, sinceJoin |-> 0]]
  BY <1>2 DEF Blank
<1> HIDE DEF s
<1> QED  BY <1>2, <1>4, <1>6, <1>11, <1>12, <1>13 DEF s

\* Around a join nothing of a plan changes but its rests, so that a plan is
\* well formed when it is good.
LEMMA WellFormedIsGood ==
  ASSUME Header, NEW r, Served(r)
  PROVE  \A g : WellFormed(r, g) <=> Good(g)
<1> SUFFICES ASSUME NEW g  PROVE WellFormed(r, g) <=> Good(g)
  OBVIOUS
<1>1. Typed(r, g) <=> g \in Plans
  BY Names DEF Typed, Plans, Entry, Served
<1>2. g \in Plans => MaskAfterJoin(r, g) = g.mask
  BY DEF MaskAfterJoin, Served, Common, Plans
<1>3. RegionJoinChannels(r) = JOIN_CHANNELS /\ Ids(r) = ChannelIds /\ r \notin HopRegions
  BY Names DEF Served, Common
<1>4. \A c \in JOIN_CHANNELS : /\ Start(r).channels[c].freq = LC[c].freq
                               /\ Start(r).channels[c].band = LC[0].band
  <2>1. Start(r) = InitDefaults(Blank, "INIT")
    BY DEF Start, Served, Common
  <2> QED  BY <2>1, FreshPlan DEF Header, Tables
<1>5. JoinBand(r) = LC[0].band
  BY <1>4, FreshPlan DEF JoinBand
<1> QED  BY <1>1, <1>2, <1>3, <1>4, <1>5 DEF WellFormed, Good

\* What a change of the channels must keep.
LEMMA EditedIsGood ==
  ASSUME Header, NEW r, Served(r), NEW g, NEW h, Good(h), h.bands = g.bands
  PROVE  Edited(r, g, h) /\ (h.channels = g.channels => MaskEdited(r, g, h))
<1>1. WellFormed(r, h) /\ r \notin HopRegions
  BY WellFormedIsGood DEF Served, Common
<1> QED  BY <1>1 DEF Edited, MaskEdited

-----------------------------------------------------------------------------
(* The clauses of the contract.                                             *)

\* What the functions without a state answer.
LEMMA Answers ==
  ASSUME DataRates, NEW r, Common(r)
  PROVE  /\ \A at : Default(r, at) = GetPhyParam(Blank, Query(at, 0, 0))
         /\ \A dr : RxRate(r, dr) <=> dr \in RX_MIN_DATARATE .. RX_MAX_DATARATE
<1>1. \A at : Default(r, at) = GetPhyParam(Blank, Query(at, 0, 0))
  BY DEF Common, Default
<1>2. \A dr : RegionVerify(r, "PHY_RX_DR", dr, 0) = Verify("PHY_RX_DR", dr, 0)
  BY DEF Common
<1>3. \A dr : Verify("PHY_RX_DR", dr, 0) = ValueInRange(dr, LowestRxDr(0), RX_MAX_DATARATE)
  BY DEF Verify
<1>4. RX_MIN_DATARATE = LowestRxDr(0) /\ RX_MIN_DATARATE \in 0 .. 15 /\ RX_MAX_DATARATE \in 0 .. 15
  BY DEF DataRates
<1>5. \A dr : RxRate(r, dr) <=> dr \in 0 .. 15 /\ RX_MIN_DATARATE <= dr /\ dr <= RX_MAX_DATARATE
  BY <1>2, <1>3, <1>4 DEF RxRate, ValueInRange
<1>6. \A dr : RxRate(r, dr) <=> dr \in RX_MIN_DATARATE .. RX_MAX_DATARATE
  BY <1>4, <1>5
<1> QED  BY <1>1, <1>6

\* A downlink rate that is verified under a dwell time is one without it.
LEMMA VerifiedIsRxRate ==
  ASSUME DataRates, NEW r, Common(r), NEW dr \in 0 .. 15, NEW dwell \in {0, 1},
         RegionVerify(r, "PHY_RX_DR", dr, dwell)
  PROVE  RxRate(r, dr)
<1>1. ValueInRange(dr, LowestRxDr(dwell), RX_MAX_DATARATE)
  <2>1. RegionVerify(r, "PHY_RX_DR", dr, dwell) = Verify("PHY_RX_DR", dr, dwell)
    BY DEF Common
  <2>2. Verify("PHY_RX_DR", dr, dwell) = ValueInRange(dr, LowestRxDr(dwell), RX_MAX_DATARATE)
    BY DEF Verify
  <2> QED  BY <2>1, <2>2
<1>2. /\ LowestRxDr(dwell) \in RX_MIN_DATARATE .. 15 /\ RX_MIN_DATARATE \in 0 .. 15
      /\ RX_MAX_DATARATE \in 0 .. 15
  BY DEF DataRates
<1>3. dr \in RX_MIN_DATARATE .. RX_MAX_DATARATE
  BY <1>1, <1>2 DEF ValueInRange
<1> QED  BY <1>3, Answers

\* The attributes of the region are what they should be.
LEMMA ConstantsKept ==
  ASSUME DataRates, Defaults, NEW r, Common(r),
         BAND_DCYCLE \in [DOMAIN BAND_DCYCLE -> Nat \ {0}],
         0 \in JOIN_CHANNELS, JOIN_CHANNELS \subseteq ChannelIds,
         r = "AU915" => Bands(r) = {JoinBand(r)} /\ ~DUTY_CYCLE_ENABLED
  PROVE  Constants(r)
<1>1. \A at : Default(r, at) = GetPhyParam(Blank, Query(at, 0, 0)) /\ Query(at, 0, 0).attribute = at
  BY Answers DEF Query
<1>2. /\ Default(r, "PHY_DEF_TX_DR") = DEFAULT_DATARATE
      /\ Default(r, "PHY_DEF_TX_POWER") = MAX_TX_POWER
      /\ Default(r, "PHY_NB_JOIN_TRIALS") = NB_JOIN_TRIALS
  BY <1>1 DEF GetPhyParam
<1>3. /\ Default(r, "PHY_DEF_RX2_FREQUENCY") = RX_WND_2_FREQ
      /\ Default(r, "PHY_DEF_RX2_DR") = RX_WND_2_DR
  BY <1>1 DEF GetPhyParam
<1>4. /\ DEFAULT_DATARATE \in 0 .. 15 /\ NB_JOIN_TRIALS \in Nat /\ DUTY_CYCLE_ENABLED \in BOOLEAN
      /\ MAX_EIRP \in Int /\ ANTENNA_GAIN \in Nat /\ MAX_TX_POWER \in Nat
      /\ RX_WND_2_FREQ \in Nat /\ RX_WND_2_DR \in RX_MIN_DATARATE .. RX_MAX_DATARATE
  BY DEF Defaults
<1>5. TX_MAX_DATARATE \in 0 .. 15 /\ RX_MAX_DATARATE \in 0 .. 15 /\ RX_MIN_DATARATE \in 0 .. 15
  BY DEF DataRates
<1>6. RxRate(r, RX_WND_2_DR)
  BY <1>4, Answers
<1>7. RegionBandDCycle(r) \in [Bands(r) -> Nat \ {0}]
  BY Names DEF Common
<1>8. 0 \in RegionJoinChannels(r) /\ RegionJoinChannels(r) \subseteq Ids(r)
  BY Names DEF Common
<1>9. RxOffset(r, 0)
  BY DEF Common
<1>10. TopRate(r) \in 0 .. 127 /\ DEFAULT_DATARATE \in Rate /\ MAX_TX_POWER \in Int
  BY <1>4, <1>5, Names DEF Rate
<1> QED  BY <1>2, <1>3, <1>4, <1>6, <1>7, <1>8, <1>9, <1>10, Names DEF Constants

\* The lowest rate and the next lower rate are rates.
LEMMA RatesKept ==
  ASSUME DataRates, NEW r, Common(r), NEW g  PROVE RatesAsked(r, g)
<1> SUFFICES ASSUME NEW dwell \in {0, 1}
             PROVE  /\ RegionGetPhyParam(r, g, Query("PHY_MIN_TX_DR", 0, dwell)) \in Rate
                    /\ \A dr \in Rate :
                         RegionGetPhyParam(r, g, Query("PHY_NEXT_LOWER_TX_DR", dr, dwell)) \in Rate
  BY DEF RatesAsked
<1>1. \A at, dr : /\ RegionGetPhyParam(r, g, Query(at, dr, dwell)) = GetPhyParam(g, Query(at, dr, dwell))
                  /\ Query(at, dr, dwell).attribute = at /\ Query(at, dr, dwell).dr = dr
                  /\ Query(at, dr, dwell).uplinkDwellTime = dwell
  BY DEF Common, Query
<1>2. RegionGetPhyParam(r, g, Query("PHY_MIN_TX_DR", 0, dwell)) = LowestTxDr(dwell)
  BY <1>1 DEF GetPhyParam
<1>3. \A dr : RegionGetPhyParam(r, g, Query("PHY_NEXT_LOWER_TX_DR", dr, dwell))
                = GetNextLowerTxDr(dr, LowestTxDr(dwell))
  BY <1>1 DEF GetPhyParam
<1>4. LowestTxDr(dwell) \in 0 .. 15
  BY DEF DataRates
<1>5. \A dr \in Rate : GetNextLowerTxDr(dr, LowestTxDr(dwell)) \in Rate
  BY DEF DataRates, Rate
<1>6. LowestTxDr(dwell) \in Rate
  BY <1>4 DEF Rate
<1> QED  BY <1>2, <1>3, <1>5, <1>6

\* A fresh plan is well formed and owes no rest.
LEMMA StartedKept == ASSUME Header, NEW r, Served(r)  PROVE Started(r)
<1> DEFINE s == InitDefaults(Blank, "INIT")
<1>1. s \in Plans
  BY FreshPlan
<1>2. \A c \in ChannelIds : s.channels[c].min <= s.channels[c].max
  <2>1. \A c \in DOMAIN LC : LC[c].min <= LC[c].max
    BY DEF Header, Tables
  <2>2. NoChannel.min <= NoChannel.max
    BY DEF NoChannel, Channel
  <2> QED  BY <2>1, <2>2, FreshPlan
<1>3. \A c \in JOIN_CHANNELS : s.channels[c].freq = LC[c].freq /\ s.channels[c].band = LC[0].band
  BY FreshPlan DEF Header, Tables
<1>4. Good(s)
  BY <1>1, <1>2, <1>3 DEF Good
<1> HIDE DEF s
<1>5. Start(r) = s /\ Bands(r) = DOMAIN BAND_DCYCLE
  <2>1. Start(r) = InitDefaults(Blank, "INIT")
    BY DEF Start, Served, Common
  <2> QED  BY <2>1, Names DEF s, Served
<1>6. WellFormed(r, s)
  BY <1>4, WellFormedIsGood
<1>7. s.bands = [b \in DOMAIN BAND_DCYCLE |-> [timeOff |-> 0, sinceTx |-> 0, sinceJoin |-> 0]]
  BY FreshPlan DEF s
<1> QED  BY <1>5, <1>6, <1>7 DEF Started, Served, Common

\* A channel mask of the application is taken as it is; channels are added in
\* the bands of the region and removed behind the default ones.
LEMMA ChannelAddKept ==
  ASSUME Header, NEW g, Good(g), NEW id, NEW new \in ChannelOf(Nat, Nat)
  PROVE  LET h == ChannelAdd(g, id, new).g IN Good(h) /\ h.bands = g.bands
<1> DEFINE a == ChannelAdd(g, id, new)
           channel == [new EXCEPT !.band = Min(VerifyTxFreq(new.freq))]
           edited == [g EXCEPT !.channels[id] = channel, !.mask = @ \cup {id}]
           default == id < NUMB_DEFAULT_CHANNELS
           rangeOk == /\ ValueInRange(new.min, TX_MIN_DATARATE, TX_MAX_DATARATE)
                      /\ ValueInRange(new.max, TX_MIN_DATARATE, TX_MAX_DATARATE)
                      /\ new.min <= new.max
                      /\ default /\ DEFAULT_RANGE_FIXED =>
                           new.min = 0 /\ ValueInRange(new.max, 5, TX_MAX_DATARATE)
           freqOk  == /\ default => new.freq = g.channels[id].freq
                      /\ VerifyTxFreq(new.freq) # {}
<1>1. CASE ~(id \in ChannelIds /\ rangeOk /\ freqOk)
  <2>1. a.refused # {}
    <3>1. a.refused = IF id \in ChannelIds THEN Cleared([freq |-> freqOk, dr |-> rangeOk])
                                           ELSE {"freq", "dr"}
      BY DEF ChannelAdd
    <3>2. freqOk \in BOOLEAN /\ rangeOk \in BOOLEAN
      BY DEF ValueInRange
    <3> HIDE DEF a, freqOk, rangeOk
    <3> QED  BY <1>1, <3>1, <3>2, AllSet
  <2>2. a.g = g
    BY <2>1 DEF ChannelAdd
  <2> QED  BY <2>2
<1>2. CASE id \in ChannelIds /\ rangeOk /\ freqOk
  <2>1. a.g = g \/ a.g = edited
    BY DEF ChannelAdd
  <2>2. g \in Plans
    BY DEF Good
  <2>3. PICK band \in DOMAIN BAND_DCYCLE : VerifyTxFreq(new.freq) = {band}
    BY <1>2 DEF Header, Functions, ChannelOf
  <2>4. Min({band}) = band
    <3>1. band \in Nat
      BY DEF Header, Tables
    <3> QED  BY <3>1 DEF Min
  <2>5. channel \in Entry /\ channel.band = band /\ channel.min <= channel.max
        /\ channel.freq = new.freq
    <3>1. new \in [freq : Nat, rx1 : Nat, min : Nat, max : Nat, band : Nat]
      BY DEF ChannelOf
    <3>2. TX_MIN_DATARATE \in 0 .. TX_MAX_DATARATE /\ TX_MAX_DATARATE \in 0 .. 15
      BY DEF Header, DataRates
    <3>3. new.min \in 0 .. TX_MAX_DATARATE /\ new.max \in 0 .. TX_MAX_DATARATE
      BY <1>2, <3>1, <3>2 DEF ValueInRange
    <3>4. channel = [freq |-> new.freq, rx1 |-> new.rx1, min |-> new.min, max |-> new.max, band |-> band]
      BY <2>3, <2>4, <3>1
    <3> QED  BY <1>2, <3>1, <3>3, <3>4 DEF Entry, ChannelOf
  <2> HIDE DEF channel
  <2>6. /\ edited.channels = [g.channels EXCEPT ![id] = channel]
        /\ edited.mask = g.mask \cup {id} /\ edited.bands = g.bands
        /\ edited \in Plans
    BY <1>2, <2>2, <2>5 DEF Plans
  <2>7. \A c \in ChannelIds : edited.channels[c] = IF c = id THEN channel ELSE g.channels[c]
    BY <2>2, <2>6 DEF Plans
  <2> HIDE DEF edited
  <2>8. ASSUME id \in JOIN_CHANNELS
        PROVE  channel.freq = LC[id].freq /\ channel.band = LC[0].band
    <3>1. id < NUMB_DEFAULT_CHANNELS
      BY <2>8 DEF Header, Tables
    <3>2. channel.freq = g.channels[id].freq
      BY <1>2, <2>5, <3>1
    <3>3. g.channels[id].freq = LC[id].freq
      BY <2>8 DEF Good
    <3>4. VerifyTxFreq(LC[id].freq) = {LC[0].band}
      BY <2>8 DEF Header, Tables
    <3>5. {band} = {LC[0].band}
      BY <2>3, <2>5, <3>2, <3>3, <3>4
    <3> QED  BY <2>5, <3>2, <3>3, <3>5
  <2>9. Good(edited)
    <3>1. \A c \in ChannelIds : edited.channels[c].min <= edited.channels[c].max
      BY <2>5, <2>7 DEF Good
    <3>2. \A c \in JOIN_CHANNELS : /\ edited.channels[c].freq = LC[c].freq
                                   /\ edited.channels[c].band = LC[0].band
      BY <2>7, <2>8, FreshPlan DEF Good
    <3> QED  BY <2>6, <3>1, <3>2 DEF Good
  <2> QED  BY <2>1, <2>6, <2>9
<1> QED  BY <1>1, <1>2

\* Of a plan, the mask alone is replaced, or the mask of the defaults.
LEMMA MasksKept ==
  ASSUME NEW g, Good(g), NEW mask \in SUBSET ChannelIds
  PROVE  /\ Good([g EXCEPT !.mask = mask]) /\ Good([g EXCEPT !.defaultMask = mask])
         /\ [g EXCEPT !.mask = mask].bands = g.bands
         /\ [g EXCEPT !.mask = mask].channels = g.channels
         /\ [g EXCEPT !.mask = mask].mask = mask
         /\ [g EXCEPT !.defaultMask = mask].bands = g.bands
         /\ [g EXCEPT !.defaultMask = mask].channels = g.channels
<1>1. g \in Plans
  BY DEF Good
<1>2. /\ [g EXCEPT !.mask = mask] \in Plans /\ [g EXCEPT !.defaultMask = mask] \in Plans
      /\ [g EXCEPT !.mask = mask].bands = g.bands
      /\ [g EXCEPT !.mask = mask].channels = g.channels
      /\ [g EXCEPT !.mask = mask].mask = mask
      /\ [g EXCEPT !.defaultMask = mask].bands = g.bands
      /\ [g EXCEPT !.defaultMask = mask].channels = g.channels
  BY <1>1 DEF Plans
<1> DEFINE h == [g EXCEPT !.mask = mask]
           k == [g EXCEPT !.defaultMask = mask]
<1> HIDE DEF h, k
<1>3. h \in Plans /\ k \in Plans /\ h.channels = g.channels /\ k.channels = g.channels
  BY <1>2 DEF h, k
<1>4. Good(h) /\ Good(k)
  BY <1>3 DEF Good
<1> QED  BY <1>2, <1>4 DEF h, k

\* A channel other than the default ones may be removed.
LEMMA ChannelsRemoveKept ==
  ASSUME Header, NEW g, Good(g), NEW id \in ChannelIds
  PROVE  LET h == ChannelsRemove(g, id).g IN Good(h) /\ h.bands = g.bands
<1> DEFINE h == ChannelsRemove(g, id).g
           edited == [g EXCEPT !.channels[id] = NoChannel,
                               !.mask = ChanDisable(@, id, MAX_NB_CHANNELS)]
<1>1. CASE id < NUMB_DEFAULT_CHANNELS
  BY <1>1 DEF ChannelsRemove
<1>2. CASE ~(id < NUMB_DEFAULT_CHANNELS)
  <2>1. h = edited
    BY <1>2 DEF ChannelsRemove
  <2>2. g \in Plans /\ NoChannel \in Entry /\ NoChannel.min <= NoChannel.max
    BY EmptyEntry DEF Good
  <2>3. ChanDisable(g.mask, id, MAX_NB_CHANNELS) \in SUBSET ChannelIds
    BY <2>2 DEF ChanDisable, Plans
  <2>4. /\ edited \in Plans /\ edited.bands = g.bands
        /\ edited.channels = [g.channels EXCEPT ![id] = NoChannel]
    BY <2>2, <2>3 DEF Plans
  <2>5. \A c \in ChannelIds : edited.channels[c] = IF c = id THEN NoChannel ELSE g.channels[c]
    BY <2>2, <2>4 DEF Plans
  <2> HIDE DEF edited
  <2>6. id \notin JOIN_CHANNELS
    BY <1>2 DEF Header, Tables
  <2>7. \A c \in ChannelIds : edited.channels[c].min <= edited.channels[c].max
    BY <2>2, <2>5 DEF Good
  <2>8. \A c \in JOIN_CHANNELS : /\ edited.channels[c].freq = LC[c].freq
                                 /\ edited.channels[c].band = LC[0].band
    BY <2>5, <2>6, FreshPlan DEF Good
  <2> QED  BY <2>1, <2>4, <2>7, <2>8 DEF Good
<1> QED  BY <1>1, <1>2

\* The settings of the application keep a plan well formed.
LEMMA ApplicationEditsKept ==
  ASSUME Header, NEW r, Served(r), NEW g, WellFormed(r, g)
  PROVE  ApplicationEdits(r, g)
<1>1. Good(g) /\ Ids(r) = ChannelIds
  BY WellFormedIsGood, Names DEF Served
<1>2. ASSUME NEW type, NEW mask \in SUBSET ChannelIds
      PROVE  MaskEdited(r, g, RegionChanMaskSet(r, g, type, mask).g)
  <2> DEFINE h == RegionChanMaskSet(r, g, type, mask).g
  <2>1. h = [g EXCEPT !.mask = mask] \/ h = [g EXCEPT !.defaultMask = mask]
    BY DEF Served, Common, ChanMaskSet
  <2> HIDE DEF h
  <2>2. ASSUME h = [g EXCEPT !.mask = mask]
        PROVE  Good(h) /\ h.bands = g.bands /\ h.channels = g.channels
    BY <1>1, <2>2, MasksKept
  <2>3. ASSUME h = [g EXCEPT !.defaultMask = mask]
        PROVE  Good(h) /\ h.bands = g.bands /\ h.channels = g.channels
    BY <1>1, <2>3, MasksKept
  <2>4. Good(h) /\ h.bands = g.bands /\ h.channels = g.channels
    BY <2>1, <2>2, <2>3
  <2> QED  BY <2>4, EditedIsGood DEF h
<1>3. ASSUME NEW id \in Nat, NEW new \in ChannelOf(Nat, Nat)
      PROVE  Edited(r, g, RegionChannelAdd(r, g, id, new).g)
  BY <1>1, ChannelAddKept, EditedIsGood DEF Served, Common
<1>4. ASSUME NEW id \in ChannelIds
      PROVE  Edited(r, g, RegionChannelsRemove(r, g, id).g)
  BY <1>1, ChannelsRemoveKept, EditedIsGood DEF Served, Common
<1>5. ASSUME NEW dr \in 0 .. 15, NEW dwell \in {0, 1}, RegionVerify(r, "PHY_RX_DR", dr, dwell)
      PROVE  RxRate(r, dr)
  BY <1>5, VerifiedIsRxRate DEF Header, Served
<1> QED  BY <1>1, <1>2, <1>3, <1>4, <1>5 DEF ApplicationEdits

\* A block of LinkADRReq sets the mask, to channels of the table.
LEMMA LinkAdrKept ==
  ASSUME Header, NEW r, Served(r), NEW g, Good(g), NEW reqs \in Seq(Request(r)), reqs # <<>>
  PROVE  LET a == LinkAdrReq(g, reqs)
         IN  /\ Good(a.g) /\ a.g.bands = g.bands /\ a.g.channels = g.channels
             /\ a.dr \in Rate /\ a.power \in Int
<1> DEFINE a == LinkAdrReq(g, reqs)
           req == Last(reqs)
           defined == {c \in ChannelIds : g.channels[c].freq # 0}
           mask == IF req.ctrl = 6 THEN req.mask \cup defined ELSE req.mask
<1>1. req \in Request(r)
  <2>1. Len(reqs) \in 1 .. Len(reqs)
    OBVIOUS
  <2>2. reqs[Len(reqs)] \in Request(r)
    BY <2>1
  <2> QED  BY <2>2 DEF Last
<1>2. req.mask \subseteq 0 .. 15 /\ req.dr \in 0 .. 15 /\ req.power \in 0 .. 15
  BY <1>1 DEF Request
<1>3. mask \in SUBSET ChannelIds
  <2>1. 0 .. 15 \subseteq ChannelIds
    BY DEF Header, Tables
  <2> QED  BY <1>2, <2>1
<1>4. /\ a.dr = req.dr /\ a.power = req.power
      /\ a.g = g \/ a.g = [g EXCEPT !.mask = mask]
  BY DEF LinkAdrReq
<1> HIDE DEF a, mask, req
<1>5. ASSUME a.g = [g EXCEPT !.mask = mask]
      PROVE  Good(a.g) /\ a.g.bands = g.bands /\ a.g.channels = g.channels
  <2>1. LET h == [g EXCEPT !.mask = mask]
        IN  Good(h) /\ h.bands = g.bands /\ h.channels = g.channels
    BY <1>3, MasksKept
  <2> QED  BY <1>5, <2>1
<1>6. Good(a.g) /\ a.g.bands = g.bands /\ a.g.channels = g.channels
  BY <1>4, <1>5
<1>7. a.dr \in Rate /\ a.power \in Int
  BY <1>2, <1>4 DEF Rate
<1> QED  BY <1>6, <1>7 DEF a

\* The frequency of a downlink may be set for channels of the table.
LEMMA DlChannelKept ==
  ASSUME Header, NEW g, Good(g), NEW id \in ChannelIds, NEW rx1 \in Nat
  PROVE  LET h == DlChannelReq(g, id, rx1).g IN Good(h) /\ h.bands = g.bands
<1> DEFINE h == DlChannelReq(g, id, rx1).g
           edited == [g EXCEPT !.channels[id].rx1 = rx1]
<1>1. h = g \/ h = edited
  BY DEF DlChannelReq
<1>2. g \in Plans /\ g.channels[id] \in Entry
  BY DEF Good, Plans
<1> DEFINE channel == [g.channels[id] EXCEPT !.rx1 = rx1]
<1>3. /\ channel \in Entry /\ channel.min = g.channels[id].min /\ channel.max = g.channels[id].max
      /\ channel.freq = g.channels[id].freq /\ channel.band = g.channels[id].band
  BY <1>2 DEF Entry, ChannelOf
<1>4. /\ edited = [g EXCEPT !.channels = [g.channels EXCEPT ![id] = channel]]
  OBVIOUS
<1> HIDE DEF channel
<1>5. /\ edited \in Plans /\ edited.bands = g.bands
      /\ edited.channels = [g.channels EXCEPT ![id] = channel]
  BY <1>2, <1>3, <1>4 DEF Plans
<1> HIDE DEF edited
<1>6. \A c \in ChannelIds : edited.channels[c] = IF c = id THEN channel ELSE g.channels[c]
  BY <1>2, <1>5 DEF Plans
<1>7. \A c \in ChannelIds : /\ edited.channels[c].min = g.channels[c].min
                            /\ edited.channels[c].max = g.channels[c].max
                            /\ edited.channels[c].freq = g.channels[c].freq
                            /\ edited.channels[c].band = g.channels[c].band
  BY <1>3, <1>6
<1>8. Good(edited)
  BY <1>5, <1>7, FreshPlan DEF Good
<1> QED  BY <1>1, <1>5, <1>8

\* The list of a join-accept leaves each channel as a single request would.
LEMMA CFListKept ==
  ASSUME Header, NEW g, Good(g), NEW freqs \in Seq(Nat)
  PROVE  LET h == ApplyCFList(g, freqs) IN Good(h) /\ h.bands = g.bands
<1> DEFINE h == ApplyCFList(g, freqs)
           freq(id) == IF id < NUMB_DEFAULT_CHANNELS + NUMB_CHANNELS_CF_LIST
                       THEN freqs[id - NUMB_DEFAULT_CHANNELS + 1] ELSE 0
           new(id) == [NoChannel EXCEPT !.freq = freq(id), !.max = 5]
           after(id) == IF id < NUMB_DEFAULT_CHANNELS THEN g
                        ELSE IF freq(id) = 0 THEN ChannelsRemove(g, id).g
                        ELSE ChannelAdd(g, id, new(id)).g
           edited == [g EXCEPT !.channels = [id \in DOMAIN g.channels |-> after(id).channels[id]],
                               !.mask = {id \in ChannelIds : id \in after(id).mask}]
<1>1. CASE Len(freqs) # NUMB_CHANNELS_CF_LIST
  BY <1>1 DEF ApplyCFList
<1>2. CASE Len(freqs) = NUMB_CHANNELS_CF_LIST
  <2>1. h = edited
    BY <1>2 DEF ApplyCFList
  <2>2. ASSUME NEW id \in ChannelIds  PROVE Good(after(id))
    <3>1. CASE id < NUMB_DEFAULT_CHANNELS
      BY <3>1
    <3>2. CASE ~(id < NUMB_DEFAULT_CHANNELS) /\ freq(id) = 0
      BY <3>2, ChannelsRemoveKept
    <3>3. CASE ~(id < NUMB_DEFAULT_CHANNELS) /\ freq(id) # 0
      <4>1. NUMB_DEFAULT_CHANNELS \in Nat /\ NUMB_CHANNELS_CF_LIST \in Nat /\ id \in Nat
        BY DEF Header, Tables, ChannelIds
      <4>2. freq(id) \in Nat
        BY <1>2, <3>3, <4>1
      <4> HIDE DEF freq
      <4>3. new(id) \in ChannelOf(Nat, Nat)
        BY <4>2 DEF ChannelOf, NoChannel, Channel
      <4> HIDE DEF new
      <4>4. Good(ChannelAdd(g, id, new(id)).g)
        BY <4>3, ChannelAddKept
      <4> QED  BY <3>3, <4>4
    <3> QED  BY <3>1, <3>2, <3>3
  <2> HIDE DEF after
  <2>3. g \in Plans /\ DOMAIN g.channels = ChannelIds
    BY DEF Good, Plans
  <2> DEFINE table == [id \in ChannelIds |-> after(id).channels[id]]
             mask == {id \in ChannelIds : id \in after(id).mask}
  <2>4. edited = [g EXCEPT !.channels = table, !.mask = mask]
    BY <2>3
  <2>5. table \in [ChannelIds -> Entry]
    BY <2>2 DEF Good, Plans
  <2>6. mask \in SUBSET ChannelIds
    OBVIOUS
  <2>7. \A id \in ChannelIds : table[id] = after(id).channels[id]
    OBVIOUS
  <2> HIDE DEF table, mask, edited
  <2>8. edited \in Plans /\ edited.channels = table /\ edited.bands = g.bands
    BY <2>3, <2>4, <2>5, <2>6 DEF Plans
  <2>9. Good(edited)
    BY <2>2, <2>7, <2>8, FreshPlan DEF Good
  <2> QED  BY <2>1, <2>8, <2>9
<1> QED  BY <1>1, <1>2

\* The commands of the network and the join-accept keep a plan well formed.
LEMMA NetworkEditsKept ==
  ASSUME Header, NEW r, Served(r), NEW g, WellFormed(r, g)
  PROVE  NetworkEdits(r, g)
<1>1. Good(g) /\ Ids(r) = ChannelIds
  BY WellFormedIsGood, Names DEF Served
<1>2. ASSUME NEW reqs \in Seq(Request(r)), reqs # <<>>
      PROVE  LET a == RegionLinkAdrReq(r, g, reqs)
             IN  MaskEdited(r, g, a.g) /\ (a.refused = {} => a.dr \in Rate /\ a.power \in Int)
  <2> DEFINE a == RegionLinkAdrReq(r, g, reqs)
  <2>1. a = LinkAdrReq(g, reqs)
    BY DEF Served, Common
  <2> HIDE DEF a
  <2>2. /\ Good(a.g) /\ a.g.bands = g.bands /\ a.g.channels = g.channels
        /\ a.dr \in Rate /\ a.power \in Int
    BY <1>1, <1>2, <2>1, LinkAdrKept
  <2>3. MaskEdited(r, g, a.g)
    BY <2>2, EditedIsGood
  <2> QED  BY <2>2, <2>3 DEF a
<1>3. ASSUME NEW id \in ChannelIds, NEW new \in ChannelOf(Nat, Nat)
      PROVE  Edited(r, g, RegionNewChannelReq(r, g, id, new).g)
  <2> DEFINE h == RegionNewChannelReq(r, g, id, new).g
  <2>1. h = ChannelAdd(g, id, new).g \/ h = ChannelsRemove(g, id).g
    BY DEF Served, Common, NewChannelReq
  <2> HIDE DEF h
  <2>2. Good(h) /\ h.bands = g.bands
    BY <1>1, <2>1, ChannelAddKept, ChannelsRemoveKept
  <2> QED  BY <2>2, EditedIsGood DEF h
<1>4. ASSUME NEW id \in ChannelIds, NEW rx1 \in Nat
      PROVE  Edited(r, g, RegionDlChannelReq(r, g, id, rx1).g)
  BY <1>1, DlChannelKept, EditedIsGood DEF Served, Common
<1>5. ASSUME NEW freqs \in Seq(Nat)  PROVE Edited(r, g, RegionApplyCFList(r, g, freqs))
  BY <1>1, CFListKept, EditedIsGood DEF Served, Common
<1>6. ASSUME NEW offset \in Nat, NEW dr \in 0 .. 15, NEW freq \in Nat,
             RegionRxParamSetupReq(r, offset, dr, freq) = {}
      PROVE  RxRate(r, dr)
  <2> DEFINE checks == [dr     |-> ValueInRange(dr, RX_MIN_DATARATE, RX_MAX_DATARATE),
                        offset |-> ValueInRange(offset, 0, MAX_RX1_DR_OFFSET)]
  <2>1. Cleared(checks) = {}
    BY <1>6 DEF Served, Common, RxParamSetupReq
  <2>2. "dr" \in DOMAIN checks /\ checks["dr"] = ValueInRange(dr, RX_MIN_DATARATE, RX_MAX_DATARATE)
    OBVIOUS
  <2> HIDE DEF checks
  <2>3. checks["dr"]
    BY <2>1, <2>2 DEF Cleared
  <2>4. RX_MIN_DATARATE \in 0 .. 15 /\ RX_MAX_DATARATE \in 0 .. 15
    BY DEF Header, DataRates
  <2>5. ValueInRange(dr, RX_MIN_DATARATE, RX_MAX_DATARATE)
    BY <2>2, <2>3, Zenon
  <2>6. dr \in RX_MIN_DATARATE .. RX_MAX_DATARATE
    BY <2>4, <2>5 DEF ValueInRange
  <2> QED  BY <2>6, Answers DEF Header, Served
<1> QED  BY <1>1, <1>2, <1>3, <1>4, <1>5, <1>6 DEF NetworkEdits

\* ADR back-off lowers rates step by step; at the lowest it falls back on another
\* mask.
LEMMA AdrNextAnswers ==
  ASSUME DataRates, Defaults, NEW g,
         NEW a \in [adr : BOOLEAN, dr : Rate, power : Int, counter : Nat, dwell : {0, 1},
                    updateMask : BOOLEAN]
  PROVE  LET n == AdrNext(g, a)
         IN  /\ n.g = g \/ n.g = [g EXCEPT !.mask = Reenabled(g.mask)]
             /\ n.dr \in Rate /\ n.power \in Int /\ n.counter \in Nat
<1> DEFINE n == AdrNext(g, a)
           lowest == LowestTxDr(a.dwell)
           start == IF DWELL_LIMIT_DATARATES = {} THEN a.dr ELSE Max({a.dr, lowest})
           next == GetNextLowerTxDr(start, lowest)
<1>1. /\ a.dr \in Rate /\ a.power \in Int /\ a.counter \in Nat /\ a.dwell \in {0, 1}
  OBVIOUS
<1>2. lowest \in 0 .. 15 /\ \A dr \in Rate : GetNextLowerTxDr(dr, lowest) \in Rate
  BY <1>1 DEF DataRates, Rate
<1>3. start \in Rate
  <2>1. a.dr \in Int /\ lowest \in Int /\ lowest \in Rate
    <3>1. a.dr \in Rate /\ lowest \in 0 .. 15
      BY <1>1, <1>2
    <3> HIDE DEF lowest
    <3> QED  BY <3>1 DEF Rate
  <2>2. Max({a.dr, lowest}) = a.dr \/ Max({a.dr, lowest}) = lowest
    BY <2>1, LargerOfTwo
  <2> QED  BY <1>1, <2>1, <2>2
<1>4. next \in Rate
  BY <1>2, <1>3
<1>5. /\ n.g = g \/ n.g = [g EXCEPT !.mask = Reenabled(g.mask)]
      /\ n.dr = a.dr \/ n.dr = start \/ n.dr = next
      /\ n.power = a.power \/ n.power = MAX_TX_POWER
      /\ n.counter = a.counter \/ n.counter = 0
  <2>1. CASE ~a.adr
    BY <2>1 DEF AdrNext
  <2>2. CASE a.adr /\ start = lowest
    BY <2>2 DEF AdrNext
  <2>3. CASE a.adr /\ start # lowest
    BY <2>3 DEF AdrNext
  <2> QED  BY <2>1, <2>2, <2>3
<1>6. MAX_TX_POWER \in Nat
  BY DEF Defaults
<1> HIDE DEF n, start, next
<1>7. n.dr \in Rate /\ n.power \in Int /\ n.counter \in Nat
  BY <1>1, <1>3, <1>4, <1>5, <1>6
<1> QED  BY <1>5, <1>7 DEF n

\* The mask of the files with an editable table is the default channels added.
LEMMA AdrNextKept ==
  ASSUME Header, NEW g, Good(g),
         NEW a \in [adr : BOOLEAN, dr : Rate, power : Int, counter : Nat, dwell : {0, 1},
                    updateMask : BOOLEAN]
  PROVE  LET n == AdrNext(g, a)
         IN  /\ Good(n.g) /\ n.g.bands = g.bands /\ n.g.channels = g.channels
             /\ n.dr \in Rate /\ n.power \in Int /\ n.counter \in Nat
<1> DEFINE n == AdrNext(g, a)
<1>1. DataRates /\ Defaults /\ Reenabled(g.mask) = g.mask \cup DEFAULT_MASK
  BY DEF Header, Functions
<1>2. g.mask \cup DEFAULT_MASK \in SUBSET ChannelIds
  BY DEF Good, Plans, Header, Tables
<1>3. /\ n.g = g \/ n.g = [g EXCEPT !.mask = Reenabled(g.mask)]
      /\ n.dr \in Rate /\ n.power \in Int /\ n.counter \in Nat
  BY <1>1, AdrNextAnswers
<1> HIDE DEF n
<1>4. LET h == [g EXCEPT !.mask = g.mask \cup DEFAULT_MASK]
      IN  Good(h) /\ h.bands = g.bands /\ h.channels = g.channels
  BY <1>2, MasksKept
<1>5. Good(n.g) /\ n.g.bands = g.bands /\ n.g.channels = g.channels
  BY <1>1, <1>3, <1>4
<1> QED  BY <1>3, <1>5 DEF n

\* What the MAC itself changes keeps a plan well formed.
LEMMA MacEditsKept ==
  ASSUME Header, NEW r, Served(r), NEW g, WellFormed(r, g)
  PROVE  MacEdits(r, g)
<1>1. Good(g) /\ Ids(r) = ChannelIds
  BY WellFormedIsGood, Names DEF Served
<1>2. MaskEdited(r, g, RegionInitDefaults(r, g, "RESTORE"))
  <2> DEFINE h == RegionInitDefaults(r, g, "RESTORE")
  <2>1. h = [g EXCEPT !.mask = g.mask \cup g.defaultMask]
    BY DEF Served, Common, InitDefaults
  <2>2. g.mask \cup g.defaultMask \in SUBSET ChannelIds
    BY <1>1 DEF Good, Plans
  <2>3. LET k == [g EXCEPT !.mask = g.mask \cup g.defaultMask]
        IN  Good(k) /\ k.bands = g.bands /\ k.channels = g.channels
    BY <1>1, <2>2, MasksKept
  <2> HIDE DEF h
  <2>4. Good(h) /\ h.bands = g.bands /\ h.channels = g.channels
    BY <2>1, <2>3
  <2> QED  BY <2>4, EditedIsGood DEF h
<1>3. ASSUME NEW n \in Nat
      PROVE  LET a == RegionAlternateDr(r, g, n) IN MaskEdited(r, g, a.g) /\ a.dr \in Rate
  <2>1. RegionAlternateDr(r, g, n).g = g /\ RegionAlternateDr(r, g, n).dr \in Rate
    BY DEF Served, Common
  <2> QED  BY <1>1, <2>1, EditedIsGood
<1>4. ASSUME NEW a \in [adr : BOOLEAN, dr : Rate, power : Int, counter : Nat, dwell : {0, 1},
                        updateMask : BOOLEAN]
      PROVE  LET n == RegionAdrNext(r, g, a)
             IN  MaskEdited(r, g, n.g) /\ n.dr \in Rate /\ n.power \in Int /\ n.counter \in Nat
  <2> DEFINE n == RegionAdrNext(r, g, a)
  <2>1. n = AdrNext(g, a)
    BY DEF Served, Common
  <2>2. LET k == AdrNext(g, a)
        IN  /\ Good(k.g) /\ k.g.bands = g.bands /\ k.g.channels = g.channels
            /\ k.dr \in Rate /\ k.power \in Int /\ k.counter \in Nat
    BY <1>1, AdrNextKept
  <2> HIDE DEF n
  <2>3. MaskEdited(r, g, n.g)
    BY <2>1, <2>2, EditedIsGood
  <2> QED  BY <2>1, <2>2, <2>3 DEF n
<1> QED  BY <1>2, <1>3, <1>4 DEF MacEdits

\* A frame silences its band for the duty cycle, before a join for the one of
\* the device's age as well.
LEMMA BackOffKept ==
  ASSUME Header, NEW r, Served(r), NEW g, WellFormed(r, g)
  PROVE  BackOff(r, g)
<1>1. Good(g) /\ Ids(r) = ChannelIds /\ RegionBandDCycle(r) = BAND_DCYCLE
  BY WellFormedIsGood, Names DEF Served, Common
<1>2. \A joined \in BOOLEAN, c \in Ids(r) :
        RegionSetBandTxDone(r, g, joined, c)
          = [g EXCEPT !.bands[g.channels[c].band] = SetBandTxDone(joined, @)]
  BY DEF Served, Common, SetBandTxDoneOn
<1>3. ASSUME NEW b \in [channel : Ids(r), joined : BOOLEAN, dutyCycle : {DutyCycleOn(r)},
                        age : Ages, airTime : {0, 1}]
      PROVE  LET band == g.channels[b.channel].band
                 rest == RegionCalcBackOff(r, g, b).bands[band].timeOff
             IN  /\ RegionCalcBackOff(r, g, b) = [g EXCEPT !.bands[band].timeOff = rest]
                 /\ rest \in Nat
                 /\ ~b.joined \/ b.dutyCycle =>
                      rest >= b.airTime * (RegionBandDCycle(r)[band] - 1)
                 /\ ~b.joined => rest >= b.airTime * (GetJoinDc(b.age) - 1)
                 /\ r = "AU915" /\ b.joined => rest = 0
  <2> DEFINE band == g.channels[b.channel].band
             joinDc == GetJoinDc(b.age)
             dCycle == IF b.joined THEN BAND_DCYCLE[band] ELSE Max({BAND_DCYCLE[band], joinDc})
             charged == ~b.joined \/ b.dutyCycle
             due == IF charged THEN b.airTime * dCycle - b.airTime ELSE 0
             h == RegionCalcBackOff(r, g, b)
  <2>1. h = [g EXCEPT !.bands[band].timeOff = due]
    BY DEF Served, Common, CalcBackOff
  <2>2. b.airTime \in {0, 1} /\ b.joined \in BOOLEAN /\ b.channel \in ChannelIds /\ b.age \in Ages
    BY <1>1
  <2>3. band \in DOMAIN BAND_DCYCLE
    BY <1>1, <2>2 DEF Good, Plans, Entry, ChannelOf
  <2>4. h.bands[band].timeOff = due
    BY <1>1, <2>1, <2>3 DEF Good, Plans, Band
  <2>5. BAND_DCYCLE[band] \in Nat \ {0}
    BY <2>3 DEF Header, Tables
  <2>6. joinDc \in Nat \ {0}
    BY <2>2 DEF Ages, GetJoinDc
  <2>7. dCycle \in Nat \ {0} /\ dCycle >= BAND_DCYCLE[band] /\ (~b.joined => dCycle >= joinDc)
    <3> HIDE DEF joinDc, band
    <3>1. Max({BAND_DCYCLE[band], joinDc})
            = IF BAND_DCYCLE[band] >= joinDc THEN BAND_DCYCLE[band] ELSE joinDc
      BY <2>5, <2>6, LargerOfTwo
    <3> QED  BY <2>2, <2>5, <2>6, <3>1
  <2>8. r # "AU915"
    BY DEF Served, Common, HopRegions
  <2> HIDE DEF dCycle, joinDc, band
  <2>9. /\ due \in Nat
        /\ charged => due >= b.airTime * (BAND_DCYCLE[band] - 1)
        /\ ~b.joined => due >= b.airTime * (joinDc - 1)
    <3>1. CASE b.airTime = 0
      BY <2>5, <2>6, <2>7, <3>1
    <3>2. CASE b.airTime = 1
      BY <2>5, <2>6, <2>7, <3>2
    <3> QED  BY <2>2, <3>1, <3>2
  <2> HIDE DEF due, h
  <2> QED  BY <1>1, <2>1, <2>4, <2>8, <2>9 DEF h, band, joinDc
<1> QED  BY <1>2, <1>3 DEF BackOff

\* UpdateBandTimeOff clears the rests that are over and no others; while one is
\* left it answers how long to wait.
LEMMA RestsUpdated ==
  ASSUME NEW D, NEW bands \in [D -> Band], NEW joined \in BOOLEAN, NEW dutyCycle \in BOOLEAN
  PROVE  LET u == UpdateBandTimeOff(joined, dutyCycle, bands)
         IN  /\ u.bands \in [D -> Band]
             /\ \A b \in D :
                  /\ u.bands[b].sinceTx = bands[b].sinceTx
                  /\ u.bands[b].sinceJoin = bands[b].sinceJoin
                  /\ \/ u.bands[b].timeOff = bands[b].timeOff
                     \/ /\ u.bands[b].timeOff = 0
                        /\ \/ joined /\ ~dutyCycle
                           \/ bands[b].timeOff <= Elapsed(joined, dutyCycle, bands[b])
             /\ (\E b \in D : u.bands[b].timeOff # 0) => u.delay \in Nat \ {0}
<1> DEFINE elapsed(b) == Elapsed(joined, dutyCycle, bands[b])
           free(b) == \/ joined /\ ~dutyCycle
                      \/ bands[b].timeOff <= elapsed(b)
           resting == {b \in D : ~free(b)}
           left == {bands[b].timeOff - elapsed(b) : b \in resting}
           u == UpdateBandTimeOff(joined, dutyCycle, bands)
<1>1. DOMAIN bands = D
  OBVIOUS
<1>2. \A b \in D : elapsed(b) \in Nat /\ bands[b].timeOff \in Nat
  <2>1. SUFFICES ASSUME NEW b \in D  PROVE elapsed(b) \in Nat /\ bands[b].timeOff \in Nat
    OBVIOUS
  <2>2. bands[b].timeOff \in Nat /\ bands[b].sinceTx \in Nat /\ bands[b].sinceJoin \in Nat
    BY DEF Band
  <2>3. /\ Max({bands[b].sinceJoin, bands[b].sinceTx}) \in Nat
        /\ Max({bands[b].sinceJoin, 0}) \in Nat
    BY <2>2, LargerOfTwo
  <2>4. elapsed(b) \in Nat
    BY <2>2, <2>3 DEF Elapsed
  <2> QED  BY <2>2, <2>4
<1>3. /\ u.bands = [b \in D |-> [bands[b] EXCEPT !.timeOff = IF b \in resting THEN @ ELSE 0]]
      /\ ~(joined /\ ~dutyCycle) /\ resting # {} => u.delay = Min(left)
  BY <1>1 DEF UpdateBandTimeOff
<1> HIDE DEF u, elapsed
<1>4. ASSUME NEW b \in D
      PROVE  /\ u.bands[b] \in Band
             /\ u.bands[b].sinceTx = bands[b].sinceTx /\ u.bands[b].sinceJoin = bands[b].sinceJoin
             /\ u.bands[b].timeOff = IF b \in resting THEN bands[b].timeOff ELSE 0
  <2>1. u.bands[b] = [bands[b] EXCEPT !.timeOff = IF b \in resting THEN bands[b].timeOff ELSE 0]
    BY <1>3
  <2>2. bands[b] \in Band
    OBVIOUS
  <2> HIDE DEF resting
  <2> QED  BY <2>1, <2>2 DEF Band
<1>5. u.bands \in [D -> Band]
  <2>1. u.bands = [b \in D |-> u.bands[b]]
    BY <1>3
  <2> QED  BY <1>4, <2>1
<1>6. ASSUME NEW b \in D, u.bands[b].timeOff # 0  PROVE u.delay \in Nat \ {0}
  <2>1. b \in resting
    BY <1>4, <1>6
  <2>2. left \in SUBSET (Nat \ {0}) /\ left # {}
    BY <1>2, <2>1
  <2>3. Min(left) \in left
    BY <2>2, LeastIsIn
  <2>4. u.delay = Min(left)
    BY <1>3, <2>1
  <2> QED  BY <2>2, <2>3, <2>4
<1>7. ASSUME NEW b \in D
      PROVE  \/ u.bands[b].timeOff = bands[b].timeOff
             \/ /\ u.bands[b].timeOff = 0
                /\ \/ joined /\ ~dutyCycle
                   \/ bands[b].timeOff <= elapsed(b)
  BY <1>4
<1> QED  BY <1>4, <1>5, <1>6, <1>7 DEF u, elapsed

\* A search picks an enabled channel that carries the frame and does not rest.
LEMMA SearchesKept ==
  ASSUME Header, RandrPicks, NEW r, Served(r), NEW g, WellFormed(r, g)
  PROVE  Searches(r, g)
<1> SUFFICES ASSUME NEW p \in Parameters(r), NEW x \in RegionNextChannel(r, g, p)
             PROVE  Found(r, g, p, x)
  BY DEF Searches
<1> DEFINE rested == p.aggrTimeOff <= p.sinceAggr
           updated == UpdateBandTimeOff(p.joined, p.dutyCycle, g.bands)
           awake == IF g.mask = {} THEN [g EXCEPT !.mask = DEFAULT_MASK] ELSE g
           g1 == IF rested THEN [awake EXCEPT !.bands = updated.bands] ELSE awake
           found == IF rested THEN CountNbOfEnabledChannels(g1, g1.mask, p.joined, p.dr)
                    ELSE [enabled |-> {}, delayTx |-> TRUE]
           aggr == IF rested THEN 0 ELSE p.aggrTimeOff
           delay == IF rested THEN updated.delay ELSE p.aggrTimeOff - p.sinceAggr
           result(ok, d, c, plan) ==
             [ok |-> ok, delay |-> d, channel |-> c, g |-> plan, aggrTimeOff |-> aggr]
           D == DOMAIN BAND_DCYCLE
           Rests(bands) == \A b \in D : RestsCleared(p, g.bands[b], bands[b])
<1>1. /\ Good(g) /\ Ids(r) = ChannelIds /\ Bands(r) = D /\ r \notin HopRegions
      /\ TopRate(r) = TX_MAX_DATARATE /\ RegionJoinChannels(r) = JOIN_CHANNELS
      /\ \A h : WellFormed(r, h) <=> Good(h)
  BY WellFormedIsGood, Names DEF Served, Common
<1>2. /\ p.joined \in BOOLEAN /\ p.dutyCycle \in BOOLEAN /\ p.dr \in Rate /\ p.aggrTimeOff \in Int
      /\ p.sinceAggr \in Nat /\ p.channel \in ChannelIds
  BY <1>1, Names DEF Parameters, Header, Defaults, Served
<1>3. /\ updated.bands \in [D -> Band] /\ Rests(updated.bands)
      /\ (\E b \in D : updated.bands[b].timeOff # 0) => updated.delay \in Nat \ {0}
  <2>1. g.bands \in [D -> Band]
    BY <1>1 DEF Good, Plans
  <2> HIDE DEF D
  <2> QED  BY <1>2, <2>1, RestsUpdated DEF RestsCleared
<1>4. x \in NextChannel(g, p)
  BY DEF Served, Common
<1>5. \/ found.enabled # {} /\ \E c \in Draws(found.enabled) : x = result(TRUE, 0, c, g1)
      \/ x = result(FALSE, 0, p.channel, g1)
      \/ found.enabled = {} /\ found.delayTx /\ x = result(TRUE, delay, p.channel, g1)
      \/ x = result(FALSE, 0, p.channel, [g1 EXCEPT !.mask = g1.mask \cup DEFAULT_MASK])
  BY <1>4 DEF NextChannel
<1> HIDE DEF updated
<1>6. DEFAULT_MASK \in SUBSET ChannelIds
  BY DEF Header, Tables
<1>7. Good(awake) /\ awake.channels = g.channels /\ awake.bands = g.bands
  <2>1. LET h == [g EXCEPT !.mask = DEFAULT_MASK]
        IN  Good(h) /\ h.bands = g.bands /\ h.channels = g.channels
    BY <1>1, <1>6, MasksKept
  <2> QED  BY <1>1, <2>1
<1> HIDE DEF awake
<1>8. /\ Good(g1) /\ g1.channels = g.channels /\ Rests(g1.bands)
      /\ rested => g1.bands = updated.bands
  <2>1. CASE rested
    <3>1. g1 = [awake EXCEPT !.bands = updated.bands]
      BY <2>1
    <3> HIDE DEF g1
    <3>2. /\ g1 \in Plans /\ g1.channels = awake.channels /\ g1.bands = updated.bands
      BY <1>3, <1>7, <3>1 DEF Good, Plans
    <3> QED  BY <1>3, <1>7, <3>2 DEF Good
  <2>2. CASE ~rested
    BY <1>7, <2>2 DEF RestsCleared
  <2> QED  BY <2>1, <2>2
<1> HIDE DEF g1
<1>9. LET h == [g1 EXCEPT !.mask = g1.mask \cup DEFAULT_MASK]
      IN  Good(h) /\ h.bands = g1.bands /\ h.channels = g1.channels
  <2>1. g1.mask \cup DEFAULT_MASK \in SUBSET ChannelIds
    BY <1>6, <1>8 DEF Good, Plans
  <2> QED  BY <1>8, <2>1, MasksKept
<1>10. rested =>
        /\ found.enabled = {c \in g1.mask : /\ g1.channels[c].freq # 0
                                            /\ p.joined \/ c \in JOIN_CHANNELS
                                            /\ Supports(g1.channels[c], p.dr)
                                            /\ g1.bands[g1.channels[c].band].timeOff = 0}
        /\ found.delayTx /\ found.enabled = {} =>
             \E c \in g1.mask : g1.bands[g1.channels[c].band].timeOff # 0
  BY DEF CountNbOfEnabledChannels
<1>11. ~rested => found.enabled = {}
  OBVIOUS
<1> HIDE DEF found
<1>12. \A c \in ChannelIds : g1.channels[c] \in Entry
  BY <1>8 DEF Good, Plans
<1>13. found.enabled = {} /\ found.delayTx => delay \in Nat \ {0}
  <2>1. CASE rested
    <3>1. SUFFICES ASSUME found.enabled = {}, found.delayTx  PROVE delay \in Nat \ {0}
      OBVIOUS
    <3>2. PICK c \in g1.mask : g1.bands[g1.channels[c].band].timeOff # 0
      BY <1>10, <2>1, <3>1
    <3>3. g1.channels[c].band \in D
      BY <1>8, <1>12 DEF Good, Plans, Entry, ChannelOf
    <3>4. updated.bands[g1.channels[c].band].timeOff # 0
      BY <1>8, <2>1, <3>2
    <3> QED  BY <1>3, <2>1, <3>3, <3>4
  <2>2. CASE ~rested
    BY <1>2, <2>2
  <2> QED  BY <2>1, <2>2
<1>14. ASSUME NEW h, Good(h), h.channels = g.channels, h.bands = g1.bands,
              x.g = h, x.ok \in BOOLEAN, x.ok => x.delay \in Nat \ {0}, x.channel = p.channel,
              x.aggrTimeOff = aggr
       PROVE  Found(r, g, p, x)
  <2>1. WellFormed(r, x.g) /\ x.g.channels = g.channels
    BY <1>1, <1>14
  <2>2. \A b \in Bands(r) : RestsCleared(p, g.bands[b], x.g.bands[b])
    BY <1>1, <1>8, <1>14
  <2>3. ~(x.ok /\ x.delay = 0)
    BY <1>14
  <2>4. x.ok \in BOOLEAN /\ x.channel \in Ids(r) /\ (x.ok => x.delay \in Nat)
    BY <1>1, <1>2, <1>14
  <2> QED  BY <1>1, <1>14, <2>1, <2>2, <2>3, <2>4 DEF Found
<1>15. ASSUME NEW c \in Draws(found.enabled), found.enabled # {}, x = result(TRUE, 0, c, g1)
       PROVE  Found(r, g, p, x)
  <2>1. rested
    BY <1>11, <1>15
  <2>2. found.enabled \in SUBSET ChannelIds
    BY <1>8, <1>10, <2>1 DEF Good, Plans
  <2>3. c \in found.enabled /\ c \in ChannelIds
    BY <1>15, <2>2 DEF RandrPicks
  <2>4. /\ c \in g1.mask /\ g1.channels[c].freq # 0 /\ Supports(g1.channels[c], p.dr)
        /\ p.joined \/ c \in JOIN_CHANNELS
        /\ g1.bands[g1.channels[c].band].timeOff = 0
    BY <1>10, <2>1, <2>3
  <2>5. Usable(r, g1, p, c)
    BY <1>1, <2>4 DEF Usable
  <2>6. p.dr \in 0 .. TopRate(r)
    <3>1. g1.channels[c].min \in 0 .. TX_MAX_DATARATE /\ g1.channels[c].max \in 0 .. TX_MAX_DATARATE
      BY <1>12, <2>3 DEF Entry, ChannelOf
    <3>2. TX_MAX_DATARATE \in Int /\ p.dr \in Int
      <4>1. TX_MAX_DATARATE \in 0 .. 15
        BY DEF Header, DataRates
      <4> QED  BY <1>2, <4>1 DEF Rate
    <3> QED  BY <1>1, <2>4, <3>1, <3>2 DEF Supports, ValueInRange
  <2>7. /\ x.ok = TRUE /\ x.delay = 0 /\ x.channel = c /\ x.g = g1 /\ x.aggrTimeOff = 0
    BY <1>15, <2>1
  <2>8. WellFormed(r, x.g) /\ x.g.channels = g.channels
    BY <1>1, <1>8, <2>7
  <2>9. \A b \in Bands(r) : RestsCleared(p, g.bands[b], x.g.bands[b])
    BY <1>1, <1>8, <2>7
  <2>10. /\ x.g.bands[x.g.channels[x.channel].band].timeOff = 0
         /\ Usable(r, x.g, p, x.channel) /\ x.channel \in Ids(r)
    BY <1>1, <2>3, <2>4, <2>5, <2>7
  <2>11. x.ok /\ x.delay = 0 /\ x.aggrTimeOff = 0 /\ r \notin HopRegions
    BY <1>1, <2>7
  <2> HIDE DEF result
  <2> QED  BY <2>1, <2>6, <2>7, <2>8, <2>9, <2>10, <2>11 DEF Found
<1>16. CASE x = result(FALSE, 0, p.channel, g1)
  BY <1>8, <1>14, <1>16
<1>17. CASE found.enabled = {} /\ found.delayTx /\ x = result(TRUE, delay, p.channel, g1)
  <2> HIDE DEF delay
  <2> QED  BY <1>8, <1>13, <1>14, <1>17
<1>18. CASE x = result(FALSE, 0, p.channel, [g1 EXCEPT !.mask = g1.mask \cup DEFAULT_MASK])
  BY <1>8, <1>9, <1>14, <1>18
<1> QED  BY <1>5, <1>15, <1>16, <1>17, <1>18

\* An uplink radiates no more than its budget.
LEMMA TransmitsKept ==
  ASSUME Header, NEW r, Served(r), NEW g, WellFormed(r, g)
  PROVE  Transmits(r, g)
<1>1. /\ Good(g) /\ Ids(r) = ChannelIds /\ r \notin HopRegions
      /\ AntennaGain(r) = ANTENNA_GAIN /\ ANTENNA_GAIN \in Nat
  BY WellFormedIsGood, Names DEF Served, Common, Header, Defaults
<1> SUFFICES ASSUME NEW c \in [channel : Ids(r), dr : 0 .. TopRate(r), power : Int,
                               maxEirp : Int, antennaGain : {AntennaGain(r)}]
             PROVE  Radiates(r, g, c, RegionTxConfig(r, g, c))
  BY DEF Transmits
<1> DEFINE freq == g.channels[c.channel].freq
           limited == LimitTxPower(c.power, c.dr, g.mask)
           budget == Budget(freq, c.maxEirp, c.antennaGain)
           t == RegionTxConfig(r, g, c)
<1>2. /\ c.channel \in ChannelIds /\ c.power \in Int /\ c.maxEirp \in Int
      /\ c.antennaGain = ANTENNA_GAIN
  BY <1>1
<1>3. freq \in Nat
  BY <1>1, <1>2 DEF Good, Plans, Entry, ChannelOf
<1>4. t.frequency = freq /\ t.phyPower = ComputeTxPower(limited, budget)
  BY DEF Served, Common, TxConfig
<1>5. limited \in Nat
  BY <1>2 DEF Header, Functions
<1>6. budget \in Int /\ budget <= c.maxEirp - ANTENNA_GAIN
  <2> HIDE DEF freq
  <2>1. freq \in Int
    BY <1>3
  <2> QED  BY <1>1, <1>2, <2>1 DEF Header, Functions
<1> HIDE DEF limited, budget, t, freq
<1>7. t.phyPower \in Int /\ 100 * t.phyPower + ANTENNA_GAIN <= c.maxEirp
  BY <1>1, <1>2, <1>4, <1>5, <1>6 DEF ComputeTxPower
<1>8. r \notin {"US915", "US915_HYBRID"} /\ Radiated(r, c.maxEirp) = c.maxEirp
  BY <1>1 DEF HopRegions, Radiated
<1> QED  BY <1>1, <1>4, <1>7, <1>8 DEF Radiates, t, freq

\* A window is as long, and opens as early, as the symbols of its rate ask.
LEMMA ListensKept ==
  ASSUME DataRates, NEW r, Common(r), NEW g
  PROVE  Listens(r, g)
<1> SUFFICES ASSUME NEW dr \in 0 .. 15, NEW symbols \in Nat, NEW error \in Nat, NEW wakeUp \in Nat,
                    RxRate(r, dr)
             PROVE  LET w == RegionComputeRxWindowParameters(r, dr, symbols, error, wakeUp)
                    IN  /\ w.dr = dr
                        /\ \A q : q.dr = dr =>
                             \A conf \in RegionRxConfig(r, g, q) :
                               Opened(w, q, conf, symbols, error, wakeUp)
  BY DEF Listens
<1> DEFINE w == RegionComputeRxWindowParameters(r, dr, symbols, error, wakeUp)
           symbol == SymbolTime(DATARATES[dr], BANDWIDTHS[dr])
           e == ComputeRxWindowParameters(symbol, symbols, error, wakeUp)
<1>1. w = [dr |-> dr, bandwidth |-> BANDWIDTHS[dr], timeout |-> e.timeout, offset |-> e.offset]
  BY DEF Common, RxWindow
<1>2. dr \in RX_MIN_DATARATE .. RX_MAX_DATARATE
  BY Answers
<1>3. DATARATES[dr] = 50 \/ symbol \in Nat \ {0}
  BY <1>2 DEF DataRates
<1>4. ASSUME NEW q, q.dr = dr, NEW conf \in RegionRxConfig(r, g, q)
      PROVE  Opened(w, q, conf, symbols, error, wakeUp)
  <2>1. conf \in RxConfig(g, q)
    BY <1>4 DEF Common
  <2>2. conf.timeout = q.timeout /\ conf.sf = DATARATES[dr] /\ conf.bandwidth = BANDWIDTHS[dr]
    BY <1>4, <2>1 DEF RxConfig
  <2>3. w.timeout = e.timeout /\ w.offset = e.offset
    BY <1>1
  <2> HIDE DEF w, e, symbol
  <2>4. SymbolTime(conf.sf, conf.bandwidth) = symbol
    BY <2>2 DEF symbol
  <2>5. ComputeRxWindowParameters(SymbolTime(conf.sf, conf.bandwidth), symbols, error, wakeUp) = e
    BY <2>4 DEF e
  <2> QED  BY <1>3, <2>2, <2>3, <2>4, <2>5 DEF Opened, InLoRa
<1>5. w.dr = dr
  BY <1>1
<1> HIDE DEF w
<1> QED  BY <1>4, <1>5 DEF w

\* Every region whose file is DynamicPlan with its header keeps the contract: a
\* search finds an enabled channel whose band has rested, frames stay within the
\* power and the windows within the symbols of the region, and no command,
\* setting or back-off breaks its table.
THEOREM DynamicPlansKeepContract ==
  ASSUME Header, RandrPicks, NEW r, Served(r)
  PROVE  Contract(r)
<1>1. /\ DataRates /\ Defaults /\ Common(r) /\ r # "AU915"
      /\ BAND_DCYCLE \in [DOMAIN BAND_DCYCLE -> Nat \ {0}]
      /\ 0 \in JOIN_CHANNELS /\ JOIN_CHANNELS \subseteq ChannelIds
  BY FreshPlan DEF Header, Tables, Served, HopRegions
<1>2. Constants(r) /\ Started(r)
  BY <1>1, ConstantsKept, StartedKept
<1>3. ASSUME NEW g, WellFormed(r, g)
      PROVE  /\ RatesAsked(r, g) /\ ApplicationEdits(r, g) /\ NetworkEdits(r, g) /\ MacEdits(r, g)
             /\ BackOff(r, g) /\ Searches(r, g) /\ Transmits(r, g) /\ Listens(r, g)
  BY <1>1, <1>3, RatesKept, ApplicationEditsKept, NetworkEditsKept, MacEditsKept, BackOffKept,
     SearchesKept, TransmitsKept, ListensKept
<1> QED  BY <1>2, <1>3 DEF Contract
=============================================================================
