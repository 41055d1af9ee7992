---------------------------- MODULE Region_proofs ----------------------------
(***************************************************************************)
(* The files with a fixed channel table keep the contract on which the      *)
(* theorems about ChannelPlan rest, for every header: those whose devices   *)
(* hop, and that of CN470.  The headers of this repository, of all ten      *)
(* regions, are what these proofs ask of them.                              *)
(***************************************************************************)
EXTENDS DynamicPlan_proofs, FiniteSetTheorems

CONSTANTS FIRST_RX1_CHANNEL, LAST_RX1_CHANNEL, STEPWIDTH_RX1_CHANNEL, DATARATE_OFFSETS,
          JOIN_RATES, UPDATES_TIME_OFF, RestoredMask(_), CheckedMask(_), AdrMask(_), JoinMask(_)

Hop == INSTANCE FixedPlan

(* A region whose functions are those of FixedPlan.                         *)
HopServed(r) ==
  /\ Common(r) /\ r \in HopRegions
  /\ \A g, type : RegionInitDefaults(r, g, type) = Hop!InitDefaults(g, type)
  /\ \A g, freqs : RegionApplyCFList(r, g, freqs) = g
  /\ \A g, type, mask : RegionChanMaskSet(r, g, type, mask) = Hop!ChanMaskSet(g, type, mask)
  /\ \A g, reqs : RegionLinkAdrReq(r, g, reqs) = Hop!LinkAdrReq(g, reqs)
  /\ \A offset, dr, freq :
       RegionRxParamSetupReq(r, offset, dr, freq) = Hop!RxParamSetupReq(offset, dr, freq)
  /\ \A g, id, new : RegionNewChannelReq(r, g, id, new) = Hop!NewChannelReq(g, id, new)
  /\ RegionTxParamSetupReq(r) = -1
  /\ \A g, id, rx1 : RegionDlChannelReq(r, g, id, rx1) = Hop!DlChannelReq(g, id, rx1)
  /\ \A g, n : RegionAlternateDr(r, g, n) = Hop!AlternateDr(g, n)
  /\ \A g, b : RegionCalcBackOff(r, g, b) = Hop!CalcBackOff(g, b)
  /\ \A g, p : RegionNextChannel(r, g, p) = Hop!NextChannel(g, p)
  /\ \A g, id, new : RegionChannelAdd(r, g, id, new) = Hop!ChannelAdd(g, id, new)
  /\ \A g, id : RegionChannelsRemove(r, g, id) = Hop!ChannelsRemove(g, id)
  /\ UPDATES_TIME_OFF \in BOOLEAN /\ (UPDATES_TIME_OFF \/ r = "AU915")
  /\ IF r = "AU915" THEN Hop!WithinEirp ELSE Hop!Lowered

(* What the contract asks of a hopping plan: what is left of a round is     *)
(* enabled, and an attempt to join disables no channel.                     *)
HopGood(g) == Good(g) /\ g.remaining \subseteq g.mask /\ Hop!Kept(g.mask)

\* The parts of the header, and what they say of the table.
LEMMA HopHeader ==
  ASSUME Hop!Header
  PROVE  /\ Hop!Tables /\ Hop!Masks /\ Hop!Functions /\ DataRates /\ Defaults
         /\ ChannelIds = 0 .. 71 /\ Hop!ChannelIds = 0 .. 71 /\ JOIN_CHANNELS = 0 .. 71
         /\ Hop!Narrow = 0 .. 63 /\ Narrow = 0 .. 63 /\ MAX_NB_CHANNELS = 72
         /\ DOMAIN BAND_DCYCLE = {0} /\ BAND_DCYCLE[0] = 1 /\ DUTY_CYCLE_ENABLED = FALSE
         /\ LC \in [ChannelIds -> Entry] /\ \A c \in ChannelIds : LC[c].min <= LC[c].max
         /\ \A c \in ChannelIds : LC[c].band = 0
         /\ TX_MAX_DATARATE \in 0 .. 15
<1>1. Hop!Tables /\ Hop!Masks /\ Hop!Functions /\ Hop!DataRates /\ Hop!Defaults
  BY DEF Hop!Header
<1>2. Defaults
  BY <1>1 DEF Hop!Defaults, Defaults
<1>3. DataRates
  <2>1. /\ LowestRxDr(0) = Hop!LowestRxDr(0)
        /\ \A dwell : LowestRxDr(dwell) = Hop!LowestRxDr(dwell) /\ LowestTxDr(dwell) = Hop!LowestTxDr(dwell)
    BY DEF LowestRxDr, LowestTxDr, Limits, Max, Hop!LowestRxDr, Hop!LowestTxDr, Hop!Limits, Hop!Max
  <2>2. \A sf, bandwidth : SymbolTime(sf, bandwidth) = Hop!SymbolTime(sf, bandwidth)
    BY DEF SymbolTime, Chips, Hop!SymbolTime, Hop!Chips
  <2> QED  BY <1>1, <2>1, <2>2 DEF Hop!DataRates, DataRates
<1>4. MAX_NB_CHANNELS = 72 /\ JOIN_CHANNELS = Hop!ChannelIds
      /\ DOMAIN BAND_DCYCLE = {0} /\ BAND_DCYCLE[0] = 1 /\ DUTY_CYCLE_ENABLED = FALSE
  BY <1>1 DEF Hop!Tables, Hop!OneBand
<1>5. ChannelIds = 0 .. 71 /\ Hop!ChannelIds = 0 .. 71 /\ Hop!Narrow = 0 .. 63 /\ Narrow = 0 .. 63
  BY <1>4 DEF ChannelIds, Hop!ChannelIds, Hop!Narrow, Narrow
<1>6. LC \in [ChannelIds -> Entry]
  BY <1>1, <1>4, <1>5 DEF Hop!Tables, Hop!OneBand, Entry, ChannelOf
<1>7. \A c \in ChannelIds : LC[c].min <= LC[c].max /\ LC[c].band = 0
  <2>1. LC \in [0 .. 71 -> [freq : Nat, rx1 : Nat, min : 0 .. TX_MAX_DATARATE,
                            max : 0 .. TX_MAX_DATARATE, band : {0}]]
    BY <1>1, <1>5 DEF Hop!Tables, Hop!OneBand
  <2>2. \A c \in 0 .. 71 : LC[c].min <= LC[c].max
    BY <1>1, <1>5 DEF Hop!Tables, Hop!OneBand
  <2> QED  BY <1>5, <2>1, <2>2
<1>8. TX_MAX_DATARATE \in 0 .. 15
  BY <1>3 DEF DataRates
<1> QED  BY <1>1, <1>2, <1>3, <1>4, <1>5, <1>6, <1>7, <1>8

\* A fresh plan: the channels of the header, all in one band.
LEMMA HopStart ==
  ASSUME Hop!Header, NEW r, HopServed(r)
  PROVE  /\ Start(r) = [channels |-> LC, mask |-> DEFAULT_MASK, defaultMask |-> DEFAULT_MASK,
                        remaining |-> DEFAULT_MASK,
                        bands |-> [b \in {0} |-> [timeOff |-> 0, sinceTx |-> 0, sinceJoin |-> 0]]]
         /\ JoinBand(r) = 0 /\ Ids(r) = ChannelIds /\ Bands(r) = {0} /\ TopRate(r) = TX_MAX_DATARATE
         /\ RegionJoinChannels(r) = ChannelIds /\ r \in HopRegions /\ Common(r)
         /\ 0 \in ChannelIds
<1>1. Common(r) /\ r \in HopRegions
  BY DEF HopServed
<1>2. RegionJoinChannels(r) = ChannelIds /\ DOMAIN BAND_DCYCLE = {0} /\ 0 \in ChannelIds
  <2>1. RegionJoinChannels(r) = JOIN_CHANNELS
    BY <1>1 DEF Common
  <2>2. ChannelIds = 0 .. 71 /\ JOIN_CHANNELS = 0 .. 71
    BY HopHeader
  <2>3. DOMAIN BAND_DCYCLE = {0}
    BY HopHeader
  <2> QED  BY <2>1, <2>2, <2>3
<1>3. Ids(r) = ChannelIds /\ Bands(r) = {0} /\ TopRate(r) = TX_MAX_DATARATE
  BY <1>1, <1>2, Names
<1>4. Start(r) = Hop!InitDefaults(Blank, "INIT")
  BY <1>1 DEF Start, Common, HopServed
<1>5. Start(r) = [channels |-> LC, mask |-> DEFAULT_MASK, defaultMask |-> DEFAULT_MASK,
                  remaining |-> DEFAULT_MASK,
                  bands |-> [b \in {0} |-> [timeOff |-> 0, sinceTx |-> 0, sinceJoin |-> 0]]]
  BY <1>2, <1>4 DEF Hop!InitDefaults, Blank
<1>6. JoinBand(r) = 0
  BY <1>2, <1>5, HopHeader DEF JoinBand
<1> QED  BY <1>1, <1>2, <1>3, <1>5, <1>6

\* A plan is well formed when it is good and an attempt to join disables nothing.
LEMMA HopWellFormed ==
  ASSUME Hop!Header, NEW r, HopServed(r)
  PROVE  \A g : WellFormed(r, g) <=> HopGood(g)
<1> SUFFICES ASSUME NEW g  PROVE WellFormed(r, g) <=> HopGood(g)
  OBVIOUS
<1>1. Typed(r, g) <=> g \in Plans
  BY HopStart, HopHeader DEF Typed, Plans, Entry
<1>2. ASSUME g \in Plans  PROVE MaskAfterJoin(r, g) = JoinMask(g.mask)
  <2> DEFINE h == [g EXCEPT !.bands = Start(r).bands]
  <2>1. h.mask = g.mask /\ [h EXCEPT !.mask = JoinMask(h.mask)].mask = JoinMask(h.mask)
    BY <1>2 DEF Plans
  <2>2. RegionAlternateDr(r, h, 1) = Hop!AlternateDr(h, 1)
    BY DEF HopServed
  <2>3. Hop!AlternateDr(h, 1).g = [h EXCEPT !.mask = JoinMask(h.mask)]
    BY DEF Hop!AlternateDr
  <2> QED  BY <2>1, <2>2, <2>3 DEF MaskAfterJoin
<1>3. \A c \in ChannelIds : /\ Start(r).channels[c].freq = LC[c].freq
                            /\ JoinBand(r) = LC[0].band
  BY HopStart, HopHeader
<1>4. g \in Plans => g.mask \in SUBSET Hop!ChannelIds
  BY HopHeader DEF Plans
<1>5. /\ Ids(r) = ChannelIds /\ RegionJoinChannels(r) = JOIN_CHANNELS /\ r \in HopRegions
      /\ JOIN_CHANNELS = ChannelIds
  BY HopStart, HopHeader
<1> QED  BY <1>1, <1>2, <1>3, <1>4, <1>5 DEF WellFormed, HopGood, Good, Hop!Kept

\* What a change of the masks must keep.
LEMMA HopEdited ==
  ASSUME Hop!Header, NEW r, HopServed(r), NEW g, HopGood(g), NEW h,
         h.channels = g.channels, h.bands = g.bands, h \in Plans, Hop!Kept(h.mask),
         h.remaining \subseteq h.mask,
         h.remaining \cap Narrow = g.remaining \cap h.mask \cap Narrow
  PROVE  MaskEdited(r, g, h) /\ Edited(r, g, h)
<1>1. HopGood(h)
  BY DEF HopGood, Good
<1>2. WellFormed(r, h)
  BY <1>1, HopWellFormed
<1> QED  BY <1>2 DEF Edited, MaskEdited

\* A fresh plan is well formed, owes no rest, and begins a round of hops.
LEMMA HopStarted == ASSUME Hop!Header, NEW r, HopServed(r)  PROVE Started(r)
<1> DEFINE s == Start(r)
<1>1. /\ s.channels = LC /\ s.mask = DEFAULT_MASK /\ s.defaultMask = DEFAULT_MASK
      /\ s.remaining = DEFAULT_MASK
      /\ s.bands = [b \in {0} |-> [timeOff |-> 0, sinceTx |-> 0, sinceJoin |-> 0]]
      /\ s = [channels |-> LC, mask |-> DEFAULT_MASK, defaultMask |-> DEFAULT_MASK,
              remaining |-> DEFAULT_MASK, bands |-> s.bands]
  BY HopStart
<1>2. Hop!Kept(DEFAULT_MASK) /\ DEFAULT_MASK \in SUBSET ChannelIds
  BY HopHeader DEF Hop!Masks, Hop!Kept
<1>3. s.bands \in [DOMAIN BAND_DCYCLE -> Band]
  BY <1>1, HopHeader DEF Band
<1>4. LC \in [ChannelIds -> Entry]
  BY HopHeader
<1> HIDE DEF s
<1>5. s \in Plans
  BY <1>1, <1>2, <1>3, <1>4 DEF Plans
<1>6. \A c \in ChannelIds : LC[c].min <= LC[c].max /\ LC[c].band = LC[0].band
  BY HopHeader
<1>7. HopGood(s)
  BY <1>1, <1>2, <1>5, <1>6, HopHeader DEF HopGood, Good
<1>8. WellFormed(r, s) /\ Bands(r) = {0}
  BY <1>7, HopWellFormed, HopStart
<1> QED  BY <1>1, <1>8 DEF Started, s

\* What the parts of a header say of masks.
LEMMA HopKept ==
  ASSUME Hop!Header
  PROVE  /\ \A mask : Hop!Kept(mask) <=> mask \in SUBSET ChannelIds /\ mask \subseteq JoinMask(mask)
         /\ \A mask \in SUBSET ChannelIds :
              /\ Hop!Kept(RestoredMask(mask))
              /\ \A m \in CheckedMask(mask) : Hop!Kept(m)
              /\ \A m \in AdrMask(mask) : Hop!Kept(m)
         /\ \A mask : Hop!Kept(mask) => /\ Hop!Kept(JoinMask(mask)) /\ Hop!Kept(Reenabled(mask))
                                        /\ mask \subseteq Reenabled(mask)
<1>1. Hop!Masks /\ Hop!ChannelIds = ChannelIds
  BY HopHeader
<1>2. \A mask : Hop!Kept(mask) <=> mask \in SUBSET ChannelIds /\ mask \subseteq JoinMask(mask)
  BY <1>1 DEF Hop!Kept
<1>3. \A mask \in SUBSET ChannelIds :
        /\ Hop!Kept(RestoredMask(mask))
        /\ \A m \in CheckedMask(mask) : Hop!Kept(m)
        /\ \A m \in AdrMask(mask) : Hop!Kept(m)
  BY <1>1 DEF Hop!Masks
<1>4. \A mask : Hop!Kept(mask) => /\ Hop!Kept(JoinMask(mask)) /\ Hop!Kept(Reenabled(mask))
                                  /\ mask \subseteq Reenabled(mask)
  BY <1>1 DEF Hop!Masks
<1> QED  BY <1>2, <1>3, <1>4

\* A new mask that an attempt to join keeps, with what it leaves of the round.
LEMMA HopMaskSet ==
  ASSUME Hop!Header, NEW r, HopServed(r), NEW g, HopGood(g), NEW mask, Hop!Kept(mask),
         NEW left, left \subseteq mask, left \cap Narrow = g.remaining \cap mask \cap Narrow
  PROVE  LET h == [g EXCEPT !.mask = mask, !.remaining = left]
         IN  MaskEdited(r, g, h) /\ Edited(r, g, h)
<1> DEFINE h == [g EXCEPT !.mask = mask, !.remaining = left]
<1>1. g \in Plans /\ mask \in SUBSET ChannelIds /\ left \in SUBSET ChannelIds
  BY HopKept DEF HopGood, Good
<1>2. /\ h \in Plans /\ h.mask = mask /\ h.remaining = left
      /\ h.channels = g.channels /\ h.bands = g.bands
  BY <1>1 DEF Plans
<1> HIDE DEF h
<1>3. MaskEdited(r, g, h) /\ Edited(r, g, h)
  BY <1>2, HopEdited
<1> QED  BY <1>3 DEF h

\* A plan may stay as it is.
LEMMA HopUnchanged ==
  ASSUME Hop!Header, NEW r, HopServed(r), NEW g, HopGood(g)
  PROVE  MaskEdited(r, g, g) /\ Edited(r, g, g)
<1>1. g \in Plans /\ Hop!Kept(g.mask) /\ g.remaining \subseteq g.mask
  BY DEF HopGood, Good
<1>2. g.remaining \cap Narrow = g.remaining \cap g.mask \cap Narrow
  BY <1>1
<1> QED  BY <1>1, <1>2, HopEdited

\* The settings of the application keep a plan well formed.
LEMMA HopApplicationEdits ==
  ASSUME Hop!Header, NEW r, HopServed(r), NEW g, WellFormed(r, g)
  PROVE  ApplicationEdits(r, g)
<1>1. HopGood(g) /\ Ids(r) = ChannelIds /\ Common(r)
  BY HopWellFormed, HopStart
<1>2. ASSUME NEW type \in {"CHANNELS_MASK", "CHANNELS_DEFAULT_MASK"}, NEW mask \in SUBSET ChannelIds
      PROVE  MaskEdited(r, g, RegionChanMaskSet(r, g, type, mask).g)
  <2> DEFINE h == RegionChanMaskSet(r, g, type, mask).g
             new == CHOOSE m \in CheckedMask(mask) : TRUE
  <2>1. h = Hop!ChanMaskSet(g, type, mask).g
    BY DEF HopServed
  <2>2. CASE CheckedMask(mask) = {}
    <3>1. h = g
      BY <2>1, <2>2 DEF Hop!ChanMaskSet
    <3> QED  BY <1>1, <3>1, HopUnchanged
  <2>3. CASE CheckedMask(mask) # {}
    <3>1. new \in CheckedMask(mask)
      BY <2>3
    <3>2. h = [g EXCEPT !.mask = new, !.remaining = g.remaining \cap new]
          \/ h = [g EXCEPT !.defaultMask = new]
      BY <2>1, <2>3 DEF Hop!ChanMaskSet
    <3> HIDE DEF new, h
    <3>3. Hop!Kept(new) /\ new \in SUBSET ChannelIds
      BY <3>1, HopKept
    <3>4. CASE h = [g EXCEPT !.mask = new, !.remaining = g.remaining \cap new]
      <4>1. g.remaining \cap new \cap Narrow = g.remaining \cap new \cap Narrow
        OBVIOUS
      <4>2. g.remaining \cap new \subseteq new
        OBVIOUS
      <4> DEFINE left == g.remaining \cap new
      <4>3. left \subseteq new /\ left \cap Narrow = g.remaining \cap new \cap Narrow
            /\ h = [g EXCEPT !.mask = new, !.remaining = left]
        BY <3>4
      <4> HIDE DEF left
      <4>4. LET k == [g EXCEPT !.mask = new, !.remaining = left]
            IN  MaskEdited(r, g, k) /\ Edited(r, g, k)
        BY <1>1, <3>3, <4>3, HopMaskSet
      <4> QED  BY <4>3, <4>4 DEF h
    <3>5. CASE h = [g EXCEPT !.defaultMask = new]
      <4>1. g \in Plans /\ Hop!Kept(g.mask) /\ g.remaining \subseteq g.mask
        BY <1>1 DEF HopGood, Good
      <4>2. LET k == [g EXCEPT !.defaultMask = new]
            IN  /\ k \in Plans /\ k.mask = g.mask /\ k.remaining = g.remaining
                /\ k.channels = g.channels /\ k.bands = g.bands
        BY <3>3, <4>1 DEF Plans
      <4>3. /\ h \in Plans /\ h.mask = g.mask /\ h.remaining = g.remaining
            /\ h.channels = g.channels /\ h.bands = g.bands
        BY <3>5, <4>2
      <4>4. h.remaining \cap Narrow = g.remaining \cap h.mask \cap Narrow
        BY <4>1, <4>3
      <4>5. MaskEdited(r, g, h)
        BY <1>1, <4>1, <4>3, <4>4, HopEdited
      <4> QED  BY <4>5 DEF h
    <3> QED  BY <3>2, <3>4, <3>5
  <2> QED  BY <2>2, <2>3
<1>3. ASSUME NEW id, NEW new  PROVE Edited(r, g, RegionChannelAdd(r, g, id, new).g)
  <2>1. RegionChannelAdd(r, g, id, new).g = g
    BY DEF HopServed, Hop!ChannelAdd
  <2> QED  BY <1>1, <2>1, HopUnchanged
<1>4. ASSUME NEW id  PROVE Edited(r, g, RegionChannelsRemove(r, g, id).g)
  <2>1. RegionChannelsRemove(r, g, id).g = g
    BY DEF HopServed, Hop!ChannelsRemove
  <2> QED  BY <1>1, <2>1, HopUnchanged
<1>5. ASSUME NEW dr \in 0 .. 15, NEW dwell \in {0, 1}, RegionVerify(r, "PHY_RX_DR", dr, dwell)
      PROVE  RxRate(r, dr)
  BY <1>1, <1>5, VerifiedIsRxRate, HopHeader
<1> QED  BY <1>1, <1>2, <1>3, <1>4, <1>5 DEF ApplicationEdits

\* A set of indices of a sequence has a largest one.
LEMMA LargestIsIn ==
  ASSUME NEW n \in Nat, NEW S \in SUBSET (1 .. n), S # {}
  PROVE  Hop!Max(S) \in S
<1> DEFINE T == {n - x : x \in S}
<1>1. \A x \in S : x \in Int /\ x <= n
  OBVIOUS
<1>2. T \in SUBSET Nat /\ T # {}
  <2>1. \A x \in S : n - x \in Nat
    BY <1>1
  <2> QED  BY <2>1
<1>3. \A x \in S : n - x \in T
  OBVIOUS
<1>4. PICK x \in S : Min(T) = n - x
  <2>1. Min(T) \in T
    <3> HIDE DEF T
    <3> QED  BY <1>2, LeastIsIn
  <2> QED  BY <2>1
<1>5. ASSUME NEW y \in S  PROVE x >= y
  <2>1. n - x <= n - y
    <3> HIDE DEF T
    <3>1. n - y \in T /\ \A z \in T : Min(T) <= z
      BY <1>2, <1>3, LeastIsIn
    <3>2. Min(T) <= n - y
      BY <3>1
    <3> QED  BY <1>4, <3>2
  <2>2. x \in Int /\ y \in Int
    BY <1>1
  <2> HIDE DEF T
  <2> QED  BY <2>1, <2>2
<1> QED  BY <1>5 DEF Hop!Max

\* A request enables channels of the table only.
LEMMA WrittenIsMask ==
  ASSUME NEW r, r \in HopRegions, NEW req \in Request(r), NEW c \in DOMAIN Hop!Written(req),
         Hop!Written(req)[c]
  PROVE  c \in 0 .. 71
<1>1. /\ req.ctrl \in 0 .. 7 /\ req.mask \subseteq 0 .. 15
      /\ req.ctrl \in {4, 6, 7} => req.mask \subseteq 0 .. 7
  BY DEF Request
<1>2. CASE req.ctrl = 6
  <2>1. Hop!Written(req) = [d \in 0 .. 79 |-> d < 64 \/ d - 64 \in req.mask]
    BY <1>2 DEF Hop!Written
  <2>2. c \in 0 .. 79 /\ (c < 64 \/ c - 64 \in req.mask)
    BY <2>1
  <2>3. c - 64 \in req.mask => c - 64 \in 0 .. 7
    BY <1>1, <1>2
  <2> QED  BY <2>2, <2>3
<1>3. CASE req.ctrl = 7
  <2>1. Hop!Written(req) = [d \in 0 .. 79 |-> d >= 64 /\ d - 64 \in req.mask]
    BY <1>3 DEF Hop!Written
  <2>2. c \in 0 .. 79 /\ c - 64 \in req.mask
    BY <2>1
  <2>3. c - 64 \in 0 .. 7
    BY <1>1, <1>3, <2>2
  <2> QED  BY <2>2, <2>3
<1>4. CASE req.ctrl = 5
  <2>1. Hop!Written(req) = <<>>
    BY <1>4 DEF Hop!Written
  <2> QED  BY <2>1
<1>5. CASE req.ctrl \notin {5, 6, 7}
  <2>1. Hop!Written(req) = [d \in Hop!Word(req.ctrl) |-> d - 16 * req.ctrl \in req.mask]
    BY <1>5 DEF Hop!Written
  <2>2. /\ c \in (16 * req.ctrl) .. (16 * req.ctrl + 15)
        /\ c - 16 * req.ctrl \in req.mask
    BY <2>1 DEF Hop!Word
  <2>3. req.ctrl \in 0 .. 4
    BY <1>1, <1>5
  <2>4. req.ctrl = 4 => c - 64 \in 0 .. 7
    BY <1>1, <2>2
  <2> QED  BY <2>2, <2>3, <2>4
<1> QED  BY <1>2, <1>3, <1>4, <1>5

\* The mask that a block of LinkADRReq makes names channels of the table.
LEMMA BlockMask ==
  ASSUME NEW r, r \in HopRegions, NEW mask \in SUBSET (0 .. 71), NEW reqs \in Seq(Request(r))
  PROVE  Hop!MaskOfBlock(mask, reqs, Hop!Written) \in SUBSET (0 .. 71)
<1> DEFINE writers(c) == {i \in DOMAIN reqs : c \in DOMAIN Hop!Written(reqs[i])}
           written == UNION {DOMAIN Hop!Written(reqs[i]) : i \in DOMAIN reqs}
<1>1. Hop!MaskOfBlock(mask, reqs, Hop!Written)
        = {c \in mask : writers(c) = {}}
            \cup {c \in written : Hop!Written(reqs[Hop!Max(writers(c))])[c]}
  BY DEF Hop!MaskOfBlock
<1>2. ASSUME NEW c \in written, Hop!Written(reqs[Hop!Max(writers(c))])[c]
      PROVE  c \in 0 .. 71
  <2>1. writers(c) \in SUBSET (1 .. Len(reqs)) /\ writers(c) # {} /\ Len(reqs) \in Nat
    OBVIOUS
  <2>2. Hop!Max(writers(c)) \in writers(c)
    <3> HIDE DEF writers
    <3> QED  BY <2>1, LargestIsIn
  <2> DEFINE i == Hop!Max(writers(c))
  <2>3. i \in DOMAIN reqs /\ c \in DOMAIN Hop!Written(reqs[i]) /\ Hop!Written(reqs[i])[c]
    BY <1>2, <2>2
  <2> HIDE DEF i
  <2>4. reqs[i] \in Request(r)
    BY <2>3
  <2> QED  BY <2>3, <2>4, WrittenIsMask
<1> QED  BY <1>1, <1>2

\* A block of LinkADRReq installs a mask of the table that an attempt to join
\* keeps, or changes nothing.
LEMMA HopLinkAdr ==
  ASSUME Hop!Header, NEW r, HopServed(r), NEW g, HopGood(g), NEW reqs \in Seq(Request(r)), reqs # <<>>
  PROVE  LET a == RegionLinkAdrReq(r, g, reqs)
         IN  MaskEdited(r, g, a.g) /\ a.dr \in Rate /\ a.power \in Int
<1> DEFINE a == RegionLinkAdrReq(r, g, reqs)
           req == Hop!Last(reqs)
           asked == Hop!MaskOfBlock(g.mask, reqs, Hop!Written)
           mask == IF AdrMask(asked) = {} THEN asked ELSE CHOOSE m \in AdrMask(asked) : TRUE
           maskOk == /\ req.ctrl # 5 /\ AdrMask(asked) # {}
                     /\ req.dr < 4 => Hop!CountChannels(asked, 0, 4) >= 2
           drOk == Hop!ChanVerifyDr(MAX_NB_CHANNELS, mask, req.dr, TX_MIN_DATARATE,
                                    TX_MAX_DATARATE, g.channels)
           powerOk == Hop!ValueInRange(req.power, MAX_TX_POWER, MIN_TX_POWER)
           checks == [mask |-> maskOk, dr |-> drOk, power |-> powerOk]
           left == (g.remaining \cap mask \cap Hop!Narrow) \cup (mask \ Hop!Narrow)
<1>1. req \in Request(r)
  <2>1. Len(reqs) \in 1 .. Len(reqs)
    OBVIOUS
  <2>2. reqs[Len(reqs)] \in Request(r)
    BY <2>1
  <2> QED  BY <2>2 DEF Hop!Last
<1>2. req.dr \in 0 .. 15 /\ req.power \in 0 .. 15
  BY <1>1 DEF Request
<1>3. asked \in SUBSET ChannelIds
  <2>1. g.mask \in SUBSET (0 .. 71) /\ ChannelIds = 0 .. 71
    BY HopHeader DEF HopGood, Good, Plans
  <2>2. r \in HopRegions
    BY HopStart
  <2>3. Hop!MaskOfBlock(g.mask, reqs, Hop!Written) \in SUBSET (0 .. 71)
    BY <2>1, <2>2, BlockMask
  <2> QED  BY <2>1, <2>3
<1>4. /\ a.dr = req.dr /\ a.power = req.power
      /\ a.g = IF Hop!Cleared(checks) # {} THEN g
               ELSE [g EXCEPT !.mask = mask, !.remaining = left]
  <2>1. a = Hop!LinkAdrReq(g, reqs)
    BY DEF HopServed
  <2>2. Hop!LinkAdrReq(g, reqs)
          = [refused |-> Hop!Cleared(checks), dr |-> req.dr, power |-> req.power,
             nbRep   |-> IF req.nbRep = 0 THEN 1 ELSE req.nbRep,
             g       |-> IF Hop!Cleared(checks) # {} THEN g
                         ELSE [g EXCEPT !.mask = mask, !.remaining = left]]
    BY DEF Hop!LinkAdrReq
  <2> HIDE DEF a, checks, left
  <2> QED  BY <2>1, <2>2
<1>5. Hop!Cleared(checks) = {} => AdrMask(asked) # {}
  <2>1. "mask" \in DOMAIN checks /\ checks["mask"] = maskOk
    OBVIOUS
  <2>2. ASSUME Hop!Cleared(checks) = {}  PROVE checks["mask"]
    <3> HIDE DEF checks
    <3> QED  BY <2>1, <2>2 DEF Hop!Cleared
  <2>3. maskOk => AdrMask(asked) # {}
    OBVIOUS
  <2> HIDE DEF checks, maskOk
  <2> QED  BY <2>1, <2>2, <2>3
<1>6. ASSUME AdrMask(asked) # {}
      PROVE  LET h == [g EXCEPT !.mask = mask, !.remaining = left] IN MaskEdited(r, g, h)
  <2>1. mask \in AdrMask(asked)
    BY <1>6
  <2> HIDE DEF asked, mask
  <2>2. Hop!Kept(mask)
    BY <1>3, <2>1, HopKept
  <2>3. left \subseteq mask /\ left \cap Narrow = g.remaining \cap mask \cap Narrow
    <3>1. Hop!Narrow = Narrow
      BY HopHeader
    <3> QED  BY <3>1
  <2> HIDE DEF left
  <2> QED  BY <2>2, <2>3, HopMaskSet
<1>7. MaskEdited(r, g, g)
  BY HopUnchanged
<1> HIDE DEF a, left, mask, checks, req
<1>8. MaskEdited(r, g, a.g)
  BY <1>4, <1>5, <1>6, <1>7
<1>9. a.dr \in Rate /\ a.power \in Int
  BY <1>2, <1>4 DEF Rate
<1> QED  BY <1>8, <1>9 DEF a

\* The commands of the network keep a plan well formed.
LEMMA HopNetworkEdits ==
  ASSUME Hop!Header, NEW r, HopServed(r), NEW g, WellFormed(r, g)
  PROVE  NetworkEdits(r, g)
<1>1. HopGood(g) /\ Common(r) /\ DataRates
  BY HopWellFormed, HopStart, HopHeader
<1>2. ASSUME NEW reqs \in Seq(Request(r)), reqs # <<>>
      PROVE  LET a == RegionLinkAdrReq(r, g, reqs)
             IN  MaskEdited(r, g, a.g) /\ (a.refused = {} => a.dr \in Rate /\ a.power \in Int)
  BY <1>1, <1>2, HopLinkAdr
<1>3. ASSUME NEW id, NEW new  PROVE Edited(r, g, RegionNewChannelReq(r, g, id, new).g)
  <2>1. RegionNewChannelReq(r, g, id, new).g = g
    BY DEF HopServed, Hop!NewChannelReq
  <2> QED  BY <1>1, <2>1, HopUnchanged
<1>4. ASSUME NEW id, NEW rx1  PROVE Edited(r, g, RegionDlChannelReq(r, g, id, rx1).g)
  <2>1. RegionDlChannelReq(r, g, id, rx1).g = g
    BY DEF HopServed, Hop!DlChannelReq
  <2> QED  BY <1>1, <2>1, HopUnchanged
<1>5. ASSUME NEW freqs  PROVE Edited(r, g, RegionApplyCFList(r, g, freqs))
  <2>1. RegionApplyCFList(r, g, freqs) = g
    BY DEF HopServed
  <2> QED  BY <1>1, <2>1, HopUnchanged
<1>6. ASSUME NEW offset \in Nat, NEW dr \in 0 .. 15, NEW freq \in Nat,
             RegionRxParamSetupReq(r, offset, dr, freq) = {}
      PROVE  RxRate(r, dr)
  <2> DEFINE checks == [freq   |-> /\ Hop!ValueInRange(freq, FIRST_RX1_CHANNEL, LAST_RX1_CHANNEL)
                                   /\ (freq - FIRST_RX1_CHANNEL) % STEPWIDTH_RX1_CHANNEL = 0,
                        dr     |-> Hop!ValueInRange(dr, RX_MIN_DATARATE, RX_MAX_DATARATE),
                        offset |-> Hop!ValueInRange(offset, 0, MAX_RX1_DR_OFFSET)]
  <2>1. Hop!Cleared(checks) = {}
    BY <1>6 DEF HopServed, Hop!RxParamSetupReq
  <2>2. "dr" \in DOMAIN checks /\ checks["dr"] = Hop!ValueInRange(dr, RX_MIN_DATARATE, RX_MAX_DATARATE)
    OBVIOUS
  <2> HIDE DEF checks
  <2>3. checks["dr"]
    BY <2>1, <2>2 DEF Hop!Cleared
  <2>4. RX_MIN_DATARATE \in 0 .. 15 /\ RX_MAX_DATARATE \in 0 .. 15
    BY <1>1 DEF DataRates
  <2>5. Hop!ValueInRange(dr, RX_MIN_DATARATE, RX_MAX_DATARATE)
    BY <2>2, <2>3, Zenon
  <2>6. dr \in RX_MIN_DATARATE .. RX_MAX_DATARATE
    BY <2>4, <2>5 DEF Hop!ValueInRange
  <2> QED  BY <1>1, <2>6, Answers
<1> QED  BY <1>2, <1>3, <1>4, <1>5, <1>6 DEF NetworkEdits

\* What the MAC itself changes keeps a plan well formed.
LEMMA HopMacEdits ==
  ASSUME Hop!Header, NEW r, HopServed(r), NEW g, WellFormed(r, g)
  PROVE  MacEdits(r, g)
<1>1. /\ HopGood(g) /\ Common(r) /\ DataRates /\ Defaults /\ g \in Plans /\ Hop!Kept(g.mask)
      /\ g.remaining \subseteq g.mask
  BY HopWellFormed, HopStart, HopHeader DEF HopGood, Good
<1>2. ASSUME NEW mask, Hop!Kept(mask), g.mask \subseteq mask
      PROVE  MaskEdited(r, g, [g EXCEPT !.mask = mask])
  <2> DEFINE h == [g EXCEPT !.mask = mask]
  <2>1. mask \in SUBSET ChannelIds
    BY <1>2, HopKept
  <2>2. /\ h \in Plans /\ h.mask = mask /\ h.remaining = g.remaining
        /\ h.channels = g.channels /\ h.bands = g.bands
    BY <1>1, <2>1 DEF Plans
  <2> HIDE DEF h
  <2>3. /\ h.remaining \subseteq h.mask
        /\ h.remaining \cap Narrow = g.remaining \cap h.mask \cap Narrow
    BY <1>1, <1>2, <2>2
  <2>4. MaskEdited(r, g, h)
    BY <1>1, <1>2, <2>2, <2>3, HopEdited
  <2> QED  BY <2>4 DEF h
<1>3. MaskEdited(r, g, RegionInitDefaults(r, g, "RESTORE"))
  <2> DEFINE mask == RestoredMask(g.defaultMask)
             left == g.remaining \cap mask
  <2>1. RegionInitDefaults(r, g, "RESTORE") = [g EXCEPT !.mask = mask, !.remaining = left]
    BY DEF HopServed, Hop!InitDefaults
  <2>2. Hop!Kept(mask)
    BY <1>1, HopKept DEF Plans
  <2>3. left \subseteq mask /\ left \cap Narrow = g.remaining \cap mask \cap Narrow
    OBVIOUS
  <2> HIDE DEF mask, left
  <2>4. LET h == [g EXCEPT !.mask = mask, !.remaining = left]
        IN  MaskEdited(r, g, h) /\ Edited(r, g, h)
    BY <1>1, <2>2, <2>3, HopMaskSet
  <2> QED  BY <2>1, <2>4
<1>4. ASSUME NEW n \in Nat
      PROVE  LET a == RegionAlternateDr(r, g, n) IN MaskEdited(r, g, a.g) /\ a.dr \in Rate
  <2> DEFINE a == RegionAlternateDr(r, g, n)
  <2>1. a.g = [g EXCEPT !.mask = JoinMask(g.mask)] /\ a.dr = JOIN_RATES[n % 2]
    BY DEF HopServed, Hop!AlternateDr
  <2>2. Hop!Kept(JoinMask(g.mask)) /\ g.mask \subseteq JoinMask(g.mask)
    BY <1>1, HopKept
  <2>3. a.dr \in Rate
    <3>1. n % 2 \in {0, 1}
      OBVIOUS
    <3>2. \A i \in {0, 1} : JOIN_RATES[i] \in 0 .. 15
      BY HopHeader DEF Hop!Functions
    <3>3. a.dr \in 0 .. 15
      BY <2>1, <3>1, <3>2
    <3> HIDE DEF a
    <3> QED  BY <3>3 DEF Rate
  <2> HIDE DEF a
  <2>4. MaskEdited(r, g, a.g)
    BY <1>2, <2>1, <2>2
  <2> QED  BY <2>3, <2>4 DEF a
<1>5. ASSUME NEW a \in [adr : BOOLEAN, dr : Rate, power : Int, counter : Nat, dwell : {0, 1},
                        updateMask : BOOLEAN]
      PROVE  LET n == RegionAdrNext(r, g, a)
             IN  MaskEdited(r, g, n.g) /\ n.dr \in Rate /\ n.power \in Int /\ n.counter \in Nat
  <2> DEFINE n == RegionAdrNext(r, g, a)
  <2>1. n = AdrNext(g, a)
    BY <1>1 DEF Common
  <2>2. LET k == AdrNext(g, a)
        IN  /\ k.g = g \/ k.g = [g EXCEPT !.mask = Reenabled(g.mask)]
            /\ k.dr \in Rate /\ k.power \in Int /\ k.counter \in Nat
    BY <1>1, AdrNextAnswers
  <2> HIDE DEF n
  <2>3. Hop!Kept(Reenabled(g.mask)) /\ g.mask \subseteq Reenabled(g.mask)
    BY <1>1, HopKept
  <2>4. MaskEdited(r, g, [g EXCEPT !.mask = Reenabled(g.mask)]) /\ MaskEdited(r, g, g)
    BY <1>1, <1>2, <2>3, HopUnchanged
  <2>5. MaskEdited(r, g, n.g)
    BY <2>1, <2>2, <2>4
  <2> QED  BY <2>1, <2>2, <2>5 DEF n
<1> QED  BY <1>3, <1>4, <1>5 DEF MacEdits

\* The narrow channels are those of the first four words.
LEMMA NarrowCount ==
  ASSUME Hop!Header, NEW mask \in SUBSET ChannelIds
  PROVE  /\ Hop!CountChannels(mask, 0, 4) = Cardinality(mask \cap Narrow)
         /\ Hop!CountChannels(mask, 0, 4) = 0 <=> mask \cap Narrow = {}
<1>1. ChannelIds = 0 .. 71 /\ Narrow = 0 .. 63
  BY HopHeader
<1>2. \A c \in mask : 16 * 0 <= c /\ c < 16 * 4 <=> c \in Narrow
  BY <1>1
<1>3. Hop!CountChannels(mask, 0, 4) = Cardinality(mask \cap Narrow)
  <2>1. {c \in mask : 16 * 0 <= c /\ c < 16 * 4} = mask \cap Narrow
    BY <1>2, Zenon
  <2>2. Hop!Cardinality(mask \cap Narrow) = Cardinality(mask \cap Narrow)
    BY DEF Hop!Cardinality, Cardinality
  <2> QED  BY <2>1, <2>2, Zenon DEF Hop!CountChannels
<1>4. IsFiniteSet(mask \cap Narrow)
  <2>1. IsFiniteSet(Narrow)
    <3>1. 0 \in Int /\ 63 \in Int
      OBVIOUS
    <3> QED  BY <1>1, <3>1, FS_Interval, Zenon
  <2> QED  BY <2>1, FS_Subset
<1> QED  BY <1>3, <1>4, FS_EmptySet

\* With a single band, and no duty cycle, before a join a frame silences the band
\* for as long as the device's age asks; once joined, not at all.
LEMMA OneBandBackOff ==
  ASSUME NEW r, Common(r), NEW g, g \in Plans, DOMAIN BAND_DCYCLE = {0}, BAND_DCYCLE[0] = 1,
         \A b : RegionCalcBackOff(r, g, b)
                  = [g EXCEPT !.bands[g.channels[b.channel].band].timeOff =
                       IF b.joined THEN 0 ELSE b.airTime * GetJoinDc(b.age) - b.airTime]
  PROVE  BackOff(r, g)
<1>1. Ids(r) = ChannelIds /\ RegionBandDCycle(r) = BAND_DCYCLE
  BY Names DEF Common
<1>2. \A joined \in BOOLEAN, c \in Ids(r) :
        RegionSetBandTxDone(r, g, joined, c)
          = [g EXCEPT !.bands[g.channels[c].band] = SetBandTxDone(joined, @)]
  BY DEF Common, SetBandTxDoneOn
<1>3. ASSUME NEW b \in [channel : Ids(r), joined : BOOLEAN, dutyCycle : {DutyCycleOn(r)},
                        age : Ages, airTime : {0, 1}]
      PROVE  LET band == g.channels[b.channel].band
                 rest == RegionCalcBackOff(r, g, b).bands[band].timeOff
             IN  /\ RegionCalcBackOff(r, g, b) = [g EXCEPT !.bands[band].timeOff = rest]
                 /\ rest \in Nat
                 /\ ~b.joined \/ b.dutyCycle =>
                      rest >= b.airTime * (RegionBandDCycle(r)[band] - 1)
                 /\ ~b.joined => rest >= b.airTime * (GetJoinDc(b.age) - 1)
                 /\ r = "AU915" /\ b.joined => rest = 0
  <2> DEFINE band == g.channels[b.channel].band
             joinDc == GetJoinDc(b.age)
             due == IF b.joined THEN 0 ELSE b.airTime * joinDc - b.airTime
             h == RegionCalcBackOff(r, g, b)
  <2>1. h = [g EXCEPT !.bands[band].timeOff = due]
    OBVIOUS
  <2>2. b.airTime \in {0, 1} /\ b.joined \in BOOLEAN /\ b.channel \in ChannelIds /\ b.age \in Ages
    BY <1>1
  <2>3. band = 0 /\ band \in DOMAIN BAND_DCYCLE
    BY <1>1, <2>2 DEF Plans, Entry, ChannelOf
  <2>4. h.bands[band].timeOff = due
    BY <1>1, <2>1, <2>3 DEF Plans, Band
  <2>5. joinDc \in Nat \ {0}
    BY <2>2 DEF Ages, GetJoinDc
  <2> HIDE DEF joinDc, band
  <2>6. due \in Nat /\ (~b.joined => due >= b.airTime * (joinDc - 1))
        /\ due >= b.airTime * (1 - 1) /\ (b.joined => due = 0)
    <3>1. CASE b.airTime = 0
      BY <2>2, <2>5, <3>1
    <3>2. CASE b.airTime = 1
      BY <2>2, <2>5, <3>2
    <3> QED  BY <2>2, <3>1, <3>2
  <2> HIDE DEF due, h
  <2> QED  BY <1>1, <2>1, <2>3, <2>4, <2>6 DEF h, band, joinDc
<1> QED  BY <1>2, <1>3 DEF BackOff

\* So do the hopping regions.
LEMMA HopBackOff ==
  ASSUME Hop!Header, NEW r, HopServed(r), NEW g, WellFormed(r, g)
  PROVE  BackOff(r, g)
<1>1. g \in Plans /\ Common(r) /\ BAND_DCYCLE[0] = 1 /\ DOMAIN BAND_DCYCLE = {0}
  BY HopWellFormed, HopStart, HopHeader DEF HopGood, Good
<1>2. \A b : RegionCalcBackOff(r, g, b)
               = [g EXCEPT !.bands[g.channels[b.channel].band].timeOff =
                    IF b.joined THEN 0 ELSE b.airTime * GetJoinDc(b.age) - b.airTime]
  BY DEF HopServed, Hop!CalcBackOff, GetJoinDc, Hop!GetJoinDc
<1> QED  BY <1>1, <1>2, OneBandBackOff

\* An uplink of a region whose radiated power is not limited by the network
\* keeps its budget.
LEMMA BudgetKept ==
  ASSUME Defaults, NEW r, Common(r), RegionTxParamSetupReq(r) = -1,
         \A power \in Int : \A dr, mask : LimitTxPower(power, dr, mask) \in Nat,
         \A freq : /\ Budget(freq, MAX_EIRP, ANTENNA_GAIN) \in Int
                   /\ Budget(freq, MAX_EIRP, ANTENNA_GAIN) <= Radiated(r, MAX_EIRP) - ANTENNA_GAIN,
         NEW g, NEW c \in [channel : Ids(r), dr : 0 .. TopRate(r), power : Int, maxEirp : Int,
                           antennaGain : {AntennaGain(r)}]
  PROVE  LET t       == RegionTxConfig(r, g, c)
             freq    == g.channels[c.channel].freq
             limited == LimitTxPower(c.power, c.dr, g.mask)
         IN  /\ t.frequency = freq /\ t.bandwidth = BANDWIDTHS[c.dr] /\ limited \in Nat
             /\ t.phyPower = ComputeTxPower(limited, Budget(freq, c.maxEirp, c.antennaGain))
             /\ Eirp(r, c.maxEirp) =>
                  /\ t.phyPower \in Int
                  /\ 100 * t.phyPower + AntennaGain(r) <= Radiated(r, c.maxEirp)
<1>1. /\ AntennaGain(r) = ANTENNA_GAIN /\ ANTENNA_GAIN \in Nat /\ MaxEirp(r) = MAX_EIRP
      /\ MAX_EIRP \in Int
  BY Names DEF Defaults
<1> DEFINE freq == g.channels[c.channel].freq
           limited == LimitTxPower(c.power, c.dr, g.mask)
           budget == Budget(freq, c.maxEirp, c.antennaGain)
           t == RegionTxConfig(r, g, c)
<1>2. c.power \in Int /\ c.maxEirp \in Int /\ c.antennaGain = ANTENNA_GAIN
  BY <1>1
<1>3. /\ t.frequency = freq /\ t.phyPower = ComputeTxPower(limited, budget)
      /\ t.bandwidth = BANDWIDTHS[c.dr]
  BY DEF Common, TxConfig
<1>4. limited \in Nat
  BY <1>2
<1>5. /\ Eirp(r, c.maxEirp) => c.maxEirp = MAX_EIRP
      /\ Radiated(r, c.maxEirp) \in Int
  BY <1>1, <1>2 DEF Eirp, Radiated
<1>6. ASSUME Eirp(r, c.maxEirp)
      PROVE  budget \in Int /\ budget <= Radiated(r, c.maxEirp) - ANTENNA_GAIN
  <2>1. budget = Budget(freq, MAX_EIRP, ANTENNA_GAIN)
    BY <1>2, <1>5, <1>6
  <2>2. /\ Budget(freq, MAX_EIRP, ANTENNA_GAIN) \in Int
        /\ Budget(freq, MAX_EIRP, ANTENNA_GAIN) <= Radiated(r, MAX_EIRP) - ANTENNA_GAIN
    OBVIOUS
  <2> HIDE DEF freq, budget
  <2> QED  BY <1>5, <1>6, <2>1, <2>2
<1> HIDE DEF limited, budget, t, freq
<1>7. Eirp(r, c.maxEirp) => t.phyPower \in Int
  BY <1>3, <1>4, <1>6 DEF ComputeTxPower
<1>8. Eirp(r, c.maxEirp) => 100 * t.phyPower + ANTENNA_GAIN <= Radiated(r, c.maxEirp)
  BY <1>1, <1>2, <1>3, <1>4, <1>5, <1>6 DEF ComputeTxPower
<1> QED  BY <1>1, <1>3, <1>4, <1>7, <1>8 DEF t, freq, limited, budget

\* The hopping regions keep it too, and on the wide channels and with few narrow
\* ones no more than the rules of 915 MHz allow.
LEMMA HopTransmits ==
  ASSUME Hop!Header, NEW r, HopServed(r), NEW g, WellFormed(r, g)
  PROVE  Transmits(r, g)
<1>1. /\ g \in Plans /\ TopRate(r) = TX_MAX_DATARATE /\ Defaults /\ Common(r)
      /\ RegionTxParamSetupReq(r) = -1
  BY HopWellFormed, HopStart, HopHeader DEF HopGood, Good, HopServed
<1>2. /\ \A power \in Int : \A dr, mask : LimitTxPower(power, dr, mask) \in Nat
      /\ \A freq : /\ Budget(freq, MAX_EIRP, ANTENNA_GAIN) \in Int
                   /\ Budget(freq, MAX_EIRP, ANTENNA_GAIN) <= Radiated(r, MAX_EIRP) - ANTENNA_GAIN
  <2>1. /\ \A power \in Int : \A dr, mask : LimitTxPower(power, dr, mask) \in Nat
        /\ \A freq : Budget(freq, MAX_EIRP, ANTENNA_GAIN) \in Int
    BY HopHeader DEF Hop!Functions, Hop!Powers
  <2>2. CASE r = "AU915"
    BY <2>1, <2>2 DEF HopServed, Hop!WithinEirp, Radiated
  <2>3. CASE r \in {"US915", "US915_HYBRID"}
    BY <2>1, <2>3 DEF HopServed, Hop!Lowered, Radiated
  <2> QED  BY <2>1, <2>2, <2>3 DEF HopServed, HopRegions
<1> SUFFICES ASSUME NEW c \in [channel : Ids(r), dr : 0 .. TopRate(r), power : Int,
                               maxEirp : Int, antennaGain : {AntennaGain(r)}]
             PROVE  Radiates(r, g, c, RegionTxConfig(r, g, c))
  BY DEF Transmits
<1> DEFINE freq == g.channels[c.channel].freq
           limited == LimitTxPower(c.power, c.dr, g.mask)
           budget == Budget(freq, c.maxEirp, c.antennaGain)
           t == RegionTxConfig(r, g, c)
<1>3. /\ t.frequency = freq /\ t.bandwidth = BANDWIDTHS[c.dr] /\ limited \in Nat
      /\ t.phyPower = ComputeTxPower(limited, budget)
      /\ Eirp(r, c.maxEirp) =>
           t.phyPower \in Int /\ 100 * t.phyPower + AntennaGain(r) <= Radiated(r, c.maxEirp)
  BY <1>1, <1>2, BudgetKept
<1>4. c.power \in Int /\ c.dr \in 0 .. TX_MAX_DATARATE
  BY <1>1
<1>5. ASSUME r \in {"US915", "US915_HYBRID"}
      PROVE  /\ budget = 3000
             /\ BANDWIDTHS[c.dr] = 500 => limited >= 2
             /\ BANDWIDTHS[c.dr] = 125 /\ Cardinality(g.mask \cap Narrow) < 50 => limited >= 5
  <2>1. Hop!Lowered
    BY <1>5 DEF HopServed
  <2>2. budget = 3000
    BY <2>1 DEF Hop!Lowered
  <2>3. Hop!CountChannels(g.mask, 0, 4) = Cardinality(g.mask \cap Narrow)
    BY <1>1, NarrowCount DEF Plans
  <2>4. BANDWIDTHS[c.dr] = 500 => limited >= 2
    BY <1>4, <2>1 DEF Hop!Lowered
  <2>5. BANDWIDTHS[c.dr] = 125 /\ Hop!CountChannels(g.mask, 0, 4) < 50 => limited >= 5
    BY <1>4, <2>1 DEF Hop!Lowered
  <2> QED  BY <2>2, <2>3, <2>4, <2>5
<1> HIDE DEF limited, budget, t, freq
<1>6. r \in {"US915", "US915_HYBRID"} =>
        /\ BANDWIDTHS[c.dr] = 500 => t.phyPower <= 26
        /\ BANDWIDTHS[c.dr] = 125 /\ Cardinality(g.mask \cap Narrow) < 50 => t.phyPower <= 21
  <2>1. ASSUME budget = 3000, limited >= 2  PROVE t.phyPower <= 26
    BY <1>3, <2>1 DEF ComputeTxPower
  <2>2. ASSUME budget = 3000, limited >= 5  PROVE t.phyPower <= 21
    BY <1>3, <2>2 DEF ComputeTxPower
  <2> QED  BY <1>5, <2>1, <2>2
<1> QED  BY <1>3, <1>6 DEF Radiates, t, freq

\* Clearing the rests is the same in every file.
LEMMA HopRests ==
  ASSUME NEW D, NEW bands \in [D -> Band], NEW joined \in BOOLEAN, NEW dutyCycle \in BOOLEAN
  PROVE  LET u == Hop!UpdateBandTimeOff(joined, dutyCycle, bands)
         IN  /\ u.bands \in [D -> Band]
             /\ \A b \in D :
                  /\ u.bands[b].sinceTx = bands[b].sinceTx
                  /\ u.bands[b].sinceJoin = bands[b].sinceJoin
                  /\ \/ u.bands[b].timeOff = bands[b].timeOff
                     \/ /\ u.bands[b].timeOff = 0
                        /\ \/ joined /\ ~dutyCycle
                           \/ bands[b].timeOff <= Elapsed(joined, dutyCycle, bands[b])
             /\ (\E b \in D : u.bands[b].timeOff # 0) => u.delay \in Nat \ {0}
<1>1. Hop!UpdateBandTimeOff(joined, dutyCycle, bands) = UpdateBandTimeOff(joined, dutyCycle, bands)
  BY Zenon DEF Hop!UpdateBandTimeOff, UpdateBandTimeOff, Hop!Elapsed, Elapsed, Hop!Max, Max,
               Hop!Min, Min, Hop!NoDelay, NoDelay
<1> QED  BY <1>1, RestsUpdated

\* What is left of a round before a search: a round begins again when no narrow
\* channel, or for the fast rates no wide one, is left of it.
LEMMA HopLeft ==
  ASSUME Hop!Header, NEW g, HopGood(g), NEW dr
  PROVE  LET left == g.remaining
                       \cup (IF Hop!CountChannels(g.remaining, 0, 4) = 0
                             THEN g.mask \cap Hop!Narrow ELSE {})
                       \cup (IF dr >= 4 /\ g.remaining \cap Hop!Wide = {}
                             THEN g.mask \cap Hop!Wide ELSE {})
         IN  /\ left \subseteq g.mask
             /\ left \cap Narrow = IF g.remaining \cap Narrow = {} THEN g.mask \cap Narrow
                                                                  ELSE g.remaining \cap Narrow
<1>1. /\ g.remaining \subseteq g.mask /\ g.mask \in SUBSET ChannelIds
      /\ g.remaining \in SUBSET ChannelIds
  BY DEF HopGood, Good, Plans
<1>2. Hop!Narrow = Narrow /\ Narrow = 0 .. 63 /\ MAX_NB_CHANNELS = 72
  BY HopHeader
<1>3. \A c \in Hop!Wide : c \notin Narrow
  BY <1>2 DEF Hop!Wide
<1>4. Hop!CountChannels(g.remaining, 0, 4) = 0 <=> g.remaining \cap Narrow = {}
  BY <1>1, NarrowCount
<1> DEFINE again == IF Hop!CountChannels(g.remaining, 0, 4) = 0 THEN g.mask \cap Hop!Narrow ELSE {}
           wide == IF dr >= 4 /\ g.remaining \cap Hop!Wide = {} THEN g.mask \cap Hop!Wide ELSE {}
<1>5. wide \subseteq g.mask /\ wide \cap Narrow = {}
  BY <1>3
<1>6. again = IF g.remaining \cap Narrow = {} THEN g.mask \cap Narrow ELSE {}
  BY <1>2, <1>4
<1> HIDE DEF again, wide
<1>7. g.remaining \cup again \cup wide \subseteq g.mask
  BY <1>1, <1>5, <1>6
<1>8. (g.remaining \cup again \cup wide) \cap Narrow
        = IF g.remaining \cap Narrow = {} THEN g.mask \cap Narrow ELSE g.remaining \cap Narrow
  BY <1>1, <1>5, <1>6
<1> QED  BY <1>7, <1>8 DEF again, wide

\* A search picks a channel of the round that carries the frame and does not rest.
LEMMA HopSearches ==
  ASSUME Hop!Header, RandrPicks, NEW r, HopServed(r), NEW g, WellFormed(r, g)
  PROVE  Searches(r, g)
<1> SUFFICES ASSUME NEW p \in Parameters(r), NEW x \in RegionNextChannel(r, g, p)
             PROVE  Found(r, g, p, x)
  BY DEF Searches
<1> DEFINE left == g.remaining
                     \cup (IF Hop!CountChannels(g.remaining, 0, 4) = 0
                           THEN g.mask \cap Hop!Narrow ELSE {})
                     \cup (IF p.dr >= 4 /\ g.remaining \cap Hop!Wide = {}
                           THEN g.mask \cap Hop!Wide ELSE {})
           leftNarrow == IF g.remaining \cap Narrow = {} THEN g.mask \cap Narrow
                                                         ELSE g.remaining \cap Narrow
           rested == p.aggrTimeOff <= p.sinceAggr
           updated == Hop!UpdateBandTimeOff(p.joined, p.dutyCycle, g.bands)
           bands == IF rested /\ UPDATES_TIME_OFF THEN updated.bands ELSE g.bands
           g1 == [g EXCEPT !.remaining = left, !.bands = bands]
           found == IF rested THEN Hop!CountNbOfEnabledChannels(g1, left, p.joined, p.dr)
                    ELSE [enabled |-> {}, delayTx |-> TRUE]
           delay == CASE ~rested -> p.aggrTimeOff - p.sinceAggr
                      [] rested /\ UPDATES_TIME_OFF -> updated.delay
                      [] OTHER -> 0
           aggr == IF rested THEN 0 ELSE p.aggrTimeOff
           taken(c) == [g1 EXCEPT !.remaining = Hop!ChanDisable(g1.remaining, c, MAX_NB_CHANNELS - 8)]
           Rests(h) == \A b \in {0} : RestsCleared(p, g.bands[b], h[b])
<1>1. /\ HopGood(g) /\ g \in Plans /\ Ids(r) = ChannelIds /\ Bands(r) = {0} /\ r \in HopRegions
      /\ TopRate(r) = TX_MAX_DATARATE /\ RegionJoinChannels(r) = ChannelIds /\ Common(r)
      /\ \A h : WellFormed(r, h) <=> HopGood(h)
  BY HopWellFormed, HopStart DEF HopGood, Good
<1>2. /\ p.joined \in BOOLEAN /\ p.dutyCycle \in BOOLEAN /\ p.dr \in Rate /\ p.aggrTimeOff \in Int
      /\ p.sinceAggr \in Nat /\ p.channel \in ChannelIds
  <2>1. DutyCycleOn(r) \in BOOLEAN
    BY <1>1, Names, HopHeader
  <2> QED  BY <1>1, <2>1 DEF Parameters
<1>3. /\ DOMAIN BAND_DCYCLE = {0} /\ JOIN_CHANNELS = ChannelIds /\ MAX_NB_CHANNELS = 72
      /\ Narrow = 0 .. 63 /\ ChannelIds = 0 .. 71 /\ TX_MAX_DATARATE \in 0 .. 15
  BY HopHeader
<1>4. /\ updated.bands \in [{0} -> Band] /\ Rests(updated.bands)
      /\ updated.bands[0].timeOff # 0 => updated.delay \in Nat \ {0}
  <2>1. g.bands \in [{0} -> Band]
    BY <1>1, <1>3 DEF Plans
  <2> QED  BY <1>2, <2>1, HopRests DEF RestsCleared
<1>5. left \subseteq g.mask /\ left \cap Narrow = leftNarrow
  BY <1>1, HopLeft
<1>6. x \in Hop!NextChannel(g, p)
  BY DEF HopServed
<1>7. \/ /\ found.enabled # {}
         /\ \E c \in Draws(found.enabled) :
              x = [ok |-> TRUE, delay |-> 0, channel |-> c, aggrTimeOff |-> aggr, g |-> taken(c)]
      \/ /\ found.enabled = {}
         /\ x = [ok |-> found.delayTx, delay |-> IF found.delayTx THEN delay ELSE 0,
                 channel |-> p.channel, aggrTimeOff |-> aggr, g |-> g1]
  BY <1>6 DEF Hop!NextChannel
<1>8. /\ bands \in [{0} -> Band] /\ Rests(bands)
      /\ rested /\ UPDATES_TIME_OFF => bands = updated.bands
  <2>1. g.bands \in [{0} -> Band] /\ Rests(g.bands)
    BY <1>1, <1>3 DEF Plans, RestsCleared
  <2> HIDE DEF updated, rested
  <2> QED  BY <1>4, <2>1
<1>9. rested =>
        LET usable == {c \in left : /\ g1.channels[c].freq # 0
                                    /\ p.joined \/ c \in JOIN_CHANNELS
                                    /\ Supports(g1.channels[c], p.dr)}
            enabled == {c \in usable : g1.bands[g1.channels[c].band].timeOff = 0}
        IN  found.enabled = enabled /\ found.delayTx = (usable # enabled)
  BY DEF Hop!CountNbOfEnabledChannels, Hop!Supports, Supports, Hop!ValueInRange, ValueInRange
<1>10. ~rested => found.enabled = {} /\ found.delayTx = TRUE
  OBVIOUS
<1> HIDE DEF found, left, updated, bands, rested, leftNarrow
<1>11. /\ g1 \in Plans /\ g1.channels = g.channels /\ g1.bands = bands /\ g1.remaining = left
       /\ g1.mask = g.mask
  <2>1. left \in SUBSET ChannelIds
    BY <1>1, <1>5 DEF Plans
  <2> QED  BY <1>1, <1>3, <1>8, <2>1 DEF Plans
<1> HIDE DEF g1
<1>12. ASSUME NEW c \in ChannelIds
       PROVE  /\ taken(c) \in Plans /\ taken(c).channels = g.channels /\ taken(c).bands = bands
              /\ taken(c).mask = g.mask
              /\ taken(c).remaining = IF c \in Narrow THEN left \ {c} ELSE left
  <2>1. Hop!ChanDisable(left, c, MAX_NB_CHANNELS - 8) = IF c \in Narrow THEN left \ {c} ELSE left
    BY <1>3 DEF Hop!ChanDisable
  <2>2. left \in SUBSET ChannelIds
    BY <1>1, <1>5 DEF Plans
  <2> DEFINE less == IF c \in Narrow THEN left \ {c} ELSE left
  <2>3. less \in SUBSET ChannelIds
    BY <2>2
  <2>4. taken(c) = [g1 EXCEPT !.remaining = less]
    BY <1>11, <2>1
  <2> HIDE DEF taken, less
  <2>5. /\ taken(c) \in Plans /\ taken(c).channels = g1.channels /\ taken(c).bands = g1.bands
        /\ taken(c).mask = g1.mask /\ taken(c).remaining = less
    BY <1>11, <2>3, <2>4 DEF Plans
  <2> QED  BY <1>11, <2>5 DEF less
<1>13. ASSUME NEW h \in Plans, h.channels = g.channels, h.mask = g.mask, h.remaining \subseteq left
       PROVE  WellFormed(r, h)
  <2>1. Good(h)
    BY <1>1, <1>13 DEF HopGood, Good
  <2> QED  BY <1>1, <1>5, <1>13, <2>1 DEF HopGood
<1>14. \A c \in ChannelIds : /\ g1.channels[c].band = 0 /\ g1.channels[c].min \in 0 .. TX_MAX_DATARATE
                             /\ g1.channels[c].max \in 0 .. TX_MAX_DATARATE
  BY <1>3, <1>11 DEF Plans, Entry, ChannelOf
<1>15. \A c \in ChannelIds : Supports(g1.channels[c], p.dr) => p.dr \in 0 .. TX_MAX_DATARATE
  <2>1. TX_MAX_DATARATE \in Int /\ p.dr \in Int
    BY <1>2, <1>3 DEF Rate
  <2> QED  BY <1>14, <2>1 DEF Supports, ValueInRange
<1>16. left \in SUBSET ChannelIds
  BY <1>1, <1>5 DEF Plans
<1>17. ASSUME found.enabled # {},
              NEW c \in Draws(found.enabled),
              x = [ok |-> TRUE, delay |-> 0, channel |-> c, aggrTimeOff |-> aggr, g |-> taken(c)]
       PROVE  Found(r, g, p, x)
  <2>1. rested
    BY <1>10, <1>17
  <2>2. found.enabled \in SUBSET ChannelIds
    BY <1>9, <1>16, <2>1
  <2>3. c \in found.enabled /\ c \in ChannelIds
    BY <1>17, <2>2 DEF RandrPicks
  <2>4. /\ c \in left /\ g1.channels[c].freq # 0 /\ Supports(g1.channels[c], p.dr)
        /\ g1.bands[g1.channels[c].band].timeOff = 0
    BY <1>9, <2>1, <2>3
  <2>5. /\ x.ok = TRUE /\ x.delay = 0 /\ x.channel = c /\ x.g = taken(c)
        /\ x.aggrTimeOff = IF rested THEN 0 ELSE p.aggrTimeOff
    BY <1>17
  <2> HIDE DEF taken
  <2>6. /\ x.g.channels = g.channels /\ x.g.bands = bands /\ x.g.mask = g.mask
        /\ x.g.remaining = IF c \in Narrow THEN left \ {c} ELSE left
        /\ x.g \in Plans
    BY <1>12, <2>3, <2>5
  <2>7. WellFormed(r, x.g)
    BY <1>13, <2>6
  <2>8. \A b \in Bands(r) : RestsCleared(p, g.bands[b], x.g.bands[b])
    BY <1>1, <1>8, <2>6
  <2>9. Usable(r, x.g, p, c) /\ x.g.bands[x.g.channels[c].band].timeOff = 0
    BY <1>1, <1>5, <1>11, <2>3, <2>4, <2>6 DEF Usable
  <2>10. p.dr \in 0 .. TopRate(r)
    BY <1>1, <1>15, <2>3, <2>4
  <2>11. x.g.remaining \cap Narrow = leftNarrow \ {c} /\ (c \in Narrow => c \in leftNarrow)
    BY <1>5, <2>4, <2>6
  <2>12. x.ok \in BOOLEAN /\ x.ok
    BY <2>5
  <2>13. x.channel \in Ids(r) /\ x.delay \in Nat /\ x.delay = 0
    BY <1>1, <2>3, <2>5
  <2> QED  BY <2>1, <2>5, <2>6, <2>7, <2>8, <2>9, <2>10, <2>11, <2>12, <2>13
           DEF Found, rested, leftNarrow
<1>18. ASSUME found.enabled = {},
              x = [ok |-> found.delayTx, delay |-> IF found.delayTx THEN delay ELSE 0,
                   channel |-> p.channel, aggrTimeOff |-> aggr, g |-> g1]
       PROVE  Found(r, g, p, x)
  <2>1. /\ x.ok = found.delayTx /\ x.delay = (IF found.delayTx THEN delay ELSE 0)
        /\ x.channel = p.channel /\ x.g = g1
        /\ x.aggrTimeOff = IF rested THEN 0 ELSE p.aggrTimeOff
    BY <1>18
  <2>2. found.delayTx \in BOOLEAN
    BY <1>9, <1>10
  <2>3. rested /\ found.delayTx => /\ p.dr \in 0 .. TX_MAX_DATARATE
                                   /\ g1.bands[0].timeOff # 0
    <3>1. SUFFICES ASSUME rested, found.delayTx
                   PROVE  p.dr \in 0 .. TX_MAX_DATARATE /\ g1.bands[0].timeOff # 0
      OBVIOUS
    <3>2. PICK c \in left : /\ Supports(g1.channels[c], p.dr)
                            /\ g1.bands[g1.channels[c].band].timeOff # 0
      BY <1>9, <1>18, <3>1
    <3>3. c \in ChannelIds /\ g1.channels[c].band = 0
      BY <1>14, <1>16
    <3> QED  BY <1>15, <3>2, <3>3
  <2>4. /\ found.delayTx => delay \in Nat
        /\ found.delayTx /\ delay = 0 => rested /\ ~UPDATES_TIME_OFF
    <3>1. CASE ~rested
      <4>1. delay = p.aggrTimeOff - p.sinceAggr
        BY <3>1
      <4>2. p.aggrTimeOff > p.sinceAggr
        BY <1>2, <3>1 DEF rested
      <4> HIDE DEF delay
      <4>3. delay \in Nat \ {0}
        BY <1>2, <4>1, <4>2
      <4> QED  BY <4>3
    <3>2. CASE rested /\ UPDATES_TIME_OFF
      <4>1. delay = updated.delay
        BY <3>2
      <4> HIDE DEF delay
      <4>2. found.delayTx => updated.bands[0].timeOff # 0
        BY <1>8, <1>11, <2>3, <3>2
      <4>3. found.delayTx => delay \in Nat \ {0}
        BY <1>4, <4>1, <4>2
      <4> QED  BY <4>3
    <3>3. CASE rested /\ ~UPDATES_TIME_OFF
      <4>1. delay = 0
        BY <3>3
      <4> QED  BY <3>3, <4>1
    <3> QED  BY <3>1, <3>2, <3>3
  <2> HIDE DEF delay
  <2>5. WellFormed(r, x.g) /\ x.g.channels = g.channels /\ x.g.mask = g.mask
    BY <1>11, <1>13, <2>1
  <2>6. \A b \in Bands(r) : RestsCleared(p, g.bands[b], x.g.bands[b])
    BY <1>1, <1>8, <1>11, <2>1
  <2>7. x.ok /\ x.delay = 0 => /\ rested /\ p.dr \in 0 .. TopRate(r) /\ r = "AU915"
                               /\ x.g.bands[x.g.channels[x.channel].band].timeOff # 0
    <3>1. SUFFICES ASSUME x.ok, x.delay = 0
                   PROVE  /\ rested /\ p.dr \in 0 .. TopRate(r) /\ r = "AU915"
                          /\ x.g.bands[x.g.channels[x.channel].band].timeOff # 0
      OBVIOUS
    <3>2. found.delayTx /\ delay = 0
      BY <2>1, <2>2, <3>1
    <3>3. rested /\ ~UPDATES_TIME_OFF
      BY <2>4, <3>2
    <3>4. r = "AU915"
      BY <3>3 DEF HopServed
    <3>5. x.g.channels[x.channel].band = 0
      BY <1>2, <1>14, <2>1
    <3> QED  BY <1>1, <2>1, <2>3, <3>2, <3>3, <3>4, <3>5
  <2>8. x.ok \in BOOLEAN /\ x.channel \in Ids(r) /\ (x.ok => x.delay \in Nat)
    BY <1>1, <1>2, <2>1, <2>2, <2>4
  <2>9. x.g.remaining \cap Narrow = leftNarrow
    BY <1>5, <1>11, <2>1
  <2> QED  BY <2>1, <2>5, <2>6, <2>7, <2>8, <2>9 DEF Found, rested, leftNarrow
<1> QED  BY <1>7, <1>17, <1>18

\* Every region whose file is FixedPlan with its header keeps the contract: a
\* search takes from the round an enabled channel whose band has rested, frames
\* stay within the power that the rules leave to their channels, and no command,
\* setting or attempt to join breaks its masks.
THEOREM HoppingPlansKeepContract ==
  ASSUME Hop!Header, RandrPicks, NEW r, HopServed(r)
  PROVE  Contract(r)
<1>1. /\ DataRates /\ Defaults /\ Common(r) /\ ~DUTY_CYCLE_ENABLED
      /\ 0 \in JOIN_CHANNELS /\ JOIN_CHANNELS \subseteq ChannelIds
      /\ Bands(r) = {JoinBand(r)}
  BY HopHeader, HopStart
<1>2. BAND_DCYCLE \in [DOMAIN BAND_DCYCLE -> Nat \ {0}]
  <2>1. Hop!Tables
    BY HopHeader
  <2> QED  BY <2>1 DEF Hop!Tables, Hop!OneBand
<1>3. Constants(r) /\ Started(r)
  BY <1>1, <1>2, ConstantsKept, HopStarted
<1>4. ASSUME NEW g, WellFormed(r, g)
      PROVE  /\ RatesAsked(r, g) /\ ApplicationEdits(r, g) /\ NetworkEdits(r, g) /\ MacEdits(r, g)
             /\ BackOff(r, g) /\ Searches(r, g) /\ Transmits(r, g) /\ Listens(r, g)
  BY <1>1, <1>4, RatesKept, HopApplicationEdits, HopNetworkEdits, HopMacEdits, HopBackOff,
     HopSearches, HopTransmits, ListensKept
<1> QED  BY <1>3, <1>4 DEF Contract

-----------------------------------------------------------------------------
(* The file with a fixed table and no hopping.                              *)

Flat == INSTANCE FlatPlan

(* A region whose functions are those of FlatPlan.                          *)
FlatServed(r) ==
  /\ Common(r) /\ r \notin HopRegions
  /\ \A g, type : RegionInitDefaults(r, g, type) = Flat!InitDefaults(g, type)
  /\ \A g, freqs : RegionApplyCFList(r, g, freqs) = g
  /\ \A g, type, mask : RegionChanMaskSet(r, g, type, mask) = Flat!ChanMaskSet(g, type, mask)
  /\ \A g, reqs : RegionLinkAdrReq(r, g, reqs) = Flat!LinkAdrReq(g, reqs)
  /\ \A offset, dr, freq :
       RegionRxParamSetupReq(r, offset, dr, freq) = Flat!RxParamSetupReq(offset, dr, freq)
  /\ \A g, id, new : RegionNewChannelReq(r, g, id, new) = Flat!NewChannelReq(g, id, new)
  /\ RegionTxParamSetupReq(r) = -1
  /\ \A g, id, rx1 : RegionDlChannelReq(r, g, id, rx1) = Flat!DlChannelReq(g, id, rx1)
  /\ \A g, n : RegionAlternateDr(r, g, n) = Flat!AlternateDr(g, n)
  /\ \A g, b : RegionCalcBackOff(r, g, b) = Flat!CalcBackOff(g, b)
  /\ \A g, p : RegionNextChannel(r, g, p) = Flat!NextChannel(g, p)
  /\ \A g, id, new : RegionChannelAdd(r, g, id, new) = Flat!ChannelAdd(g, id, new)
  /\ \A g, id : RegionChannelsRemove(r, g, id) = Flat!ChannelsRemove(g, id)

\* The parts of the header, and what they say of the table.
LEMMA FlatHeader ==
  ASSUME Flat!Header
  PROVE  /\ Flat!Powers /\ DataRates /\ Defaults
         /\ ChannelIds = 0 .. 95 /\ JOIN_CHANNELS = ChannelIds /\ DEFAULT_MASK = ChannelIds
         /\ MAX_NB_CHANNELS = 96
         /\ DOMAIN BAND_DCYCLE = {0} /\ BAND_DCYCLE[0] = 1 /\ DUTY_CYCLE_ENABLED = FALSE
         /\ BAND_DCYCLE \in [DOMAIN BAND_DCYCLE -> Nat \ {0}]
         /\ LC \in [ChannelIds -> Entry] /\ \A c \in ChannelIds : LC[c].min <= LC[c].max
         /\ \A c \in ChannelIds : LC[c].band = 0
         /\ TX_MAX_DATARATE \in 0 .. 15 /\ \A mask : Reenabled(mask) = DEFAULT_MASK
<1>1. Flat!Tables /\ Flat!Functions /\ Flat!DataRates /\ Flat!Defaults
  BY DEF Flat!Header
<1>2. Defaults
  BY <1>1 DEF Flat!Defaults, Defaults
<1>3. DataRates
  <2>1. /\ LowestRxDr(0) = Flat!LowestRxDr(0)
        /\ \A dwell : LowestRxDr(dwell) = Flat!LowestRxDr(dwell) /\ LowestTxDr(dwell) = Flat!LowestTxDr(dwell)
    BY DEF LowestRxDr, LowestTxDr, Limits, Max, Flat!LowestRxDr, Flat!LowestTxDr, Flat!Limits, Flat!Max
  <2>2. \A sf, bandwidth : SymbolTime(sf, bandwidth) = Flat!SymbolTime(sf, bandwidth)
    BY DEF SymbolTime, Chips, Flat!SymbolTime, Flat!Chips
  <2> QED  BY <1>1, <2>1, <2>2 DEF Flat!DataRates, DataRates
<1>4. /\ MAX_NB_CHANNELS = 96 /\ JOIN_CHANNELS = Flat!ChannelIds /\ DEFAULT_MASK = Flat!ChannelIds
      /\ BAND_DCYCLE \in [{0} -> {1}] /\ DUTY_CYCLE_ENABLED = FALSE
  BY <1>1 DEF Flat!Tables, Flat!OneBand
<1>5. ChannelIds = 0 .. 95 /\ Flat!ChannelIds = 0 .. 95
  BY <1>4 DEF ChannelIds, Flat!ChannelIds
<1>6. LC \in [0 .. 95 -> [freq : Nat, rx1 : Nat, min : 0 .. TX_MAX_DATARATE,
                          max : 0 .. TX_MAX_DATARATE, band : {0}]]
  BY <1>1, <1>5 DEF Flat!Tables, Flat!OneBand
<1>7. DOMAIN BAND_DCYCLE = {0} /\ BAND_DCYCLE[0] = 1 /\ BAND_DCYCLE \in [{0} -> Nat \ {0}]
  BY <1>4
<1>8. LC \in [ChannelIds -> Entry] /\ \A c \in ChannelIds : LC[c].band = 0
  BY <1>5, <1>6, <1>7 DEF Entry, ChannelOf
<1>9. \A c \in ChannelIds : LC[c].min <= LC[c].max
  BY <1>1, <1>5 DEF Flat!Tables, Flat!OneBand
<1>10. TX_MAX_DATARATE \in 0 .. 15
  BY <1>3 DEF DataRates
<1>11. Flat!Powers /\ \A mask : Reenabled(mask) = DEFAULT_MASK
  BY <1>1 DEF Flat!Functions
<1> QED  BY <1>2, <1>3, <1>4, <1>5, <1>7, <1>8, <1>9, <1>10, <1>11

\* A fresh plan: the channels of the header, all enabled, in one band.
LEMMA FlatStart ==
  ASSUME Flat!Header, NEW r, FlatServed(r)
  PROVE  /\ Start(r) = [channels |-> LC, mask |-> DEFAULT_MASK, defaultMask |-> DEFAULT_MASK,
                        remaining |-> {},
                        bands |-> [b \in {0} |-> [timeOff |-> 0, sinceTx |-> 0, sinceJoin |-> 0]]]
         /\ JoinBand(r) = 0 /\ Ids(r) = ChannelIds /\ Bands(r) = {0} /\ TopRate(r) = TX_MAX_DATARATE
         /\ RegionJoinChannels(r) = ChannelIds /\ r \notin HopRegions /\ Common(r)
         /\ 0 \in ChannelIds
<1>1. Common(r) /\ r \notin HopRegions
  BY DEF FlatServed
<1>2. /\ ChannelIds = 0 .. 95 /\ JOIN_CHANNELS = ChannelIds /\ DOMAIN BAND_DCYCLE = {0}
      /\ \A c \in ChannelIds : LC[c].band = 0
  BY FlatHeader
<1>3. RegionJoinChannels(r) = ChannelIds /\ 0 \in ChannelIds
  BY <1>1, <1>2 DEF Common
<1>4. Ids(r) = ChannelIds /\ Bands(r) = {0} /\ TopRate(r) = TX_MAX_DATARATE
  BY <1>1, <1>2, Names
<1>5. Start(r) = Flat!InitDefaults(Blank, "INIT")
  BY <1>1 DEF Start, Common, FlatServed
<1>6. Start(r) = [channels |-> LC, mask |-> DEFAULT_MASK, defaultMask |-> DEFAULT_MASK,
                  remaining |-> {},
                  bands |-> [b \in {0} |-> [timeOff |-> 0, sinceTx |-> 0, sinceJoin |-> 0]]]
  BY <1>2, <1>5 DEF Flat!InitDefaults, Blank
<1>7. JoinBand(r) = 0
  BY <1>2, <1>3, <1>6 DEF JoinBand
<1> QED  BY <1>1, <1>3, <1>4, <1>6, <1>7

\* An attempt to join leaves the mask, so that a plan is well formed when it is good.
LEMMA FlatWellFormed ==
  ASSUME Flat!Header, NEW r, FlatServed(r)
  PROVE  \A g : WellFormed(r, g) <=> Good(g)
<1> SUFFICES ASSUME NEW g  PROVE WellFormed(r, g) <=> Good(g)
  OBVIOUS
<1>1. Typed(r, g) <=> g \in Plans
  BY FlatStart, FlatHeader DEF Typed, Plans, Entry
<1>2. g \in Plans => MaskAfterJoin(r, g) = g.mask
  <2> DEFINE h == [g EXCEPT !.bands = Start(r).bands]
  <2>1. g \in Plans => h.mask = g.mask
    BY DEF Plans
  <2>2. RegionAlternateDr(r, h, 1).g = h
    BY DEF FlatServed, Flat!AlternateDr
  <2> QED  BY <2>1, <2>2 DEF MaskAfterJoin
<1>3. \A c \in ChannelIds : Start(r).channels[c].freq = LC[c].freq /\ JoinBand(r) = LC[0].band
  BY FlatStart, FlatHeader
<1>4. /\ Ids(r) = ChannelIds /\ RegionJoinChannels(r) = JOIN_CHANNELS /\ r \notin HopRegions
      /\ JOIN_CHANNELS = ChannelIds
  BY FlatStart, FlatHeader
<1> QED  BY <1>1, <1>2, <1>3, <1>4 DEF WellFormed, Good

\* What a change of the masks must keep.
LEMMA FlatEdited ==
  ASSUME Flat!Header, NEW r, FlatServed(r), NEW g, NEW h, Good(h), h.bands = g.bands,
         h.channels = g.channels
  PROVE  Edited(r, g, h) /\ MaskEdited(r, g, h)
<1>1. WellFormed(r, h) /\ r \notin HopRegions
  BY FlatWellFormed, FlatStart
<1> QED  BY <1>1 DEF Edited, MaskEdited

\* A mask of the table may be installed.
LEMMA FlatMaskSet ==
  ASSUME Flat!Header, NEW r, FlatServed(r), NEW g, Good(g), NEW mask \in SUBSET ChannelIds
  PROVE  /\ MaskEdited(r, g, [g EXCEPT !.mask = mask])
         /\ MaskEdited(r, g, [g EXCEPT !.defaultMask = mask])
         /\ MaskEdited(r, g, g) /\ Edited(r, g, g)
<1> DEFINE h == [g EXCEPT !.mask = mask]
           k == [g EXCEPT !.defaultMask = mask]
<1>1. /\ Good(h) /\ h.bands = g.bands /\ h.channels = g.channels
      /\ Good(k) /\ k.bands = g.bands /\ k.channels = g.channels
  BY MasksKept
<1> HIDE DEF h, k
<1>2. MaskEdited(r, g, h) /\ MaskEdited(r, g, k) /\ MaskEdited(r, g, g) /\ Edited(r, g, g)
  BY <1>1, FlatEdited
<1> QED  BY <1>2 DEF h, k

\* A fresh plan is well formed and owes no rest.
LEMMA FlatStarted == ASSUME Flat!Header, NEW r, FlatServed(r)  PROVE Started(r)
<1> DEFINE s == Start(r)
<1>1. /\ s.channels = LC
      /\ s.bands = [b \in {0} |-> [timeOff |-> 0, sinceTx |-> 0, sinceJoin |-> 0]]
      /\ s = [channels |-> LC, mask |-> DEFAULT_MASK, defaultMask |-> DEFAULT_MASK,
              remaining |-> {}, bands |-> s.bands]
  BY FlatStart
<1>2. DEFAULT_MASK \in SUBSET ChannelIds /\ LC \in [ChannelIds -> Entry]
  BY FlatHeader
<1>3. s.bands \in [DOMAIN BAND_DCYCLE -> Band]
  BY <1>1, FlatHeader DEF Band
<1> HIDE DEF s
<1>4. s \in Plans
  BY <1>1, <1>2, <1>3 DEF Plans
<1>5. /\ \A c \in ChannelIds : LC[c].min <= LC[c].max /\ LC[c].band = LC[0].band
      /\ JOIN_CHANNELS = ChannelIds
  BY FlatHeader
<1>6. Good(s)
  BY <1>1, <1>4, <1>5 DEF Good
<1>7. WellFormed(r, s) /\ Bands(r) = {0} /\ r \notin HopRegions
  BY <1>6, FlatWellFormed, FlatStart
<1> QED  BY <1>1, <1>7 DEF Started, s

\* The settings of the application keep a plan well formed.
LEMMA FlatApplicationEdits ==
  ASSUME Flat!Header, NEW r, FlatServed(r), NEW g, WellFormed(r, g)
  PROVE  ApplicationEdits(r, g)
<1>1. Good(g) /\ Ids(r) = ChannelIds /\ Common(r)
  BY FlatWellFormed, FlatStart
<1>2. ASSUME NEW type, NEW mask \in SUBSET ChannelIds
      PROVE  MaskEdited(r, g, RegionChanMaskSet(r, g, type, mask).g)
  <2>1. \/ RegionChanMaskSet(r, g, type, mask).g = [g EXCEPT !.mask = mask]
        \/ RegionChanMaskSet(r, g, type, mask).g = [g EXCEPT !.defaultMask = mask]
    BY DEF FlatServed, Flat!ChanMaskSet
  <2>2. /\ MaskEdited(r, g, [g EXCEPT !.mask = mask])
        /\ MaskEdited(r, g, [g EXCEPT !.defaultMask = mask])
    BY <1>1, FlatMaskSet
  <2> QED  BY <2>1, <2>2
<1>3. Edited(r, g, g)
  BY <1>1, FlatEdited
<1>4. /\ \A id, new : RegionChannelAdd(r, g, id, new).g = g
      /\ \A id : RegionChannelsRemove(r, g, id).g = g
  BY DEF FlatServed, Flat!ChannelAdd, Flat!ChannelsRemove
<1>5. ASSUME NEW dr \in 0 .. 15, NEW dwell \in {0, 1}, RegionVerify(r, "PHY_RX_DR", dr, dwell)
      PROVE  RxRate(r, dr)
  BY <1>1, <1>5, VerifiedIsRxRate, FlatHeader
<1> QED  BY <1>1, <1>2, <1>3, <1>4, <1>5 DEF ApplicationEdits

\* A request enables channels of the table only.
LEMMA FlatWritten ==
  ASSUME NEW r, NEW req \in Request(r), NEW c \in DOMAIN Flat!Written(req), DEFAULT_MASK = 0 .. 95
  PROVE  c \in 0 .. 95
<1>1. req.ctrl \in 0 .. 7
  BY DEF Request
<1>2. CASE req.ctrl = 6
  BY <1>2 DEF Flat!Written
<1>3. CASE req.ctrl = 7
  BY <1>3 DEF Flat!Written
<1>4. CASE req.ctrl \notin {6, 7}
  <2>1. Flat!Written(req) = [d \in Flat!Word(req.ctrl) |-> d - 16 * req.ctrl \in req.mask]
    BY <1>4 DEF Flat!Written
  <2>2. c \in (16 * req.ctrl) .. (16 * req.ctrl + 15)
    BY <2>1 DEF Flat!Word
  <2>3. req.ctrl \in 0 .. 5
    BY <1>1, <1>4
  <2> QED  BY <2>2, <2>3
<1> QED  BY <1>2, <1>3, <1>4

\* The mask that a block of LinkADRReq makes names channels of the table.
LEMMA FlatBlockMask ==
  ASSUME NEW r, NEW mask \in SUBSET (0 .. 95), NEW reqs \in Seq(Request(r)),
         DEFAULT_MASK = 0 .. 95
  PROVE  Flat!MaskOfBlock(mask, reqs, Flat!Written) \in SUBSET (0 .. 95)
<1> DEFINE writers(c) == {i \in DOMAIN reqs : c \in DOMAIN Flat!Written(reqs[i])}
           written == UNION {DOMAIN Flat!Written(reqs[i]) : i \in DOMAIN reqs}
<1>1. Flat!MaskOfBlock(mask, reqs, Flat!Written)
        = {c \in mask : writers(c) = {}}
            \cup {c \in written : Flat!Written(reqs[Flat!Max(writers(c))])[c]}
  BY DEF Flat!MaskOfBlock
<1>2. ASSUME NEW c \in written  PROVE c \in 0 .. 95
  <2>1. PICK i \in DOMAIN reqs : c \in DOMAIN Flat!Written(reqs[i])
    OBVIOUS
  <2>2. reqs[i] \in Request(r)
    BY <2>1
  <2> QED  BY <2>1, <2>2, FlatWritten
<1> QED  BY <1>1, <1>2

\* A block of LinkADRReq installs a mask of the table or changes nothing.
LEMMA FlatLinkAdr ==
  ASSUME Flat!Header, NEW r, FlatServed(r), NEW g, Good(g), NEW reqs \in Seq(Request(r)), reqs # <<>>
  PROVE  LET a == RegionLinkAdrReq(r, g, reqs)
         IN  MaskEdited(r, g, a.g) /\ a.dr \in Rate /\ a.power \in Int
<1> DEFINE a == RegionLinkAdrReq(r, g, reqs)
           req == Flat!Last(reqs)
           mask == Flat!MaskOfBlock(g.mask, reqs, Flat!Written)
<1>1. req \in Request(r)
  <2>1. Len(reqs) \in 1 .. Len(reqs)
    OBVIOUS
  <2>2. reqs[Len(reqs)] \in Request(r)
    BY <2>1
  <2> QED  BY <2>2 DEF Flat!Last
<1>2. req.dr \in 0 .. 15 /\ req.power \in 0 .. 15
  BY <1>1 DEF Request
<1>3. mask \in SUBSET ChannelIds
  <2>1. g.mask \in SUBSET (0 .. 95) /\ ChannelIds = 0 .. 95 /\ DEFAULT_MASK = 0 .. 95
    BY FlatHeader DEF Good, Plans
  <2> QED  BY <2>1, FlatBlockMask
<1>4. /\ a.dr = req.dr /\ a.power = req.power
      /\ a.g = g \/ a.g = [g EXCEPT !.mask = mask]
  <2>1. a = Flat!LinkAdrReq(g, reqs)
    BY DEF FlatServed
  <2> HIDE DEF a
  <2> QED  BY <2>1 DEF Flat!LinkAdrReq
<1> HIDE DEF a, mask, req
<1>5. MaskEdited(r, g, [g EXCEPT !.mask = mask]) /\ MaskEdited(r, g, g)
  BY <1>3, FlatMaskSet
<1>6. MaskEdited(r, g, a.g)
  BY <1>4, <1>5
<1>7. a.dr \in Rate /\ a.power \in Int
  BY <1>2, <1>4 DEF Rate
<1> QED  BY <1>6, <1>7 DEF a

\* The commands of the network keep a plan well formed.
LEMMA FlatNetworkEdits ==
  ASSUME Flat!Header, NEW r, FlatServed(r), NEW g, WellFormed(r, g)
  PROVE  NetworkEdits(r, g)
<1>1. Good(g) /\ Common(r) /\ DataRates
  BY FlatWellFormed, FlatStart, FlatHeader
<1>2. ASSUME NEW reqs \in Seq(Request(r)), reqs # <<>>
      PROVE  LET a == RegionLinkAdrReq(r, g, reqs)
             IN  MaskEdited(r, g, a.g) /\ (a.refused = {} => a.dr \in Rate /\ a.power \in Int)
  BY <1>1, <1>2, FlatLinkAdr
<1>3. Edited(r, g, g)
  BY <1>1, FlatEdited
<1>4. /\ \A id, new : RegionNewChannelReq(r, g, id, new).g = g
      /\ \A id, rx1 : RegionDlChannelReq(r, g, id, rx1).g = g
      /\ \A freqs : RegionApplyCFList(r, g, freqs) = g
  BY DEF FlatServed, Flat!NewChannelReq, Flat!DlChannelReq
<1>5. ASSUME NEW offset \in Nat, NEW dr \in 0 .. 15, NEW freq \in Nat,
             RegionRxParamSetupReq(r, offset, dr, freq) = {}
      PROVE  RxRate(r, dr)
  <2> DEFINE checks == [freq   |-> /\ Flat!ValueInRange(freq, FIRST_RX1_CHANNEL, LAST_RX1_CHANNEL)
                                   /\ (freq - FIRST_RX1_CHANNEL) % STEPWIDTH_RX1_CHANNEL = 0,
                        dr     |-> Flat!ValueInRange(dr, RX_MIN_DATARATE, RX_MAX_DATARATE),
                        offset |-> Flat!ValueInRange(offset, 0, MAX_RX1_DR_OFFSET)]
  <2>1. Flat!Cleared(checks) = {}
    BY <1>5 DEF FlatServed, Flat!RxParamSetupReq
  <2>2. "dr" \in DOMAIN checks /\ checks["dr"] = Flat!ValueInRange(dr, RX_MIN_DATARATE, RX_MAX_DATARATE)
    OBVIOUS
  <2> HIDE DEF checks
  <2>3. checks["dr"]
    BY <2>1, <2>2 DEF Flat!Cleared
  <2>4. RX_MIN_DATARATE \in 0 .. 15 /\ RX_MAX_DATARATE \in 0 .. 15
    BY <1>1 DEF DataRates
  <2>5. Flat!ValueInRange(dr, RX_MIN_DATARATE, RX_MAX_DATARATE)
    BY <2>2, <2>3, Zenon
  <2>6. dr \in RX_MIN_DATARATE .. RX_MAX_DATARATE
    BY <2>4, <2>5 DEF Flat!ValueInRange
  <2> QED  BY <1>1, <2>6, Answers
<1> QED  BY <1>2, <1>3, <1>4, <1>5 DEF NetworkEdits

\* The rate of an attempt to join is one of the six slow ones.
LEMMA JoinRates == \A n \in Nat : JoinRate(n) \in 0 .. 5
<1> SUFFICES ASSUME NEW n \in Nat  PROVE JoinRate(n) \in 0 .. 5
  OBVIOUS
<1> DEFINE S == {5} \cup {dr \in 0 .. 4 : n % <<48, 32, 24, 16, 8>>[dr + 1] = 0}
<1>1. S \in SUBSET Nat /\ S # {} /\ S \subseteq 0 .. 5
  OBVIOUS
<1>2. Min(S) \in S
  <2> HIDE DEF S
  <2> QED  BY <1>1, LeastIsIn
<1> QED  BY <1>1, <1>2 DEF JoinRate

\* What the MAC itself changes keeps a plan well formed.
LEMMA FlatMacEdits ==
  ASSUME Flat!Header, NEW r, FlatServed(r), NEW g, WellFormed(r, g)
  PROVE  MacEdits(r, g)
<1>1. Good(g) /\ g \in Plans /\ Common(r) /\ DataRates /\ Defaults
  BY FlatWellFormed, FlatStart, FlatHeader DEF Good
<1>2. MaskEdited(r, g, RegionInitDefaults(r, g, "RESTORE"))
  <2>1. RegionInitDefaults(r, g, "RESTORE") = [g EXCEPT !.mask = g.defaultMask]
    BY DEF FlatServed, Flat!InitDefaults
  <2>2. g.defaultMask \in SUBSET ChannelIds
    BY <1>1 DEF Plans
  <2>3. MaskEdited(r, g, [g EXCEPT !.mask = g.defaultMask])
    BY <1>1, <2>2, FlatMaskSet
  <2> QED  BY <2>1, <2>3
<1>3. ASSUME NEW n \in Nat
      PROVE  LET a == RegionAlternateDr(r, g, n) IN MaskEdited(r, g, a.g) /\ a.dr \in Rate
  <2>1. RegionAlternateDr(r, g, n).g = g /\ RegionAlternateDr(r, g, n).dr = Flat!JoinRate(n)
    BY DEF FlatServed, Flat!AlternateDr
  <2>2. Flat!JoinRate(n) \in 0 .. 5
    BY JoinRates DEF Flat!JoinRate, JoinRate, Flat!Min, Min
  <2>3. Flat!JoinRate(n) \in Rate
    BY <2>2 DEF Rate
  <2>4. MaskEdited(r, g, g)
    BY <1>1, FlatEdited
  <2> QED  BY <2>1, <2>3, <2>4
<1>4. ASSUME NEW a \in [adr : BOOLEAN, dr : Rate, power : Int, counter : Nat, dwell : {0, 1},
                        updateMask : BOOLEAN]
      PROVE  LET n == RegionAdrNext(r, g, a)
             IN  MaskEdited(r, g, n.g) /\ n.dr \in Rate /\ n.power \in Int /\ n.counter \in Nat
  <2> DEFINE n == RegionAdrNext(r, g, a)
  <2>1. n = AdrNext(g, a)
    BY <1>1 DEF Common
  <2>2. LET k == AdrNext(g, a)
        IN  /\ k.g = g \/ k.g = [g EXCEPT !.mask = Reenabled(g.mask)]
            /\ k.dr \in Rate /\ k.power \in Int /\ k.counter \in Nat
    BY <1>1, AdrNextAnswers
  <2> HIDE DEF n
  <2>3. Reenabled(g.mask) \in SUBSET ChannelIds
    BY FlatHeader
  <2>4. MaskEdited(r, g, [g EXCEPT !.mask = Reenabled(g.mask)]) /\ MaskEdited(r, g, g)
    BY <1>1, <2>3, FlatMaskSet
  <2>5. MaskEdited(r, g, n.g)
    BY <2>1, <2>2, <2>4
  <2> QED  BY <2>1, <2>2, <2>5 DEF n
<1> QED  BY <1>2, <1>3, <1>4 DEF MacEdits

\* Before a join a frame silences the band for as long as the age asks.
LEMMA FlatBackOff ==
  ASSUME Flat!Header, NEW r, FlatServed(r), NEW g, WellFormed(r, g)
  PROVE  BackOff(r, g)
<1>1. g \in Plans /\ Common(r) /\ BAND_DCYCLE[0] = 1 /\ DOMAIN BAND_DCYCLE = {0}
  BY FlatWellFormed, FlatStart, FlatHeader DEF Good
<1>2. \A b : RegionCalcBackOff(r, g, b)
               = [g EXCEPT !.bands[g.channels[b.channel].band].timeOff =
                    IF b.joined THEN 0 ELSE b.airTime * GetJoinDc(b.age) - b.airTime]
  BY DEF FlatServed, Flat!CalcBackOff, GetJoinDc, Flat!GetJoinDc
<1> QED  BY <1>1, <1>2, OneBandBackOff

\* An uplink radiates no more than its budget.
LEMMA FlatTransmits ==
  ASSUME Flat!Header, NEW r, FlatServed(r), NEW g
  PROVE  Transmits(r, g)
<1>1. /\ Defaults /\ Common(r) /\ RegionTxParamSetupReq(r) = -1 /\ r \notin HopRegions
  BY FlatStart, FlatHeader DEF FlatServed
<1>2. /\ \A power \in Int : \A dr, mask : LimitTxPower(power, dr, mask) \in Nat
      /\ \A freq : /\ Budget(freq, MAX_EIRP, ANTENNA_GAIN) \in Int
                   /\ Budget(freq, MAX_EIRP, ANTENNA_GAIN) <= Radiated(r, MAX_EIRP) - ANTENNA_GAIN
  BY <1>1, FlatHeader DEF Flat!Header, Flat!Functions, Flat!Powers, Flat!WithinEirp, Radiated, HopRegions
<1> SUFFICES ASSUME NEW c \in [channel : Ids(r), dr : 0 .. TopRate(r), power : Int,
                               maxEirp : Int, antennaGain : {AntennaGain(r)}]
             PROVE  Radiates(r, g, c, RegionTxConfig(r, g, c))
  BY DEF Transmits
<1>3. LET t == RegionTxConfig(r, g, c)
      IN  /\ t.frequency = g.channels[c.channel].freq
          /\ Eirp(r, c.maxEirp) =>
               t.phyPower \in Int /\ 100 * t.phyPower + AntennaGain(r) <= Radiated(r, c.maxEirp)
  BY <1>1, <1>2, BudgetKept
<1>4. r \notin {"US915", "US915_HYBRID"}
  BY <1>1 DEF HopRegions
<1> QED  BY <1>3, <1>4 DEF Radiates

\* Its UpdateBandTimeOff is theirs too.
LEMMA FlatRests ==
  ASSUME NEW D, NEW bands \in [D -> Band], NEW joined \in BOOLEAN, NEW dutyCycle \in BOOLEAN
  PROVE  LET u == Flat!UpdateBandTimeOff(joined, dutyCycle, bands)
         IN  /\ u.bands \in [D -> Band]
             /\ \A b \in D :
                  /\ u.bands[b].sinceTx = bands[b].sinceTx
                  /\ u.bands[b].sinceJoin = bands[b].sinceJoin
                  /\ \/ u.bands[b].timeOff = bands[b].timeOff
                     \/ /\ u.bands[b].timeOff = 0
                        /\ \/ joined /\ ~dutyCycle
                           \/ bands[b].timeOff <= Elapsed(joined, dutyCycle, bands[b])
             /\ (\E b \in D : u.bands[b].timeOff # 0) => u.delay \in Nat \ {0}
<1>1. Flat!UpdateBandTimeOff(joined, dutyCycle, bands) = UpdateBandTimeOff(joined, dutyCycle, bands)
  BY Zenon DEF Flat!UpdateBandTimeOff, UpdateBandTimeOff, Flat!Elapsed, Elapsed, Flat!Max, Max,
               Flat!Min, Min, Flat!NoDelay, NoDelay
<1> QED  BY <1>1, RestsUpdated

\* A search picks an enabled channel that carries the frame and does not rest.
LEMMA FlatSearches ==
  ASSUME Flat!Header, RandrPicks, NEW r, FlatServed(r), NEW g, WellFormed(r, g)
  PROVE  Searches(r, g)
<1> SUFFICES ASSUME NEW p \in Parameters(r), NEW x \in RegionNextChannel(r, g, p)
             PROVE  Found(r, g, p, x)
  BY DEF Searches
<1> DEFINE rested == p.aggrTimeOff <= p.sinceAggr
           updated == Flat!UpdateBandTimeOff(p.joined, p.dutyCycle, g.bands)
           awake == IF g.mask = {} THEN [g EXCEPT !.mask = DEFAULT_MASK] ELSE g
           g1 == IF rested THEN [awake EXCEPT !.bands = updated.bands] ELSE awake
           found == IF rested THEN Flat!CountNbOfEnabledChannels(g1, g1.mask, p.joined, p.dr)
                    ELSE [enabled |-> {}, delayTx |-> TRUE]
           aggr == IF rested THEN 0 ELSE p.aggrTimeOff
           delay == IF rested THEN updated.delay ELSE p.aggrTimeOff - p.sinceAggr
           result(ok, d, c) == [ok |-> ok, delay |-> d, channel |-> c, g |-> g1, aggrTimeOff |-> aggr]
           Rests(bands) == \A b \in {0} : RestsCleared(p, g.bands[b], bands[b])
<1>1. /\ Good(g) /\ g \in Plans /\ Ids(r) = ChannelIds /\ Bands(r) = {0} /\ r \notin HopRegions
      /\ TopRate(r) = TX_MAX_DATARATE /\ RegionJoinChannels(r) = JOIN_CHANNELS
      /\ \A h : WellFormed(r, h) <=> Good(h)
  BY FlatWellFormed, FlatStart, FlatHeader DEF Good
<1>2. /\ p.joined \in BOOLEAN /\ p.dutyCycle \in BOOLEAN /\ p.dr \in Rate /\ p.aggrTimeOff \in Int
      /\ p.sinceAggr \in Nat /\ p.channel \in ChannelIds
  <2>1. DutyCycleOn(r) \in BOOLEAN
    BY FlatStart, Names, FlatHeader
  <2> QED  BY <1>1, <2>1 DEF Parameters
<1>3. /\ updated.bands \in [{0} -> Band] /\ Rests(updated.bands)
      /\ updated.bands[0].timeOff # 0 => updated.delay \in Nat \ {0}
  <2>1. g.bands \in [{0} -> Band]
    BY <1>1, FlatHeader DEF Plans
  <2> QED  BY <1>2, <2>1, FlatRests DEF RestsCleared
<1>4. x \in Flat!NextChannel(g, p)
  BY DEF FlatServed
<1>5. \/ found.enabled # {} /\ \E c \in Draws(found.enabled) : x = result(TRUE, 0, c)
      \/ x = result(FALSE, 0, p.channel)
      \/ found.enabled = {} /\ found.delayTx /\ x = result(TRUE, delay, p.channel)
  BY <1>4 DEF Flat!NextChannel
<1> HIDE DEF updated
<1>6. DEFAULT_MASK \in SUBSET ChannelIds /\ DOMAIN BAND_DCYCLE = {0} /\ JOIN_CHANNELS = ChannelIds
      /\ TX_MAX_DATARATE \in 0 .. 15
  BY FlatHeader
<1>7. Good(awake) /\ awake.channels = g.channels /\ awake.bands = g.bands
  <2>1. LET h == [g EXCEPT !.mask = DEFAULT_MASK]
        IN  Good(h) /\ h.bands = g.bands /\ h.channels = g.channels
    BY <1>1, <1>6, MasksKept
  <2> QED  BY <1>1, <2>1
<1> HIDE DEF awake
<1>8. /\ Good(g1) /\ g1.channels = g.channels /\ Rests(g1.bands)
      /\ rested => g1.bands = updated.bands
  <2>1. CASE rested
    <3>1. g1 = [awake EXCEPT !.bands = updated.bands]
      BY <2>1
    <3> HIDE DEF g1
    <3>2. /\ g1 \in Plans /\ g1.channels = awake.channels /\ g1.bands = updated.bands
      BY <1>3, <1>6, <1>7, <3>1 DEF Good, Plans
    <3> QED  BY <1>3, <1>7, <3>2 DEF Good
  <2>2. CASE ~rested
    BY <1>7, <2>2 DEF RestsCleared
  <2> QED  BY <2>1, <2>2
<1> HIDE DEF g1
<1>9. rested =>
        /\ found.enabled = {c \in g1.mask : /\ g1.channels[c].freq # 0
                                            /\ p.joined \/ c \in JOIN_CHANNELS
                                            /\ Supports(g1.channels[c], p.dr)
                                            /\ g1.bands[g1.channels[c].band].timeOff = 0}
        /\ found.delayTx /\ found.enabled = {} =>
             \E c \in g1.mask : g1.bands[g1.channels[c].band].timeOff # 0
  BY DEF Flat!CountNbOfEnabledChannels, Flat!Supports, Supports, Flat!ValueInRange, ValueInRange
<1>10. ~rested => found.enabled = {}
  OBVIOUS
<1> HIDE DEF found
<1>11. \A c \in ChannelIds : g1.channels[c] \in Entry
  BY <1>8 DEF Good, Plans
<1>12. found.enabled = {} /\ found.delayTx => delay \in Nat \ {0}
  <2>1. CASE rested
    <3>1. SUFFICES ASSUME found.enabled = {}, found.delayTx  PROVE delay \in Nat \ {0}
      OBVIOUS
    <3>2. PICK c \in g1.mask : g1.bands[g1.channels[c].band].timeOff # 0
      BY <1>9, <2>1, <3>1
    <3>3. g1.channels[c].band = 0
      BY <1>6, <1>8, <1>11 DEF Good, Plans, Entry, ChannelOf
    <3>4. updated.bands[0].timeOff # 0
      BY <1>8, <2>1, <3>2, <3>3
    <3> QED  BY <1>3, <2>1, <3>4
  <2>2. CASE ~rested
    BY <1>2, <2>2
  <2> QED  BY <2>1, <2>2
<1>13. ASSUME x.g = g1, x.ok \in BOOLEAN, x.ok => x.delay \in Nat \ {0}, x.channel = p.channel,
              x.aggrTimeOff = aggr
       PROVE  Found(r, g, p, x)
  <2>1. WellFormed(r, x.g) /\ x.g.channels = g.channels
    BY <1>1, <1>8, <1>13
  <2>2. \A b \in Bands(r) : RestsCleared(p, g.bands[b], x.g.bands[b])
    BY <1>1, <1>8, <1>13
  <2>3. ~(x.ok /\ x.delay = 0)
    BY <1>13
  <2>4. x.ok \in BOOLEAN /\ x.channel \in Ids(r) /\ (x.ok => x.delay \in Nat)
    BY <1>1, <1>2, <1>13
  <2> QED  BY <1>1, <1>13, <2>1, <2>2, <2>3, <2>4 DEF Found
<1>14. ASSUME NEW c \in Draws(found.enabled), found.enabled # {}, x = result(TRUE, 0, c)
       PROVE  Found(r, g, p, x)
  <2>1. rested
    BY <1>10, <1>14
  <2>2. found.enabled \in SUBSET ChannelIds
    BY <1>8, <1>9, <2>1 DEF Good, Plans
  <2>3. c \in found.enabled /\ c \in ChannelIds
    BY <1>14, <2>2 DEF RandrPicks
  <2>4. /\ c \in g1.mask /\ g1.channels[c].freq # 0 /\ Supports(g1.channels[c], p.dr)
        /\ p.joined \/ c \in JOIN_CHANNELS
        /\ g1.bands[g1.channels[c].band].timeOff = 0
    BY <1>9, <2>1, <2>3
  <2>5. Usable(r, g1, p, c)
    BY <1>1, <2>4 DEF Usable
  <2>6. p.dr \in 0 .. TopRate(r)
    <3>1. g1.channels[c].min \in 0 .. TX_MAX_DATARATE /\ g1.channels[c].max \in 0 .. TX_MAX_DATARATE
      BY <1>11, <2>3 DEF Entry, ChannelOf
    <3>2. TX_MAX_DATARATE \in Int /\ p.dr \in Int
      BY <1>2, <1>6 DEF Rate
    <3> QED  BY <1>1, <2>4, <3>1, <3>2 DEF Supports, ValueInRange
  <2>7. /\ x.ok = TRUE /\ x.delay = 0 /\ x.channel = c /\ x.g = g1 /\ x.aggrTimeOff = 0
    BY <1>14, <2>1
  <2>8. WellFormed(r, x.g) /\ x.g.channels = g.channels
    BY <1>1, <1>8, <2>7
  <2>9. \A b \in Bands(r) : RestsCleared(p, g.bands[b], x.g.bands[b])
    BY <1>1, <1>8, <2>7
  <2>10. /\ x.g.bands[x.g.channels[x.channel].band].timeOff = 0
         /\ Usable(r, x.g, p, x.channel) /\ x.channel \in Ids(r)
    BY <1>1, <2>3, <2>4, <2>5, <2>7
  <2>11. x.ok /\ x.delay = 0 /\ x.aggrTimeOff = 0 /\ r \notin HopRegions
    BY <1>1, <2>7
  <2> HIDE DEF result
  <2> QED  BY <2>1, <2>6, <2>7, <2>8, <2>9, <2>10, <2>11 DEF Found
<1>15. CASE x = result(FALSE, 0, p.channel)
  BY <1>13, <1>15
<1>16. CASE found.enabled = {} /\ found.delayTx /\ x = result(TRUE, delay, p.channel)
  <2> HIDE DEF delay
  <2> QED  BY <1>12, <1>13, <1>16
<1> QED  BY <1>5, <1>14, <1>15, <1>16

\* The region whose file is FlatPlan with its header keeps the contract, although
\* it hands out any channel of its table again as soon as all are disabled.
THEOREM FlatPlanKeepsContract ==
  ASSUME Flat!Header, RandrPicks, NEW r, FlatServed(r)
  PROVE  Contract(r)
<1>1. /\ DataRates /\ Defaults /\ Common(r) /\ ~DUTY_CYCLE_ENABLED /\ r # "AU915"
      /\ BAND_DCYCLE \in [DOMAIN BAND_DCYCLE -> Nat \ {0}]
      /\ 0 \in JOIN_CHANNELS /\ JOIN_CHANNELS \subseteq ChannelIds
  BY FlatHeader, FlatStart DEF HopRegions
<1>2. Constants(r) /\ Started(r)
  BY <1>1, ConstantsKept, FlatStarted
<1>3. ASSUME NEW g, WellFormed(r, g)
      PROVE  /\ RatesAsked(r, g) /\ ApplicationEdits(r, g) /\ NetworkEdits(r, g) /\ MacEdits(r, g)
             /\ BackOff(r, g) /\ Searches(r, g) /\ Transmits(r, g) /\ Listens(r, g)
  BY <1>1, <1>3, RatesKept, FlatApplicationEdits, FlatNetworkEdits, FlatMacEdits, FlatBackOff,
     FlatSearches, FlatTransmits, ListensKept
<1> QED  BY <1>2, <1>3 DEF Contract

-----------------------------------------------------------------------------
(* The headers of the files, and the functions that differ.                 *)

EU868 == INSTANCE RegionEU868

\* The header and the functions of EU868 are such.
LEMMA EU868Fits ==
  /\ EU868!Plan!Header
  /\ \A g : \A n \in Nat : EU868!AlternateDr(g, n).g = g /\ EU868!AlternateDr(g, n).dr \in Rate
  /\ \A dwell \in {0, 1}, dr \in 0 .. EU868!TX_MAX_DATARATE :
       EU868!ApplyDrOffset(dwell, dr, 0) \in EU868!RX_MIN_DATARATE .. EU868!RX_MAX_DATARATE
<1>1. /\ EU868!TX_MIN_DATARATE = 0 /\ EU868!TX_MAX_DATARATE = 7
      /\ EU868!RX_MIN_DATARATE = 0 /\ EU868!RX_MAX_DATARATE = 7
      /\ EU868!RX_WND_2_DR = 0
  BY DEF EU868!TX_MIN_DATARATE, EU868!TX_MAX_DATARATE, EU868!RX_MIN_DATARATE,
         EU868!RX_MAX_DATARATE, EU868!RX_WND_2_DR
<1>2. EU868!BAND_DCYCLE \in [0 .. 4 -> Nat \ {0}] /\ DOMAIN EU868!BAND_DCYCLE = 0 .. 4
  BY DEF EU868!BAND_DCYCLE, EU868!Table
<1>3. EU868!Plan!Tables
  <2>1. EU868!Plan!ChannelIds = 0 .. 15 /\ EU868!MAX_NB_CHANNELS = 16
    BY DEF EU868!Plan!ChannelIds, EU868!MAX_NB_CHANNELS
  <2>2. /\ EU868!NUMB_DEFAULT_CHANNELS = 3 /\ EU868!NUMB_CHANNELS_CF_LIST = 5
        /\ EU868!JOIN_CHANNELS = 0 .. 2 /\ EU868!DEFAULT_MASK = 0 .. 2
    BY DEF EU868!NUMB_DEFAULT_CHANNELS, EU868!NUMB_CHANNELS_CF_LIST, EU868!JOIN_CHANNELS, EU868!DEFAULT_MASK
  <2>3. /\ DOMAIN EU868!LC = 0 .. 2
        /\ \A c \in 0 .. 2 :
             EU868!LC[c] \in [freq : Nat, rx1 : {0}, min : {0}, max : {5}, band : {1}]
        /\ \A c \in 0 .. 2 : EU868!VerifyTxFreq(EU868!LC[c].freq) = {1}
    BY DEF EU868!LC, EU868!Channel, EU868!VerifyTxFreq, EU868!ValueInRange
  <2> QED  BY <1>1, <1>2, <2>1, <2>2, <2>3 DEF EU868!Plan!Tables
<1>4. EU868!Plan!DataRates
  <2>1. \A dwell \in {0, 1} : /\ EU868!Plan!LowestTxDr(dwell) \in {0}
                              /\ EU868!Plan!LowestRxDr(dwell) \in {0}
    BY <1>1 DEF EU868!Plan!LowestTxDr, EU868!Plan!LowestRxDr, EU868!Plan!Limits, EU868!Plan!Max, EU868!DWELL_LIMIT_DATARATES
  <2>2. EU868!Plan!LowestRxDr(0) = 0
    BY <1>1 DEF EU868!Plan!LowestRxDr, EU868!Plan!Limits, EU868!Plan!Max
  <2>3. \A dr \in -128 .. 127, low \in 0 .. 15 : EU868!GetNextLowerTxDr(dr, low) \in -128 .. 127
    BY DEF EU868!GetNextLowerTxDr, EU868!Int8
  <2>4. \A dr \in 0 .. 7 :
          \/ EU868!DATARATES[dr] = 50
          \/ EU868!Plan!SymbolTime(EU868!DATARATES[dr], EU868!BANDWIDTHS[dr]) \in Nat \ {0}
    BY DEF EU868!DATARATES, EU868!BANDWIDTHS, EU868!Table, EU868!Plan!SymbolTime, EU868!Plan!Chips
  <2>5. ASSUME NEW dwell \in {0, 1}, NEW dr \in -128 .. 127
        PROVE  EU868!GetNextLowerTxDr(dr, EU868!Plan!LowestTxDr(dwell)) \in -128 .. 127
    <3>1. EU868!Plan!LowestTxDr(dwell) \in 0 .. 15
      BY <2>1
    <3> QED  BY <2>3, <3>1, Zenon
  <2>6. /\ EU868!TX_MIN_DATARATE \in 0 .. EU868!TX_MAX_DATARATE /\ EU868!TX_MAX_DATARATE \in 0 .. 15
        /\ EU868!RX_MIN_DATARATE = EU868!Plan!LowestRxDr(0)
        /\ EU868!RX_MIN_DATARATE \in 0 .. 15 /\ EU868!RX_MAX_DATARATE \in 0 .. 15
    BY <1>1, <2>2
  <2>7. ASSUME NEW dwell \in {0, 1}
        PROVE  /\ EU868!Plan!LowestRxDr(dwell) \in EU868!RX_MIN_DATARATE .. 15
               /\ EU868!Plan!LowestTxDr(dwell) \in 0 .. 15
    BY <1>1, <2>1
  <2>8. \A dr \in EU868!RX_MIN_DATARATE .. EU868!RX_MAX_DATARATE :
          \/ EU868!DATARATES[dr] = 50
          \/ EU868!Plan!SymbolTime(EU868!DATARATES[dr], EU868!BANDWIDTHS[dr]) \in Nat \ {0}
    BY <1>1, <2>4
  <2> QED  BY <2>5, <2>6, <2>7, <2>8, Zenon DEF EU868!Plan!DataRates
<1>5. EU868!Plan!Defaults
  BY <1>1 DEF EU868!Plan!Defaults, EU868!DEFAULT_DATARATE, EU868!NB_JOIN_TRIALS, EU868!DUTY_CYCLE_ENABLED,
              EU868!MAX_EIRP, EU868!ANTENNA_GAIN, EU868!MAX_TX_POWER, EU868!RX_WND_2_FREQ
<1>6. EU868!Plan!Functions
  <2>1. \A freq \in Nat : EU868!VerifyTxFreq(freq) \in {{}, {0}, {1}, {2}, {3}, {4}}
    BY DEF EU868!VerifyTxFreq, EU868!ValueInRange
  <2>2. \A freq \in Nat : \/ EU868!VerifyTxFreq(freq) = {}
                          \/ \E band \in DOMAIN EU868!BAND_DCYCLE : EU868!VerifyTxFreq(freq) = {band}
    BY <1>2, <2>1
  <2>3. \A mask : EU868!Reenabled(mask) = mask \cup EU868!DEFAULT_MASK
    BY DEF EU868!Reenabled
  <2>4. \A power \in Int : \A dr, mask : EU868!LimitTxPower(power, dr, mask) \in Nat
    BY DEF EU868!LimitTxPower, EU868!Max, EU868!MAX_TX_POWER
  <2>5. \A freq, eirp \in Int, gain \in Nat :
          EU868!Budget(freq, eirp, gain) \in Int /\ EU868!Budget(freq, eirp, gain) <= eirp - gain
    BY DEF EU868!Budget
  <2> QED  BY <2>2, <2>3, <2>4, <2>5 DEF EU868!Plan!Functions
<1>7. ASSUME NEW g, NEW n \in Nat
      PROVE  EU868!AlternateDr(g, n).g = g /\ EU868!AlternateDr(g, n).dr \in Rate
  <2>1. EU868!Plan!JoinRate(n) \in 0 .. 5
    BY JoinRates DEF EU868!Plan!JoinRate, JoinRate, EU868!Plan!Min, Min
  <2> QED  BY <2>1 DEF EU868!AlternateDr, EU868!Plan!AlternateDr, Rate
<1>8. ASSUME NEW dwell \in {0, 1}, NEW dr \in 0 .. 7
      PROVE  EU868!ApplyDrOffset(dwell, dr, 0) \in 0 .. 7
  BY DEF EU868!ApplyDrOffset, EU868!Plan!ApplyDrOffset, EU868!Plan!Max
<1> QED  BY <1>1, <1>3, <1>4, <1>5, <1>6, <1>7, <1>8 DEF EU868!Plan!Header

EU433 == INSTANCE RegionEU433

\* The header and the functions of EU433 are such.
LEMMA EU433Fits ==
  /\ EU433!Plan!Header
  /\ \A g : \A n \in Nat : EU433!AlternateDr(g, n).g = g /\ EU433!AlternateDr(g, n).dr \in Rate
  /\ \A dwell \in {0, 1}, dr \in 0 .. EU433!TX_MAX_DATARATE :
       EU433!ApplyDrOffset(dwell, dr, 0) \in EU433!RX_MIN_DATARATE .. EU433!RX_MAX_DATARATE
<1>1. /\ EU433!TX_MIN_DATARATE = 1 /\ EU433!TX_MAX_DATARATE = 7
      /\ EU433!RX_MIN_DATARATE = 0 /\ EU433!RX_MAX_DATARATE = 7
      /\ EU433!RX_WND_2_DR = 0
  BY DEF EU433!TX_MIN_DATARATE, EU433!TX_MAX_DATARATE, EU433!RX_MIN_DATARATE,
         EU433!RX_MAX_DATARATE, EU433!RX_WND_2_DR
<1>2. EU433!BAND_DCYCLE \in [0 .. 0 -> Nat \ {0}] /\ DOMAIN EU433!BAND_DCYCLE = 0 .. 0
  BY DEF EU433!BAND_DCYCLE, EU433!Table
<1>3. EU433!Plan!Tables
  <2>1. EU433!Plan!ChannelIds = 0 .. 15 /\ EU433!MAX_NB_CHANNELS = 16
    BY DEF EU433!Plan!ChannelIds, EU433!MAX_NB_CHANNELS
  <2>2. /\ EU433!NUMB_DEFAULT_CHANNELS = 3 /\ EU433!NUMB_CHANNELS_CF_LIST = 5
        /\ EU433!JOIN_CHANNELS = 0 .. 2 /\ EU433!DEFAULT_MASK = 0 .. 2
    BY DEF EU433!NUMB_DEFAULT_CHANNELS, EU433!NUMB_CHANNELS_CF_LIST, EU433!JOIN_CHANNELS, EU433!DEFAULT_MASK
  <2>3. /\ DOMAIN EU433!LC = 0 .. 2
        /\ \A c \in 0 .. 2 :
             EU433!LC[c] \in [freq : Nat, rx1 : {0}, min : {0}, max : {5}, band : {0}]
        /\ \A c \in 0 .. 2 : EU433!VerifyTxFreq(EU433!LC[c].freq) = {0}
    BY DEF EU433!LC, EU433!Channel, EU433!VerifyTxFreq, EU433!ValueInRange
  <2> QED  BY <1>1, <1>2, <2>1, <2>2, <2>3 DEF EU433!Plan!Tables
<1>4. EU433!Plan!DataRates
  <2>1. \A dwell \in {0, 1} : /\ EU433!Plan!LowestTxDr(dwell) \in {1}
                              /\ EU433!Plan!LowestRxDr(dwell) \in {0}
    BY <1>1 DEF EU433!Plan!LowestTxDr, EU433!Plan!LowestRxDr, EU433!Plan!Limits, EU433!Plan!Max, EU433!DWELL_LIMIT_DATARATES
  <2>2. EU433!Plan!LowestRxDr(0) = 0
    BY <1>1 DEF EU433!Plan!LowestRxDr, EU433!Plan!Limits, EU433!Plan!Max
  <2>3. \A dr \in -128 .. 127, low \in 0 .. 15 : EU433!GetNextLowerTxDr(dr, low) \in -128 .. 127
    BY DEF EU433!GetNextLowerTxDr, EU433!Int8
  <2>4. \A dr \in 0 .. 7 :
          \/ EU433!DATARATES[dr] = 50
          \/ EU433!Plan!SymbolTime(EU433!DATARATES[dr], EU433!BANDWIDTHS[dr]) \in Nat \ {0}
    BY DEF EU433!DATARATES, EU433!BANDWIDTHS, EU433!Table, EU433!Plan!SymbolTime, EU433!Plan!Chips
  <2>5. ASSUME NEW dwell \in {0, 1}, NEW dr \in -128 .. 127
        PROVE  EU433!GetNextLowerTxDr(dr, EU433!Plan!LowestTxDr(dwell)) \in -128 .. 127
    <3>1. EU433!Plan!LowestTxDr(dwell) \in 0 .. 15
      BY <2>1
    <3> QED  BY <2>3, <3>1, Zenon
  <2>6. /\ EU433!TX_MIN_DATARATE \in 0 .. EU433!TX_MAX_DATARATE /\ EU433!TX_MAX_DATARATE \in 0 .. 15
        /\ EU433!RX_MIN_DATARATE = EU433!Plan!LowestRxDr(0)
        /\ EU433!RX_MIN_DATARATE \in 0 .. 15 /\ EU433!RX_MAX_DATARATE \in 0 .. 15
    BY <1>1, <2>2
  <2>7. ASSUME NEW dwell \in {0, 1}
        PROVE  /\ EU433!Plan!LowestRxDr(dwell) \in EU433!RX_MIN_DATARATE .. 15
               /\ EU433!Plan!LowestTxDr(dwell) \in 0 .. 15
    BY <1>1, <2>1
  <2>8. \A dr \in EU433!RX_MIN_DATARATE .. EU433!RX_MAX_DATARATE :
          \/ EU433!DATARATES[dr] = 50
          \/ EU433!Plan!SymbolTime(EU433!DATARATES[dr], EU433!BANDWIDTHS[dr]) \in Nat \ {0}
    BY <1>1, <2>4
  <2> QED  BY <2>5, <2>6, <2>7, <2>8, Zenon DEF EU433!Plan!DataRates
<1>5. EU433!Plan!Defaults
  BY <1>1 DEF EU433!Plan!Defaults, EU433!DEFAULT_DATARATE, EU433!NB_JOIN_TRIALS, EU433!DUTY_CYCLE_ENABLED,
              EU433!MAX_EIRP, EU433!ANTENNA_GAIN, EU433!MAX_TX_POWER, EU433!RX_WND_2_FREQ
<1>6. EU433!Plan!Functions
  <2>1. \A freq \in Nat : EU433!VerifyTxFreq(freq) \in {{}, {0}}
    BY DEF EU433!VerifyTxFreq, EU433!ValueInRange
  <2>2. \A freq \in Nat : \/ EU433!VerifyTxFreq(freq) = {}
                          \/ \E band \in DOMAIN EU433!BAND_DCYCLE : EU433!VerifyTxFreq(freq) = {band}
    BY <1>2, <2>1
  <2>3. \A mask : EU433!Reenabled(mask) = mask \cup EU433!DEFAULT_MASK
    BY DEF EU433!Reenabled
  <2>4. \A power \in Int : \A dr, mask : EU433!LimitTxPower(power, dr, mask) \in Nat
    BY DEF EU433!LimitTxPower, EU433!Max, EU433!MAX_TX_POWER
  <2>5. \A freq, eirp \in Int, gain \in Nat :
          EU433!Budget(freq, eirp, gain) \in Int /\ EU433!Budget(freq, eirp, gain) <= eirp - gain
    BY DEF EU433!Budget
  <2> QED  BY <2>2, <2>3, <2>4, <2>5 DEF EU433!Plan!Functions
<1>7. ASSUME NEW g, NEW n \in Nat
      PROVE  EU433!AlternateDr(g, n).g = g /\ EU433!AlternateDr(g, n).dr \in Rate
  <2>1. EU433!Plan!JoinRate(n) \in 0 .. 5
    BY JoinRates DEF EU433!Plan!JoinRate, JoinRate, EU433!Plan!Min, Min
  <2> QED  BY <2>1 DEF EU433!AlternateDr, EU433!Plan!AlternateDr, Rate
<1>8. ASSUME NEW dwell \in {0, 1}, NEW dr \in 0 .. 7
      PROVE  EU433!ApplyDrOffset(dwell, dr, 0) \in 0 .. 7
  BY DEF EU433!ApplyDrOffset, EU433!Plan!ApplyDrOffset, EU433!Plan!Max
<1> QED  BY <1>1, <1>3, <1>4, <1>5, <1>6, <1>7, <1>8 DEF EU433!Plan!Header

CN779 == INSTANCE RegionCN779

\* The header and the functions of CN779 are such.
LEMMA CN779Fits ==
  /\ CN779!Plan!Header
  /\ \A g : \A n \in Nat : CN779!AlternateDr(g, n).g = g /\ CN779!AlternateDr(g, n).dr \in Rate
  /\ \A dwell \in {0, 1}, dr \in 0 .. CN779!TX_MAX_DATARATE :
       CN779!ApplyDrOffset(dwell, dr, 0) \in CN779!RX_MIN_DATARATE .. CN779!RX_MAX_DATARATE
<1>1. /\ CN779!TX_MIN_DATARATE = 0 /\ CN779!TX_MAX_DATARATE = 7
      /\ CN779!RX_MIN_DATARATE = 0 /\ CN779!RX_MAX_DATARATE = 7
      /\ CN779!RX_WND_2_DR = 0
  BY DEF CN779!TX_MIN_DATARATE, CN779!TX_MAX_DATARATE, CN779!RX_MIN_DATARATE,
         CN779!RX_MAX_DATARATE, CN779!RX_WND_2_DR
<1>2. CN779!BAND_DCYCLE \in [0 .. 0 -> Nat \ {0}] /\ DOMAIN CN779!BAND_DCYCLE = 0 .. 0
  BY DEF CN779!BAND_DCYCLE, CN779!Table
<1>3. CN779!Plan!Tables
  <2>1. CN779!Plan!ChannelIds = 0 .. 15 /\ CN779!MAX_NB_CHANNELS = 16
    BY DEF CN779!Plan!ChannelIds, CN779!MAX_NB_CHANNELS
  <2>2. /\ CN779!NUMB_DEFAULT_CHANNELS = 3 /\ CN779!NUMB_CHANNELS_CF_LIST = 5
        /\ CN779!JOIN_CHANNELS = 0 .. 2 /\ CN779!DEFAULT_MASK = 0 .. 2
    BY DEF CN779!NUMB_DEFAULT_CHANNELS, CN779!NUMB_CHANNELS_CF_LIST, CN779!JOIN_CHANNELS, CN779!DEFAULT_MASK
  <2>3. /\ DOMAIN CN779!LC = 0 .. 2
        /\ \A c \in 0 .. 2 :
             CN779!LC[c] \in [freq : Nat, rx1 : {0}, min : {0}, max : {5}, band : {0}]
        /\ \A c \in 0 .. 2 : CN779!VerifyTxFreq(CN779!LC[c].freq) = {0}
    BY DEF CN779!LC, CN779!Channel, CN779!VerifyTxFreq, CN779!ValueInRange
  <2> QED  BY <1>1, <1>2, <2>1, <2>2, <2>3 DEF CN779!Plan!Tables
<1>4. CN779!Plan!DataRates
  <2>1. \A dwell \in {0, 1} : /\ CN779!Plan!LowestTxDr(dwell) \in {0}
                              /\ CN779!Plan!LowestRxDr(dwell) \in {0}
    BY <1>1 DEF CN779!Plan!LowestTxDr, CN779!Plan!LowestRxDr, CN779!Plan!Limits, CN779!Plan!Max, CN779!DWELL_LIMIT_DATARATES
  <2>2. CN779!Plan!LowestRxDr(0) = 0
    BY <1>1 DEF CN779!Plan!LowestRxDr, CN779!Plan!Limits, CN779!Plan!Max
  <2>3. \A dr \in -128 .. 127, low \in 0 .. 15 : CN779!GetNextLowerTxDr(dr, low) \in -128 .. 127
    BY DEF CN779!GetNextLowerTxDr, CN779!Int8
  <2>4. \A dr \in 0 .. 7 :
          \/ CN779!DATARATES[dr] = 50
          \/ CN779!Plan!SymbolTime(CN779!DATARATES[dr], CN779!BANDWIDTHS[dr]) \in Nat \ {0}
    BY DEF CN779!DATARATES, CN779!BANDWIDTHS, CN779!Table, CN779!Plan!SymbolTime, CN779!Plan!Chips
  <2>5. ASSUME NEW dwell \in {0, 1}, NEW dr \in -128 .. 127
        PROVE  CN779!GetNextLowerTxDr(dr, CN779!Plan!LowestTxDr(dwell)) \in -128 .. 127
    <3>1. CN779!Plan!LowestTxDr(dwell) \in 0 .. 15
      BY <2>1
    <3> QED  BY <2>3, <3>1, Zenon
  <2>6. /\ CN779!TX_MIN_DATARATE \in 0 .. CN779!TX_MAX_DATARATE /\ CN779!TX_MAX_DATARATE \in 0 .. 15
        /\ CN779!RX_MIN_DATARATE = CN779!Plan!LowestRxDr(0)
        /\ CN779!RX_MIN_DATARATE \in 0 .. 15 /\ CN779!RX_MAX_DATARATE \in 0 .. 15
    BY <1>1, <2>2
  <2>7. ASSUME NEW dwell \in {0, 1}
        PROVE  /\ CN779!Plan!LowestRxDr(dwell) \in CN779!RX_MIN_DATARATE .. 15
               /\ CN779!Plan!LowestTxDr(dwell) \in 0 .. 15
    BY <1>1, <2>1
  <2>8. \A dr \in CN779!RX_MIN_DATARATE .. CN779!RX_MAX_DATARATE :
          \/ CN779!DATARATES[dr] = 50
          \/ CN779!Plan!SymbolTime(CN779!DATARATES[dr], CN779!BANDWIDTHS[dr]) \in Nat \ {0}
    BY <1>1, <2>4
  <2> QED  BY <2>5, <2>6, <2>7, <2>8, Zenon DEF CN779!Plan!DataRates
<1>5. CN779!Plan!Defaults
  BY <1>1 DEF CN779!Plan!Defaults, CN779!DEFAULT_DATARATE, CN779!NB_JOIN_TRIALS, CN779!DUTY_CYCLE_ENABLED,
              CN779!MAX_EIRP, CN779!ANTENNA_GAIN, CN779!MAX_TX_POWER, CN779!RX_WND_2_FREQ
<1>6. CN779!Plan!Functions
  <2>1. \A freq \in Nat : CN779!VerifyTxFreq(freq) \in {{}, {0}}
    BY DEF CN779!VerifyTxFreq, CN779!ValueInRange
  <2>2. \A freq \in Nat : \/ CN779!VerifyTxFreq(freq) = {}
                          \/ \E band \in DOMAIN CN779!BAND_DCYCLE : CN779!VerifyTxFreq(freq) = {band}
    BY <1>2, <2>1
  <2>3. \A mask : CN779!Reenabled(mask) = mask \cup CN779!DEFAULT_MASK
    BY DEF CN779!Reenabled
  <2>4. \A power \in Int : \A dr, mask : CN779!LimitTxPower(power, dr, mask) \in Nat
    BY DEF CN779!LimitTxPower, CN779!Max, CN779!MAX_TX_POWER
  <2>5. \A freq, eirp \in Int, gain \in Nat :
          CN779!Budget(freq, eirp, gain) \in Int /\ CN779!Budget(freq, eirp, gain) <= eirp - gain
    BY DEF CN779!Budget
  <2> QED  BY <2>2, <2>3, <2>4, <2>5 DEF CN779!Plan!Functions
<1>7. ASSUME NEW g, NEW n \in Nat
      PROVE  CN779!AlternateDr(g, n).g = g /\ CN779!AlternateDr(g, n).dr \in Rate
  <2>1. CN779!Plan!JoinRate(n) \in 0 .. 5
    BY JoinRates DEF CN779!Plan!JoinRate, JoinRate, CN779!Plan!Min, Min
  <2> QED  BY <2>1 DEF CN779!AlternateDr, CN779!Plan!AlternateDr, Rate
<1>8. ASSUME NEW dwell \in {0, 1}, NEW dr \in 0 .. 7
      PROVE  CN779!ApplyDrOffset(dwell, dr, 0) \in 0 .. 7
  BY DEF CN779!ApplyDrOffset, CN779!Plan!ApplyDrOffset, CN779!Plan!Max
<1> QED  BY <1>1, <1>3, <1>4, <1>5, <1>6, <1>7, <1>8 DEF CN779!Plan!Header

IN865 == INSTANCE RegionIN865

\* The header and the functions of IN865 are such.
LEMMA IN865Fits ==
  /\ IN865!Plan!Header
  /\ \A g : \A n \in Nat : IN865!AlternateDr(g, n).g = g /\ IN865!AlternateDr(g, n).dr \in Rate
  /\ \A dwell \in {0, 1}, dr \in 0 .. IN865!TX_MAX_DATARATE :
       IN865!ApplyDrOffset(dwell, dr, 0) \in IN865!RX_MIN_DATARATE .. IN865!RX_MAX_DATARATE
<1>1. /\ IN865!TX_MIN_DATARATE = 0 /\ IN865!TX_MAX_DATARATE = 7
      /\ IN865!RX_MIN_DATARATE = 0 /\ IN865!RX_MAX_DATARATE = 7
      /\ IN865!RX_WND_2_DR = 2
  BY DEF IN865!TX_MIN_DATARATE, IN865!TX_MAX_DATARATE, IN865!RX_MIN_DATARATE,
         IN865!RX_MAX_DATARATE, IN865!RX_WND_2_DR
<1>2. IN865!BAND_DCYCLE \in [0 .. 0 -> Nat \ {0}] /\ DOMAIN IN865!BAND_DCYCLE = 0 .. 0
  BY DEF IN865!BAND_DCYCLE, IN865!Table
<1>3. IN865!Plan!Tables
  <2>1. IN865!Plan!ChannelIds = 0 .. 15 /\ IN865!MAX_NB_CHANNELS = 16
    BY DEF IN865!Plan!ChannelIds, IN865!MAX_NB_CHANNELS
  <2>2. /\ IN865!NUMB_DEFAULT_CHANNELS = 3 /\ IN865!NUMB_CHANNELS_CF_LIST = 5
        /\ IN865!JOIN_CHANNELS = 0 .. 2 /\ IN865!DEFAULT_MASK = 0 .. 2
    BY DEF IN865!NUMB_DEFAULT_CHANNELS, IN865!NUMB_CHANNELS_CF_LIST, IN865!JOIN_CHANNELS, IN865!DEFAULT_MASK
  <2>3. /\ DOMAIN IN865!LC = 0 .. 2
        /\ \A c \in 0 .. 2 :
             IN865!LC[c] \in [freq : Nat, rx1 : {0}, min : {0}, max : {5}, band : {0}]
        /\ \A c \in 0 .. 2 : IN865!VerifyTxFreq(IN865!LC[c].freq) = {0}
    BY DEF IN865!LC, IN865!Channel, IN865!VerifyTxFreq, IN865!ValueInRange, IN865!Table
  <2> QED  BY <1>1, <1>2, <2>1, <2>2, <2>3 DEF IN865!Plan!Tables
<1>4. IN865!Plan!DataRates
  <2>1. \A dwell \in {0, 1} : /\ IN865!Plan!LowestTxDr(dwell) \in {0}
                              /\ IN865!Plan!LowestRxDr(dwell) \in {0}
    BY <1>1 DEF IN865!Plan!LowestTxDr, IN865!Plan!LowestRxDr, IN865!Plan!Limits, IN865!Plan!Max, IN865!DWELL_LIMIT_DATARATES
  <2>2. IN865!Plan!LowestRxDr(0) = 0
    BY <1>1 DEF IN865!Plan!LowestRxDr, IN865!Plan!Limits, IN865!Plan!Max
  <2>3. \A dr \in -128 .. 127, low \in 0 .. 15 : IN865!GetNextLowerTxDr(dr, low) \in -128 .. 127
    BY DEF IN865!GetNextLowerTxDr, IN865!Int8
  <2>4. \A dr \in 0 .. 7 :
          \/ IN865!DATARATES[dr] = 50
          \/ IN865!Plan!SymbolTime(IN865!DATARATES[dr], IN865!BANDWIDTHS[dr]) \in Nat \ {0}
    BY DEF IN865!DATARATES, IN865!BANDWIDTHS, IN865!Table, IN865!Plan!SymbolTime, IN865!Plan!Chips
  <2>5. ASSUME NEW dwell \in {0, 1}, NEW dr \in -128 .. 127
        PROVE  IN865!GetNextLowerTxDr(dr, IN865!Plan!LowestTxDr(dwell)) \in -128 .. 127
    <3>1. IN865!Plan!LowestTxDr(dwell) \in 0 .. 15
      BY <2>1
    <3> QED  BY <2>3, <3>1, Zenon
  <2>6. /\ IN865!TX_MIN_DATARATE \in 0 .. IN865!TX_MAX_DATARATE /\ IN865!TX_MAX_DATARATE \in 0 .. 15
        /\ IN865!RX_MIN_DATARATE = IN865!Plan!LowestRxDr(0)
        /\ IN865!RX_MIN_DATARATE \in 0 .. 15 /\ IN865!RX_MAX_DATARATE \in 0 .. 15
    BY <1>1, <2>2
  <2>7. ASSUME NEW dwell \in {0, 1}
        PROVE  /\ IN865!Plan!LowestRxDr(dwell) \in IN865!RX_MIN_DATARATE .. 15
               /\ IN865!Plan!LowestTxDr(dwell) \in 0 .. 15
    BY <1>1, <2>1
  <2>8. \A dr \in IN865!RX_MIN_DATARATE .. IN865!RX_MAX_DATARATE :
          \/ IN865!DATARATES[dr] = 50
          \/ IN865!Plan!SymbolTime(IN865!DATARATES[dr], IN865!BANDWIDTHS[dr]) \in Nat \ {0}
    BY <1>1, <2>4
  <2> QED  BY <2>5, <2>6, <2>7, <2>8, Zenon DEF IN865!Plan!DataRates
<1>5. IN865!Plan!Defaults
  BY <1>1 DEF IN865!Plan!Defaults, IN865!DEFAULT_DATARATE, IN865!NB_JOIN_TRIALS, IN865!DUTY_CYCLE_ENABLED,
              IN865!MAX_EIRP, IN865!ANTENNA_GAIN, IN865!MAX_TX_POWER, IN865!RX_WND_2_FREQ
<1>6. IN865!Plan!Functions
  <2>1. \A freq \in Nat : IN865!VerifyTxFreq(freq) \in {{}, {0}}
    BY DEF IN865!VerifyTxFreq, IN865!ValueInRange
  <2>2. \A freq \in Nat : \/ IN865!VerifyTxFreq(freq) = {}
                          \/ \E band \in DOMAIN IN865!BAND_DCYCLE : IN865!VerifyTxFreq(freq) = {band}
    BY <1>2, <2>1
  <2>3. \A mask : IN865!Reenabled(mask) = mask \cup IN865!DEFAULT_MASK
    BY DEF IN865!Reenabled
  <2>4. \A power \in Int : \A dr, mask : IN865!LimitTxPower(power, dr, mask) \in Nat
    BY DEF IN865!LimitTxPower, IN865!Max, IN865!MAX_TX_POWER
  <2>5. \A freq, eirp \in Int, gain \in Nat :
          IN865!Budget(freq, eirp, gain) \in Int /\ IN865!Budget(freq, eirp, gain) <= eirp - gain
    BY DEF IN865!Budget
  <2> QED  BY <2>2, <2>3, <2>4, <2>5 DEF IN865!Plan!Functions
<1>7. ASSUME NEW g, NEW n \in Nat
      PROVE  IN865!AlternateDr(g, n).g = g /\ IN865!AlternateDr(g, n).dr \in Rate
  <2>1. IN865!Plan!JoinRate(n) \in 0 .. 5
    BY JoinRates DEF IN865!Plan!JoinRate, JoinRate, IN865!Plan!Min, Min
  <2> QED  BY <2>1 DEF IN865!AlternateDr, IN865!Plan!AlternateDr, Rate
<1>8. ASSUME NEW dwell \in {0, 1}, NEW dr \in 0 .. 7
      PROVE  IN865!ApplyDrOffset(dwell, dr, 0) \in 0 .. 7
  <2>1. IN865!EffectiveRx1DrOffset[0] = 0
    BY DEF IN865!EffectiveRx1DrOffset, IN865!Table
  <2> QED  BY <2>1 DEF IN865!ApplyDrOffset, IN865!Min, IN865!Max
<1> QED  BY <1>1, <1>3, <1>4, <1>5, <1>6, <1>7, <1>8 DEF IN865!Plan!Header

KR920 == INSTANCE RegionKR920

\* The header and the functions of KR920 are such.
LEMMA KR920Fits ==
  /\ KR920!Plan!Header
  /\ \A g : \A n \in Nat : KR920!AlternateDr(g, n).g = g /\ KR920!AlternateDr(g, n).dr \in Rate
  /\ \A dwell \in {0, 1}, dr \in 0 .. KR920!TX_MAX_DATARATE :
       KR920!ApplyDrOffset(dwell, dr, 0) \in KR920!RX_MIN_DATARATE .. KR920!RX_MAX_DATARATE
<1>1. /\ KR920!TX_MIN_DATARATE = 0 /\ KR920!TX_MAX_DATARATE = 5
      /\ KR920!RX_MIN_DATARATE = 0 /\ KR920!RX_MAX_DATARATE = 5
      /\ KR920!RX_WND_2_DR = 0
  BY DEF KR920!TX_MIN_DATARATE, KR920!TX_MAX_DATARATE, KR920!RX_MIN_DATARATE,
         KR920!RX_MAX_DATARATE, KR920!RX_WND_2_DR
<1>2. KR920!BAND_DCYCLE \in [0 .. 0 -> Nat \ {0}] /\ DOMAIN KR920!BAND_DCYCLE = 0 .. 0
  BY DEF KR920!BAND_DCYCLE, KR920!Table
<1>3. KR920!Plan!Tables
  <2>1. KR920!Plan!ChannelIds = 0 .. 15 /\ KR920!MAX_NB_CHANNELS = 16
    BY DEF KR920!Plan!ChannelIds, KR920!MAX_NB_CHANNELS
  <2>2. /\ KR920!NUMB_DEFAULT_CHANNELS = 3 /\ KR920!NUMB_CHANNELS_CF_LIST = 5
        /\ KR920!JOIN_CHANNELS = 0 .. 2 /\ KR920!DEFAULT_MASK = 0 .. 2
    BY DEF KR920!NUMB_DEFAULT_CHANNELS, KR920!NUMB_CHANNELS_CF_LIST, KR920!JOIN_CHANNELS, KR920!DEFAULT_MASK
  <2>3. /\ DOMAIN KR920!LC = 0 .. 2
        /\ \A c \in 0 .. 2 :
             KR920!LC[c] \in [freq : Nat, rx1 : {0}, min : {0}, max : {5}, band : {0}]
        /\ \A c \in 0 .. 2 : KR920!VerifyTxFreq(KR920!LC[c].freq) = {0}
    BY DEF KR920!LC, KR920!Channel, KR920!VerifyTxFreq, KR920!ValueInRange
  <2> QED  BY <1>1, <1>2, <2>1, <2>2, <2>3 DEF KR920!Plan!Tables
<1>4. KR920!Plan!DataRates
  <2>1. \A dwell \in {0, 1} : /\ KR920!Plan!LowestTxDr(dwell) \in {0}
                              /\ KR920!Plan!LowestRxDr(dwell) \in {0}
    BY <1>1 DEF KR920!Plan!LowestTxDr, KR920!Plan!LowestRxDr, KR920!Plan!Limits, KR920!Plan!Max, KR920!DWELL_LIMIT_DATARATES
  <2>2. KR920!Plan!LowestRxDr(0) = 0
    BY <1>1 DEF KR920!Plan!LowestRxDr, KR920!Plan!Limits, KR920!Plan!Max
  <2>3. \A dr \in -128 .. 127, low \in 0 .. 15 : KR920!GetNextLowerTxDr(dr, low) \in -128 .. 127
    BY DEF KR920!GetNextLowerTxDr, KR920!Int8
  <2>4. \A dr \in 0 .. 5 :
          \/ KR920!DATARATES[dr] = 50
          \/ KR920!Plan!SymbolTime(KR920!DATARATES[dr], KR920!BANDWIDTHS[dr]) \in Nat \ {0}
    BY DEF KR920!DATARATES, KR920!BANDWIDTHS, KR920!Table, KR920!Plan!SymbolTime, KR920!Plan!Chips
  <2>5. ASSUME NEW dwell \in {0, 1}, NEW dr \in -128 .. 127
        PROVE  KR920!GetNextLowerTxDr(dr, KR920!Plan!LowestTxDr(dwell)) \in -128 .. 127
    <3>1. KR920!Plan!LowestTxDr(dwell) \in 0 .. 15
      BY <2>1
    <3> QED  BY <2>3, <3>1, Zenon
  <2>6. /\ KR920!TX_MIN_DATARATE \in 0 .. KR920!TX_MAX_DATARATE /\ KR920!TX_MAX_DATARATE \in 0 .. 15
        /\ KR920!RX_MIN_DATARATE = KR920!Plan!LowestRxDr(0)
        /\ KR920!RX_MIN_DATARATE \in 0 .. 15 /\ KR920!RX_MAX_DATARATE \in 0 .. 15
    BY <1>1, <2>2
  <2>7. ASSUME NEW dwell \in {0, 1}
        PROVE  /\ KR920!Plan!LowestRxDr(dwell) \in KR920!RX_MIN_DATARATE .. 15
               /\ KR920!Plan!LowestTxDr(dwell) \in 0 .. 15
    BY <1>1, <2>1
  <2>8. \A dr \in KR920!RX_MIN_DATARATE .. KR920!RX_MAX_DATARATE :
          \/ KR920!DATARATES[dr] = 50
          \/ KR920!Plan!SymbolTime(KR920!DATARATES[dr], KR920!BANDWIDTHS[dr]) \in Nat \ {0}
    BY <1>1, <2>4
  <2> QED  BY <2>5, <2>6, <2>7, <2>8, Zenon DEF KR920!Plan!DataRates
<1>5. KR920!Plan!Defaults
  BY <1>1 DEF KR920!Plan!Defaults, KR920!DEFAULT_DATARATE, KR920!NB_JOIN_TRIALS, KR920!DUTY_CYCLE_ENABLED,
              KR920!MAX_EIRP, KR920!ANTENNA_GAIN, KR920!MAX_TX_POWER, KR920!RX_WND_2_FREQ
<1>6. KR920!Plan!Functions
  <2>1. \A freq \in Nat : KR920!VerifyTxFreq(freq) \in {{}, {0}}
    BY DEF KR920!VerifyTxFreq, KR920!ValueInRange
  <2>2. \A freq \in Nat : \/ KR920!VerifyTxFreq(freq) = {}
                          \/ \E band \in DOMAIN KR920!BAND_DCYCLE : KR920!VerifyTxFreq(freq) = {band}
    BY <1>2, <2>1
  <2>3. \A mask : KR920!Reenabled(mask) = mask \cup KR920!DEFAULT_MASK
    BY DEF KR920!Reenabled
  <2>4. \A power \in Int : \A dr, mask : KR920!LimitTxPower(power, dr, mask) \in Nat
    BY DEF KR920!LimitTxPower, KR920!Max, KR920!MAX_TX_POWER
  <2>5. \A freq, eirp \in Int, gain \in Nat :
          KR920!Budget(freq, eirp, gain) \in Int /\ KR920!Budget(freq, eirp, gain) <= eirp - gain
    BY DEF KR920!Budget, KR920!GetMaxEIRP, KR920!Min
  <2> QED  BY <2>2, <2>3, <2>4, <2>5 DEF KR920!Plan!Functions
<1>7. ASSUME NEW g, NEW n \in Nat
      PROVE  KR920!AlternateDr(g, n).g = g /\ KR920!AlternateDr(g, n).dr \in Rate
  <2>1. KR920!Plan!JoinRate(n) \in 0 .. 5
    BY JoinRates DEF KR920!Plan!JoinRate, JoinRate, KR920!Plan!Min, Min
  <2> QED  BY <2>1 DEF KR920!AlternateDr, KR920!Plan!AlternateDr, Rate
<1>8. ASSUME NEW dwell \in {0, 1}, NEW dr \in 0 .. 5
      PROVE  KR920!ApplyDrOffset(dwell, dr, 0) \in 0 .. 5
  BY DEF KR920!ApplyDrOffset, KR920!Plan!ApplyDrOffset, KR920!Plan!Max
<1> QED  BY <1>1, <1>3, <1>4, <1>5, <1>6, <1>7, <1>8 DEF KR920!Plan!Header

AS923 == INSTANCE RegionAS923

\* The header and the functions of AS923 are such.
LEMMA AS923Fits ==
  /\ AS923!Plan!Header
  /\ \A g : \A n \in Nat : AS923!AlternateDr(g, n).g = g /\ AS923!AlternateDr(g, n).dr \in Rate
  /\ \A dwell \in {0, 1}, dr \in 0 .. AS923!TX_MAX_DATARATE :
       AS923!ApplyDrOffset(dwell, dr, 0) \in AS923!RX_MIN_DATARATE .. AS923!RX_MAX_DATARATE
<1>1. /\ AS923!TX_MIN_DATARATE = 0 /\ AS923!TX_MAX_DATARATE = 7
      /\ AS923!RX_MIN_DATARATE = 0 /\ AS923!RX_MAX_DATARATE = 7
      /\ AS923!RX_WND_2_DR = 2
  BY DEF AS923!TX_MIN_DATARATE, AS923!TX_MAX_DATARATE, AS923!RX_MIN_DATARATE,
         AS923!RX_MAX_DATARATE, AS923!RX_WND_2_DR
<1>2. AS923!BAND_DCYCLE \in [0 .. 0 -> Nat \ {0}] /\ DOMAIN AS923!BAND_DCYCLE = 0 .. 0
  BY DEF AS923!BAND_DCYCLE, AS923!Table
<1>3. AS923!Plan!Tables
  <2>1. AS923!Plan!ChannelIds = 0 .. 15 /\ AS923!MAX_NB_CHANNELS = 16
    BY DEF AS923!Plan!ChannelIds, AS923!MAX_NB_CHANNELS
  <2>2. /\ AS923!NUMB_DEFAULT_CHANNELS = 2 /\ AS923!NUMB_CHANNELS_CF_LIST = 5
        /\ AS923!JOIN_CHANNELS = 0 .. 1 /\ AS923!DEFAULT_MASK = 0 .. 1
    BY DEF AS923!NUMB_DEFAULT_CHANNELS, AS923!NUMB_CHANNELS_CF_LIST, AS923!JOIN_CHANNELS, AS923!DEFAULT_MASK
  <2>3. /\ DOMAIN AS923!LC = 0 .. 1
        /\ \A c \in 0 .. 1 :
             AS923!LC[c] \in [freq : Nat, rx1 : {0}, min : {0}, max : {5}, band : {0}]
        /\ \A c \in 0 .. 1 : AS923!VerifyTxFreq(AS923!LC[c].freq) = {0}
    BY DEF AS923!LC, AS923!Channel, AS923!VerifyTxFreq, AS923!ValueInRange, AS923!Table
  <2> QED  BY <1>1, <1>2, <2>1, <2>2, <2>3 DEF AS923!Plan!Tables
<1>4. AS923!Plan!DataRates
  <2>1. \A dwell \in {0, 1} : /\ AS923!Plan!LowestTxDr(dwell) \in {0, 2}
                              /\ AS923!Plan!LowestRxDr(dwell) \in {0, 2}
    BY <1>1 DEF AS923!Plan!LowestTxDr, AS923!Plan!LowestRxDr, AS923!Plan!Limits, AS923!Plan!Max, AS923!DWELL_LIMIT_DATARATES
  <2>2. AS923!Plan!LowestRxDr(0) = 0
    BY <1>1 DEF AS923!Plan!LowestRxDr, AS923!Plan!Limits, AS923!Plan!Max
  <2>3. \A dr \in -128 .. 127, low \in 0 .. 15 : AS923!GetNextLowerTxDr(dr, low) \in -128 .. 127
    BY DEF AS923!GetNextLowerTxDr, AS923!Int8
  <2>4. \A dr \in 0 .. 7 :
          \/ AS923!DATARATES[dr] = 50
          \/ AS923!Plan!SymbolTime(AS923!DATARATES[dr], AS923!BANDWIDTHS[dr]) \in Nat \ {0}
    BY DEF AS923!DATARATES, AS923!BANDWIDTHS, AS923!Table, AS923!Plan!SymbolTime, AS923!Plan!Chips
  <2>5. ASSUME NEW dwell \in {0, 1}, NEW dr \in -128 .. 127
        PROVE  AS923!GetNextLowerTxDr(dr, AS923!Plan!LowestTxDr(dwell)) \in -128 .. 127
    <3>1. AS923!Plan!LowestTxDr(dwell) \in 0 .. 15
      BY <2>1
    <3> QED  BY <2>3, <3>1, Zenon
  <2>6. /\ AS923!TX_MIN_DATARATE \in 0 .. AS923!TX_MAX_DATARATE /\ AS923!TX_MAX_DATARATE \in 0 .. 15
        /\ AS923!RX_MIN_DATARATE = AS923!Plan!LowestRxDr(0)
        /\ AS923!RX_MIN_DATARATE \in 0 .. 15 /\ AS923!RX_MAX_DATARATE \in 0 .. 15
    BY <1>1, <2>2
  <2>7. ASSUME NEW dwell \in {0, 1}
        PROVE  /\ AS923!Plan!LowestRxDr(dwell) \in AS923!RX_MIN_DATARATE .. 15
               /\ AS923!Plan!LowestTxDr(dwell) \in 0 .. 15
    BY <1>1, <2>1
  <2>8. \A dr \in AS923!RX_MIN_DATARATE .. AS923!RX_MAX_DATARATE :
          \/ AS923!DATARATES[dr] = 50
          \/ AS923!Plan!SymbolTime(AS923!DATARATES[dr], AS923!BANDWIDTHS[dr]) \in Nat \ {0}
    BY <1>1, <2>4
  <2> QED  BY <2>5, <2>6, <2>7, <2>8, Zenon DEF AS923!Plan!DataRates
<1>5. AS923!Plan!Defaults
  BY <1>1 DEF AS923!Plan!Defaults, AS923!DEFAULT_DATARATE, AS923!NB_JOIN_TRIALS, AS923!DUTY_CYCLE_ENABLED,
              AS923!MAX_EIRP, AS923!ANTENNA_GAIN, AS923!MAX_TX_POWER, AS923!RX_WND_2_FREQ
<1>6. AS923!Plan!Functions
  <2>1. \A freq \in Nat : AS923!VerifyTxFreq(freq) \in {{}, {0}}
    BY DEF AS923!VerifyTxFreq, AS923!ValueInRange
  <2>2. \A freq \in Nat : \/ AS923!VerifyTxFreq(freq) = {}
                          \/ \E band \in DOMAIN AS923!BAND_DCYCLE : AS923!VerifyTxFreq(freq) = {band}
    BY <1>2, <2>1
  <2>3. \A mask : AS923!Reenabled(mask) = mask \cup AS923!DEFAULT_MASK
    BY DEF AS923!Reenabled
  <2>4. \A power \in Int : \A dr, mask : AS923!LimitTxPower(power, dr, mask) \in Nat
    BY DEF AS923!LimitTxPower, AS923!Max, AS923!MAX_TX_POWER
  <2>5. \A freq, eirp \in Int, gain \in Nat :
          AS923!Budget(freq, eirp, gain) \in Int /\ AS923!Budget(freq, eirp, gain) <= eirp - gain
    BY DEF AS923!Budget
  <2> QED  BY <2>2, <2>3, <2>4, <2>5 DEF AS923!Plan!Functions
<1>7. ASSUME NEW g, NEW n \in Nat
      PROVE  AS923!AlternateDr(g, n).g = g /\ AS923!AlternateDr(g, n).dr \in Rate
  BY DEF AS923!AlternateDr, Rate
<1>8. ASSUME NEW dwell \in {0, 1}, NEW dr \in 0 .. 7
      PROVE  AS923!ApplyDrOffset(dwell, dr, 0) \in 0 .. 7
  <2>1. AS923!EffectiveRx1DrOffset[0] = 0
    BY DEF AS923!EffectiveRx1DrOffset, AS923!Table
  <2> QED  BY <2>1 DEF AS923!ApplyDrOffset, AS923!Min, AS923!Max
<1> QED  BY <1>1, <1>3, <1>4, <1>5, <1>6, <1>7, <1>8 DEF AS923!Plan!Header

\* The six files with an editable table are regions of DynamicPlansKeepContract:
\* what it asks of a header holds for the constants and functions of each.
THEOREM DynamicHeadersFit ==
  /\ EU868!Plan!Header /\ EU433!Plan!Header /\ CN779!Plan!Header
  /\ IN865!Plan!Header /\ KR920!Plan!Header /\ AS923!Plan!Header
  BY EU868Fits, EU433Fits, CN779Fits, IN865Fits, KR920Fits, AS923Fits

-----------------------------------------------------------------------------
(* The headers of the four files with a fixed table.                        *)

US915 == INSTANCE RegionUS915

\* The header and the functions of US915 are such.
LEMMA US915Fits ==
  /\ US915!Plan!Header
  /\ \A dwell \in {0, 1}, dr \in 0 .. US915!TX_MAX_DATARATE :
       US915!ApplyDrOffset(dwell, dr, 0) \in US915!RX_MIN_DATARATE .. US915!RX_MAX_DATARATE
  /\ US915!Plan!Lowered /\ US915!UPDATES_TIME_OFF = TRUE
<1>1. /\ US915!TX_MIN_DATARATE = 0 /\ US915!TX_MAX_DATARATE = 4
      /\ US915!RX_MIN_DATARATE = 8 /\ US915!RX_MAX_DATARATE = 13 /\ US915!RX_WND_2_DR = 8
      /\ US915!MAX_EIRP = 0 /\ US915!ANTENNA_GAIN = 0 /\ US915!MAX_TX_POWER = 0
  BY DEF US915!TX_MIN_DATARATE, US915!TX_MAX_DATARATE, US915!RX_MIN_DATARATE, US915!RX_MAX_DATARATE,
         US915!RX_WND_2_DR, US915!MAX_EIRP, US915!ANTENNA_GAIN, US915!MAX_TX_POWER
<1>2. US915!MAX_NB_CHANNELS = 72 /\ US915!Plan!ChannelIds = 0 .. 71
  BY DEF US915!MAX_NB_CHANNELS, US915!Plan!ChannelIds
<1>3. US915!Plan!Tables
  <2>1. US915!BAND_DCYCLE \in [{0} -> {1}]
    BY DEF US915!BAND_DCYCLE, US915!Table
  <2>2. US915!JOIN_CHANNELS = 0 .. 71 /\ US915!DUTY_CYCLE_ENABLED = FALSE
    BY DEF US915!JOIN_CHANNELS, US915!DEFAULT_MASK, US915!DUTY_CYCLE_ENABLED
  <2>3. ASSUME NEW c \in 0 .. 71
        PROVE  /\ US915!LC[c] \in [freq : Nat, rx1 : Nat, min : 0 .. 4, max : 0 .. 4, band : {0}]
               /\ US915!LC[c].min <= US915!LC[c].max
    BY DEF US915!LC, US915!Channel
  <2>4. US915!LC \in [0 .. 71 -> [freq : Nat, rx1 : Nat, min : 0 .. 4, max : 0 .. 4, band : {0}]]
    <3>1. US915!LC = [c \in 0 .. 71 |-> US915!LC[c]]
      BY DEF US915!LC
    <3> QED  BY <2>3, <3>1
  <2>5. \A c \in 0 .. 71 : US915!LC[c].min <= US915!LC[c].max
    BY <2>3
  <2> QED  BY <1>1, <1>2, <2>1, <2>2, <2>4, <2>5, Zenon DEF US915!Plan!Tables, US915!Plan!OneBand
<1>4. US915!Plan!DataRates
  <2>1. \A dwell \in {0, 1} : US915!Plan!LowestTxDr(dwell) = 0 /\ US915!Plan!LowestRxDr(dwell) = 8
    BY <1>1 DEF US915!Plan!LowestTxDr, US915!Plan!LowestRxDr, US915!Plan!Limits, US915!Plan!Max,
                US915!DWELL_LIMIT_DATARATES
  <2>2. US915!Plan!LowestRxDr(0) = 8
    BY <2>1
  <2>3. \A dr \in -128 .. 127 : US915!GetNextLowerTxDr(dr, 0) \in -128 .. 127
    BY DEF US915!GetNextLowerTxDr, US915!Int8
  <2>4. \A dr \in 8 .. 13 :
          \/ US915!DATARATES[dr] = 50
          \/ US915!Plan!SymbolTime(US915!DATARATES[dr], US915!BANDWIDTHS[dr]) \in Nat \ {0}
    BY DEF US915!DATARATES, US915!BANDWIDTHS, US915!Table, US915!Plan!SymbolTime, US915!Plan!Chips
  <2>5. ASSUME NEW dwell \in {0, 1}, NEW dr \in -128 .. 127
        PROVE  US915!GetNextLowerTxDr(dr, US915!Plan!LowestTxDr(dwell)) \in -128 .. 127
    <3>1. US915!Plan!LowestTxDr(dwell) = 0
      BY <2>1
    <3> QED  BY <2>3, <3>1, Zenon
  <2>6. /\ US915!TX_MIN_DATARATE \in 0 .. US915!TX_MAX_DATARATE /\ US915!TX_MAX_DATARATE \in 0 .. 15
        /\ US915!RX_MIN_DATARATE = US915!Plan!LowestRxDr(0) /\ US915!RX_MIN_DATARATE \in 0 .. 15
        /\ US915!RX_MAX_DATARATE \in 0 .. 15
    BY <1>1, <2>2
  <2>7. \A dwell \in {0, 1} : /\ US915!Plan!LowestRxDr(dwell) \in US915!RX_MIN_DATARATE .. 15
                               /\ US915!Plan!LowestTxDr(dwell) \in 0 .. 15
    BY <1>1, <2>1
  <2>8. \A dr \in US915!RX_MIN_DATARATE .. US915!RX_MAX_DATARATE :
          \/ US915!DATARATES[dr] = 50
          \/ US915!Plan!SymbolTime(US915!DATARATES[dr], US915!BANDWIDTHS[dr]) \in Nat \ {0}
    BY <1>1, <2>4
  <2> QED  BY <2>5, <2>6, <2>7, <2>8, Zenon DEF US915!Plan!DataRates
<1>5. US915!Plan!Defaults
  BY <1>1 DEF US915!Plan!Defaults, US915!DEFAULT_DATARATE, US915!NB_JOIN_TRIALS, US915!DUTY_CYCLE_ENABLED,
              US915!RX_WND_2_FREQ
<1>6. \A power \in Int : \A dr, mask : US915!LimitTxPower(power, dr, mask) \in Nat
  BY <1>1 DEF US915!LimitTxPower, US915!Max
<1>7. US915!Plan!Functions
  <2>1. \A n \in {0, 1} : US915!JOIN_RATES[n] \in 0 .. 15
    BY DEF US915!JOIN_RATES, US915!Table
  <2>2. \A freq : US915!Budget(freq, US915!MAX_EIRP, US915!ANTENNA_GAIN) \in Int
    BY DEF US915!Budget, US915!DEFAULT_MAX_ERP
  <2> QED  BY <1>6, <2>1, <2>2 DEF US915!Plan!Functions, US915!Plan!Powers
<1>8. US915!Plan!Masks
  <2>1. \A mask : US915!Plan!Kept(mask) <=> mask \in SUBSET (0 .. 71)
    BY <1>2 DEF US915!Plan!Kept, US915!JoinMask
  <2>2. US915!DEFAULT_MASK = 0 .. 71
    BY DEF US915!DEFAULT_MASK
  <2>3. \A mask : /\ US915!RestoredMask(mask) = mask /\ US915!JoinMask(mask) = mask
                  /\ US915!CheckedMask(mask) \subseteq {mask} /\ US915!AdrMask(mask) = {mask}
                  /\ US915!Reenabled(mask) = US915!DEFAULT_MASK
    BY DEF US915!RestoredMask, US915!JoinMask, US915!CheckedMask, US915!AdrMask, US915!Reenabled
  <2>4. US915!Plan!Kept(US915!DEFAULT_MASK)
    BY <2>1, <2>2
  <2>5. ASSUME NEW mask \in SUBSET (0 .. 71)
        PROVE  /\ US915!Plan!Kept(US915!RestoredMask(mask))
               /\ \A m \in US915!CheckedMask(mask) \cup US915!AdrMask(mask) : US915!Plan!Kept(m)
    <3>1. US915!Plan!Kept(mask)
      BY <2>1
    <3>2. /\ US915!CheckedMask(mask) \cup US915!AdrMask(mask) \subseteq {mask}
          /\ US915!RestoredMask(mask) = mask
      BY <2>3
    <3> QED  BY <3>1, <3>2
  <2>6. \A mask : US915!Plan!Kept(mask) => /\ US915!Plan!Kept(US915!JoinMask(mask))
                                         /\ US915!Plan!Kept(US915!Reenabled(mask))
                                         /\ mask \subseteq US915!Reenabled(mask)
    BY <2>1, <2>2, <2>3
  <2> QED  BY <1>2, <2>4, <2>5, <2>6 DEF US915!Plan!Masks
<1>9. ASSUME NEW dwell, NEW dr \in 0 .. 4
      PROVE  US915!ApplyDrOffset(dwell, dr, 0) \in 8 .. 13
  <2>1. US915!DATARATE_OFFSETS[dr][0] \in 8 .. 13
    BY DEF US915!DATARATE_OFFSETS, US915!Table
  <2> QED  BY <2>1 DEF US915!ApplyDrOffset, US915!Plan!ApplyDrOffset, US915!Plan!Max
<1>10. US915!Plan!Lowered
  <2>1. \A freq, eirp, gain : US915!Budget(freq, eirp, gain) = 3000
    BY DEF US915!Budget, US915!DEFAULT_MAX_ERP
  <2>2. ASSUME NEW power \in Int, NEW dr \in 0 .. 4, NEW mask
        PROVE  /\ US915!BANDWIDTHS[dr] = 500 => US915!LimitTxPower(power, dr, mask) >= 2
               /\ US915!BANDWIDTHS[dr] = 125 /\ US915!Plan!CountChannels(mask, 0, 4) < 50 =>
                    US915!LimitTxPower(power, dr, mask) >= 5
    <3>1. US915!BANDWIDTHS[dr] = IF dr = 4 THEN 500 ELSE 125
      BY DEF US915!BANDWIDTHS, US915!Table
    <3>2. US915!Plan!CountChannels(mask, 0, 4) = US915!CountChannels(mask, 0, 4)
      BY DEF US915!Plan!CountChannels, US915!CountChannels, US915!Plan!Cardinality, US915!Cardinality
    <3>3. Max({power, 2}) >= 2 /\ Max({power, 5}) >= 5
      BY LargerOfTwo
    <3>4. \A S : US915!Max(S) = Max(S)
      BY DEF US915!Max, Max
    <3>5. CASE dr = 4
      BY <3>1, <3>3, <3>4, <3>5 DEF US915!LimitTxPower
    <3>6. CASE dr # 4
      BY <3>1, <3>2, <3>3, <3>4, <3>6 DEF US915!LimitTxPower
    <3> QED  BY <3>5, <3>6
  <2> QED  BY <1>1, <2>1, <2>2 DEF US915!Plan!Lowered
<1> QED  BY <1>1, <1>3, <1>4, <1>5, <1>7, <1>8, <1>9, <1>10 DEF US915!Plan!Header, US915!UPDATES_TIME_OFF

US915_HYBRID == INSTANCE RegionUS915_HYBRID

\* The header and the functions of US915_HYBRID are such.
LEMMA US915_HYBRIDFits ==
  /\ US915_HYBRID!Plan!Header
  /\ \A dwell \in {0, 1}, dr \in 0 .. US915_HYBRID!TX_MAX_DATARATE :
       US915_HYBRID!ApplyDrOffset(dwell, dr, 0) \in US915_HYBRID!RX_MIN_DATARATE .. US915_HYBRID!RX_MAX_DATARATE
  /\ US915_HYBRID!Plan!Lowered /\ US915_HYBRID!UPDATES_TIME_OFF = TRUE
<1>1. /\ US915_HYBRID!TX_MIN_DATARATE = 0 /\ US915_HYBRID!TX_MAX_DATARATE = 4
      /\ US915_HYBRID!RX_MIN_DATARATE = 8 /\ US915_HYBRID!RX_MAX_DATARATE = 13 /\ US915_HYBRID!RX_WND_2_DR = 8
      /\ US915_HYBRID!MAX_EIRP = 0 /\ US915_HYBRID!ANTENNA_GAIN = 0 /\ US915_HYBRID!MAX_TX_POWER = 0
  BY DEF US915_HYBRID!TX_MIN_DATARATE, US915_HYBRID!TX_MAX_DATARATE, US915_HYBRID!RX_MIN_DATARATE, US915_HYBRID!RX_MAX_DATARATE,
         US915_HYBRID!RX_WND_2_DR, US915_HYBRID!MAX_EIRP, US915_HYBRID!ANTENNA_GAIN, US915_HYBRID!MAX_TX_POWER
<1>2. US915_HYBRID!MAX_NB_CHANNELS = 72 /\ US915_HYBRID!Plan!ChannelIds = 0 .. 71
  BY DEF US915_HYBRID!MAX_NB_CHANNELS, US915_HYBRID!Plan!ChannelIds
<1>3. US915_HYBRID!Plan!Tables
  <2>1. US915_HYBRID!BAND_DCYCLE \in [{0} -> {1}]
    BY DEF US915_HYBRID!BAND_DCYCLE, US915_HYBRID!Table
  <2>2. US915_HYBRID!JOIN_CHANNELS = 0 .. 71 /\ US915_HYBRID!DUTY_CYCLE_ENABLED = FALSE
    BY DEF US915_HYBRID!JOIN_CHANNELS, US915_HYBRID!DEFAULT_MASK, US915_HYBRID!DUTY_CYCLE_ENABLED
  <2>3. ASSUME NEW c \in 0 .. 71
        PROVE  /\ US915_HYBRID!LC[c] \in [freq : Nat, rx1 : Nat, min : 0 .. 4, max : 0 .. 4, band : {0}]
               /\ US915_HYBRID!LC[c].min <= US915_HYBRID!LC[c].max
    BY DEF US915_HYBRID!LC, US915_HYBRID!Channel
  <2>4. US915_HYBRID!LC \in [0 .. 71 -> [freq : Nat, rx1 : Nat, min : 0 .. 4, max : 0 .. 4, band : {0}]]
    <3>1. US915_HYBRID!LC = [c \in 0 .. 71 |-> US915_HYBRID!LC[c]]
      BY DEF US915_HYBRID!LC
    <3> QED  BY <2>3, <3>1
  <2>5. \A c \in 0 .. 71 : US915_HYBRID!LC[c].min <= US915_HYBRID!LC[c].max
    BY <2>3
  <2> QED  BY <1>1, <1>2, <2>1, <2>2, <2>4, <2>5, Zenon DEF US915_HYBRID!Plan!Tables, US915_HYBRID!Plan!OneBand
<1>4. US915_HYBRID!Plan!DataRates
  <2>1. \A dwell \in {0, 1} : US915_HYBRID!Plan!LowestTxDr(dwell) = 0 /\ US915_HYBRID!Plan!LowestRxDr(dwell) = 8
    BY <1>1 DEF US915_HYBRID!Plan!LowestTxDr, US915_HYBRID!Plan!LowestRxDr, US915_HYBRID!Plan!Limits, US915_HYBRID!Plan!Max,
                US915_HYBRID!DWELL_LIMIT_DATARATES
  <2>2. US915_HYBRID!Plan!LowestRxDr(0) = 8
    BY <2>1
  <2>3. \A dr \in -128 .. 127 : US915_HYBRID!GetNextLowerTxDr(dr, 0) \in -128 .. 127
    BY DEF US915_HYBRID!GetNextLowerTxDr, US915_HYBRID!Int8
  <2>4. \A dr \in 8 .. 13 :
          \/ US915_HYBRID!DATARATES[dr] = 50
          \/ US915_HYBRID!Plan!SymbolTime(US915_HYBRID!DATARATES[dr], US915_HYBRID!BANDWIDTHS[dr]) \in Nat \ {0}
    BY DEF US915_HYBRID!DATARATES, US915_HYBRID!BANDWIDTHS, US915_HYBRID!Table, US915_HYBRID!Plan!SymbolTime, US915_HYBRID!Plan!Chips
  <2>5. ASSUME NEW dwell \in {0, 1}, NEW dr \in -128 .. 127
        PROVE  US915_HYBRID!GetNextLowerTxDr(dr, US915_HYBRID!Plan!LowestTxDr(dwell)) \in -128 .. 127
    <3>1. US915_HYBRID!Plan!LowestTxDr(dwell) = 0
      BY <2>1
    <3> QED  BY <2>3, <3>1, Zenon
  <2>6. /\ US915_HYBRID!TX_MIN_DATARATE \in 0 .. US915_HYBRID!TX_MAX_DATARATE /\ US915_HYBRID!TX_MAX_DATARATE \in 0 .. 15
        /\ US915_HYBRID!RX_MIN_DATARATE = US915_HYBRID!Plan!LowestRxDr(0) /\ US915_HYBRID!RX_MIN_DATARATE \in 0 .. 15
        /\ US915_HYBRID!RX_MAX_DATARATE \in 0 .. 15
    BY <1>1, <2>2
  <2>7. \A dwell \in {0, 1} : /\ US915_HYBRID!Plan!LowestRxDr(dwell) \in US915_HYBRID!RX_MIN_DATARATE .. 15
                               /\ US915_HYBRID!Plan!LowestTxDr(dwell) \in 0 .. 15
    BY <1>1, <2>1
  <2>8. \A dr \in US915_HYBRID!RX_MIN_DATARATE .. US915_HYBRID!RX_MAX_DATARATE :
          \/ US915_HYBRID!DATARATES[dr] = 50
          \/ US915_HYBRID!Plan!SymbolTime(US915_HYBRID!DATARATES[dr], US915_HYBRID!BANDWIDTHS[dr]) \in Nat \ {0}
    BY <1>1, <2>4
  <2> QED  BY <2>5, <2>6, <2>7, <2>8, Zenon DEF US915_HYBRID!Plan!DataRates
<1>5. US915_HYBRID!Plan!Defaults
  BY <1>1 DEF US915_HYBRID!Plan!Defaults, US915_HYBRID!DEFAULT_DATARATE, US915_HYBRID!NB_JOIN_TRIALS, US915_HYBRID!DUTY_CYCLE_ENABLED,
              US915_HYBRID!RX_WND_2_FREQ
<1>6. \A power \in Int : \A dr, mask : US915_HYBRID!LimitTxPower(power, dr, mask) \in Nat
  BY <1>1 DEF US915_HYBRID!LimitTxPower, US915_HYBRID!Max
<1>7. US915_HYBRID!Plan!Functions
  <2>1. \A n \in {0, 1} : US915_HYBRID!JOIN_RATES[n] \in 0 .. 15
    BY DEF US915_HYBRID!JOIN_RATES, US915_HYBRID!Table
  <2>2. \A freq : US915_HYBRID!Budget(freq, US915_HYBRID!MAX_EIRP, US915_HYBRID!ANTENNA_GAIN) \in Int
    BY DEF US915_HYBRID!Budget, US915_HYBRID!DEFAULT_MAX_ERP
  <2> QED  BY <1>6, <2>1, <2>2 DEF US915_HYBRID!Plan!Functions, US915_HYBRID!Plan!Powers
<1>8. US915_HYBRID!Plan!Masks
  <2> DEFINE twin(c) == IF c < 64 THEN 64 + c \div 8 ELSE c
  <2>1. \A mask : US915_HYBRID!JoinMask(mask) = {c \in 0 .. 71 : twin(c) \in mask \cap (64 .. 71)}
    BY DEF US915_HYBRID!JoinMask, US915_HYBRID!Reenabled, US915_HYBRID!ReenableChannels
  <2>2. \A mask : US915_HYBRID!Reenabled(mask) = US915_HYBRID!JoinMask(mask) /\ US915_HYBRID!RestoredMask(mask) = US915_HYBRID!JoinMask(mask)
    BY DEF US915_HYBRID!JoinMask, US915_HYBRID!RestoredMask
  <2>3. \A c \in 0 .. 71 : twin(c) \in 64 .. 71 /\ twin(twin(c)) = twin(c)
    OBVIOUS
  <2> HIDE DEF twin
  <2>4. \A mask : US915_HYBRID!Plan!Kept(mask) <=>
                    mask \in SUBSET (0 .. 71) /\ \A c \in mask : twin(c) \in mask
    BY <1>2, <2>1, <2>3 DEF US915_HYBRID!Plan!Kept
  <2>5. ASSUME NEW mask  PROVE US915_HYBRID!Plan!Kept(US915_HYBRID!JoinMask(mask))
    <3>1. \A c \in US915_HYBRID!JoinMask(mask) : twin(c) \in US915_HYBRID!JoinMask(mask)
      <4>1. 64 .. 71 \subseteq 0 .. 71
        OBVIOUS
      <4> QED  BY <2>1, <2>3, <4>1
    <3>2. US915_HYBRID!JoinMask(mask) \in SUBSET (0 .. 71)
      BY <2>1
    <3> QED  BY <2>4, <3>1, <3>2
  <2>6. US915_HYBRID!Plan!Kept(US915_HYBRID!DEFAULT_MASK)
    BY <2>4 DEF US915_HYBRID!DEFAULT_MASK, twin
  <2>7. ASSUME NEW mask \in SUBSET (0 .. 71), NEW m \in US915_HYBRID!ValidateChannelsMask(mask)
        PROVE  US915_HYBRID!Plan!Kept(m)
    <3> DEFINE inBlock(b) == mask \cap (8 * b .. 8 * b + 7)
               good == {b \in 0 .. 7 : US915_HYBRID!Cardinality(inBlock(b)) > 5}
               first == US915_HYBRID!Min(good)
    <3>1. good # {} /\ m = inBlock(first) \cup {64 + first}
      BY <2>7 DEF US915_HYBRID!ValidateChannelsMask
    <3>2. first \in good
      <4>1. good \in SUBSET Nat /\ Min(good) = first
        BY DEF US915_HYBRID!Min, Min
      <4> HIDE DEF good, first
      <4> QED  BY <3>1, <4>1, LeastIsIn
    <3>3. first \in 0 .. 7
      BY <3>2
    <3> HIDE DEF good, first
    <3>4. ASSUME NEW c \in inBlock(first)  PROVE c \in 0 .. 71 /\ twin(c) = 64 + first
      <4>1. c \in 8 * first .. 8 * first + 7
        OBVIOUS
      <4>2. c \in 0 .. 63 /\ c \div 8 = first
        BY <3>3, <4>1
      <4> QED  BY <4>2 DEF twin
    <3>5. twin(64 + first) = 64 + first /\ 64 + first \in 0 .. 71
      BY <3>3 DEF twin
    <3> HIDE DEF inBlock
    <3> QED  BY <2>4, <3>1, <3>4, <3>5
  <2>8. \A mask \in SUBSET (0 .. 71) : \A m \in US915_HYBRID!CheckedMask(mask) \cup US915_HYBRID!AdrMask(mask) :
          US915_HYBRID!Plan!Kept(m)
    BY <2>7 DEF US915_HYBRID!CheckedMask, US915_HYBRID!AdrMask
  <2>9. \A mask : US915_HYBRID!Plan!Kept(mask) => mask \subseteq US915_HYBRID!Reenabled(mask)
    BY <2>2 DEF US915_HYBRID!Plan!Kept
  <2> QED  BY <1>2, <2>2, <2>5, <2>6, <2>8, <2>9 DEF US915_HYBRID!Plan!Masks
<1>9. ASSUME NEW dwell, NEW dr \in 0 .. 4
      PROVE  US915_HYBRID!ApplyDrOffset(dwell, dr, 0) \in 8 .. 13
  <2>1. US915_HYBRID!DATARATE_OFFSETS[dr][0] \in 8 .. 13
    BY DEF US915_HYBRID!DATARATE_OFFSETS, US915_HYBRID!Table
  <2> QED  BY <2>1 DEF US915_HYBRID!ApplyDrOffset, US915_HYBRID!Plan!ApplyDrOffset, US915_HYBRID!Plan!Max
<1>10. US915_HYBRID!Plan!Lowered
  <2>1. \A freq, eirp, gain : US915_HYBRID!Budget(freq, eirp, gain) = 3000
    BY DEF US915_HYBRID!Budget, US915_HYBRID!DEFAULT_MAX_ERP
  <2>2. ASSUME NEW power \in Int, NEW dr \in 0 .. 4, NEW mask
        PROVE  /\ US915_HYBRID!BANDWIDTHS[dr] = 500 => US915_HYBRID!LimitTxPower(power, dr, mask) >= 2
               /\ US915_HYBRID!BANDWIDTHS[dr] = 125 /\ US915_HYBRID!Plan!CountChannels(mask, 0, 4) < 50 =>
                    US915_HYBRID!LimitTxPower(power, dr, mask) >= 5
    <3>1. US915_HYBRID!BANDWIDTHS[dr] = IF dr = 4 THEN 500 ELSE 125
      BY DEF US915_HYBRID!BANDWIDTHS, US915_HYBRID!Table
    <3>2. US915_HYBRID!Plan!CountChannels(mask, 0, 4) = US915_HYBRID!CountChannels(mask, 0, 4)
      BY DEF US915_HYBRID!Plan!CountChannels, US915_HYBRID!CountChannels, US915_HYBRID!Plan!Cardinality, US915_HYBRID!Cardinality
    <3>3. Max({power, 2}) >= 2 /\ Max({power, 5}) >= 5
      BY LargerOfTwo
    <3>4. \A S : US915_HYBRID!Max(S) = Max(S)
      BY DEF US915_HYBRID!Max, Max
    <3>5. CASE dr = 4
      BY <3>1, <3>3, <3>4, <3>5 DEF US915_HYBRID!LimitTxPower
    <3>6. CASE dr # 4
      BY <3>1, <3>2, <3>3, <3>4, <3>6 DEF US915_HYBRID!LimitTxPower
    <3> QED  BY <3>5, <3>6
  <2> QED  BY <1>1, <2>1, <2>2 DEF US915_HYBRID!Plan!Lowered
<1> QED  BY <1>1, <1>3, <1>4, <1>5, <1>7, <1>8, <1>9, <1>10 DEF US915_HYBRID!Plan!Header, US915_HYBRID!UPDATES_TIME_OFF

AU915 == INSTANCE RegionAU915

\* The header and the functions of AU915 are such.
LEMMA AU915Fits ==
  /\ AU915!Plan!Header
  /\ \A dwell \in {0, 1}, dr \in 0 .. AU915!TX_MAX_DATARATE :
       AU915!ApplyDrOffset(dwell, dr, 0) \in AU915!RX_MIN_DATARATE .. AU915!RX_MAX_DATARATE
  /\ AU915!Plan!WithinEirp /\ AU915!UPDATES_TIME_OFF \in BOOLEAN
<1>1. /\ AU915!TX_MIN_DATARATE = 0 /\ AU915!TX_MAX_DATARATE = 6
      /\ AU915!RX_MIN_DATARATE = 8 /\ AU915!RX_MAX_DATARATE = 13 /\ AU915!RX_WND_2_DR = 8
      /\ AU915!MAX_EIRP = 3000 /\ AU915!ANTENNA_GAIN = 215 /\ AU915!MAX_TX_POWER = 0
  BY DEF AU915!TX_MIN_DATARATE, AU915!TX_MAX_DATARATE, AU915!RX_MIN_DATARATE, AU915!RX_MAX_DATARATE,
         AU915!RX_WND_2_DR, AU915!MAX_EIRP, AU915!ANTENNA_GAIN, AU915!MAX_TX_POWER
<1>2. AU915!MAX_NB_CHANNELS = 72 /\ AU915!Plan!ChannelIds = 0 .. 71
  BY DEF AU915!MAX_NB_CHANNELS, AU915!Plan!ChannelIds
<1>3. AU915!Plan!Tables
  <2>1. AU915!BAND_DCYCLE \in [{0} -> {1}]
    BY DEF AU915!BAND_DCYCLE, AU915!Table
  <2>2. AU915!JOIN_CHANNELS = 0 .. 71 /\ AU915!DUTY_CYCLE_ENABLED = FALSE
    BY DEF AU915!JOIN_CHANNELS, AU915!DEFAULT_MASK, AU915!DUTY_CYCLE_ENABLED
  <2>3. ASSUME NEW c \in 0 .. 71
        PROVE  /\ AU915!LC[c] \in [freq : Nat, rx1 : Nat, min : 0 .. 6, max : 0 .. 6, band : {0}]
               /\ AU915!LC[c].min <= AU915!LC[c].max
    BY DEF AU915!LC, AU915!Channel
  <2>4. AU915!LC \in [0 .. 71 -> [freq : Nat, rx1 : Nat, min : 0 .. 6, max : 0 .. 6, band : {0}]]
    <3>1. AU915!LC = [c \in 0 .. 71 |-> AU915!LC[c]]
      BY DEF AU915!LC
    <3> QED  BY <2>3, <3>1
  <2>5. \A c \in 0 .. 71 : AU915!LC[c].min <= AU915!LC[c].max
    BY <2>3
  <2> QED  BY <1>1, <1>2, <2>1, <2>2, <2>4, <2>5, Zenon DEF AU915!Plan!Tables, AU915!Plan!OneBand
<1>4. AU915!Plan!DataRates
  <2>1. \A dwell \in {0, 1} : AU915!Plan!LowestTxDr(dwell) = 0 /\ AU915!Plan!LowestRxDr(dwell) = 8
    BY <1>1 DEF AU915!Plan!LowestTxDr, AU915!Plan!LowestRxDr, AU915!Plan!Limits, AU915!Plan!Max,
                AU915!DWELL_LIMIT_DATARATES
  <2>2. AU915!Plan!LowestRxDr(0) = 8
    BY <2>1
  <2>3. \A dr \in -128 .. 127 : AU915!GetNextLowerTxDr(dr, 0) \in -128 .. 127
    BY DEF AU915!GetNextLowerTxDr, AU915!Int8
  <2>4. \A dr \in 8 .. 13 :
          \/ AU915!DATARATES[dr] = 50
          \/ AU915!Plan!SymbolTime(AU915!DATARATES[dr], AU915!BANDWIDTHS[dr]) \in Nat \ {0}
    BY DEF AU915!DATARATES, AU915!BANDWIDTHS, AU915!Table, AU915!Plan!SymbolTime, AU915!Plan!Chips
  <2>5. ASSUME NEW dwell \in {0, 1}, NEW dr \in -128 .. 127
        PROVE  AU915!GetNextLowerTxDr(dr, AU915!Plan!LowestTxDr(dwell)) \in -128 .. 127
    <3>1. AU915!Plan!LowestTxDr(dwell) = 0
      BY <2>1
    <3> QED  BY <2>3, <3>1, Zenon
  <2>6. /\ AU915!TX_MIN_DATARATE \in 0 .. AU915!TX_MAX_DATARATE /\ AU915!TX_MAX_DATARATE \in 0 .. 15
        /\ AU915!RX_MIN_DATARATE = AU915!Plan!LowestRxDr(0) /\ AU915!RX_MIN_DATARATE \in 0 .. 15
        /\ AU915!RX_MAX_DATARATE \in 0 .. 15
    BY <1>1, <2>2
  <2>7. \A dwell \in {0, 1} : /\ AU915!Plan!LowestRxDr(dwell) \in AU915!RX_MIN_DATARATE .. 15
                               /\ AU915!Plan!LowestTxDr(dwell) \in 0 .. 15
    BY <1>1, <2>1
  <2>8. \A dr \in AU915!RX_MIN_DATARATE .. AU915!RX_MAX_DATARATE :
          \/ AU915!DATARATES[dr] = 50
          \/ AU915!Plan!SymbolTime(AU915!DATARATES[dr], AU915!BANDWIDTHS[dr]) \in Nat \ {0}
    BY <1>1, <2>4
  <2> QED  BY <2>5, <2>6, <2>7, <2>8, Zenon DEF AU915!Plan!DataRates
<1>5. AU915!Plan!Defaults
  BY <1>1 DEF AU915!Plan!Defaults, AU915!DEFAULT_DATARATE, AU915!NB_JOIN_TRIALS, AU915!DUTY_CYCLE_ENABLED,
              AU915!RX_WND_2_FREQ
<1>6. \A power \in Int : \A dr, mask : AU915!LimitTxPower(power, dr, mask) \in Nat
  BY <1>1 DEF AU915!LimitTxPower, AU915!Max
<1>7. AU915!Plan!Functions
  <2>1. \A n \in {0, 1} : AU915!JOIN_RATES[n] \in 0 .. 15
    BY DEF AU915!JOIN_RATES, AU915!Table
  <2>2. \A freq : AU915!Budget(freq, AU915!MAX_EIRP, AU915!ANTENNA_GAIN) \in Int
    BY <1>1 DEF AU915!Budget
  <2> QED  BY <1>6, <2>1, <2>2 DEF AU915!Plan!Functions, AU915!Plan!Powers
<1>8. AU915!Plan!Masks
  <2>1. \A mask : AU915!Plan!Kept(mask) <=> mask \in SUBSET (0 .. 71)
    BY <1>2 DEF AU915!Plan!Kept, AU915!JoinMask
  <2>2. AU915!DEFAULT_MASK = 0 .. 71
    BY DEF AU915!DEFAULT_MASK
  <2>3. \A mask : /\ AU915!RestoredMask(mask) = mask /\ AU915!JoinMask(mask) = mask
                  /\ AU915!CheckedMask(mask) \subseteq {mask} /\ AU915!AdrMask(mask) = {mask}
                  /\ AU915!Reenabled(mask) = AU915!DEFAULT_MASK
    BY DEF AU915!RestoredMask, AU915!JoinMask, AU915!CheckedMask, AU915!AdrMask, AU915!Reenabled
  <2>4. AU915!Plan!Kept(AU915!DEFAULT_MASK)
    BY <2>1, <2>2
  <2>5. ASSUME NEW mask \in SUBSET (0 .. 71)
        PROVE  /\ AU915!Plan!Kept(AU915!RestoredMask(mask))
               /\ \A m \in AU915!CheckedMask(mask) \cup AU915!AdrMask(mask) : AU915!Plan!Kept(m)
    <3>1. AU915!Plan!Kept(mask)
      BY <2>1
    <3>2. /\ AU915!CheckedMask(mask) \cup AU915!AdrMask(mask) \subseteq {mask}
          /\ AU915!RestoredMask(mask) = mask
      BY <2>3
    <3> QED  BY <3>1, <3>2
  <2>6. \A mask : AU915!Plan!Kept(mask) => /\ AU915!Plan!Kept(AU915!JoinMask(mask))
                                         /\ AU915!Plan!Kept(AU915!Reenabled(mask))
                                         /\ mask \subseteq AU915!Reenabled(mask)
    BY <2>1, <2>2, <2>3
  <2> QED  BY <1>2, <2>4, <2>5, <2>6 DEF AU915!Plan!Masks
<1>9. ASSUME NEW dwell, NEW dr \in 0 .. 6
      PROVE  AU915!ApplyDrOffset(dwell, dr, 0) \in 8 .. 13
  <2>1. AU915!DATARATE_OFFSETS[dr][0] \in 8 .. 13
    BY DEF AU915!DATARATE_OFFSETS, AU915!Table
  <2> QED  BY <2>1 DEF AU915!ApplyDrOffset, AU915!Plan!ApplyDrOffset, AU915!Plan!Max
<1>10. AU915!Plan!WithinEirp
  BY <1>1 DEF AU915!Plan!WithinEirp, AU915!Budget
<1> QED  BY <1>1, <1>3, <1>4, <1>5, <1>7, <1>8, <1>9, <1>10 DEF AU915!Plan!Header, AU915!UPDATES_TIME_OFF

CN470 == INSTANCE RegionCN470

\* The header and the functions of CN470 are such.
LEMMA CN470Fits ==
  /\ CN470!Plan!Header
  /\ \A dwell \in {0, 1}, dr \in 0 .. CN470!TX_MAX_DATARATE :
       CN470!ApplyDrOffset(dwell, dr, 0) \in CN470!RX_MIN_DATARATE .. CN470!RX_MAX_DATARATE
<1>1. /\ CN470!TX_MIN_DATARATE = 0 /\ CN470!TX_MAX_DATARATE = 5
      /\ CN470!RX_MIN_DATARATE = 0 /\ CN470!RX_MAX_DATARATE = 5 /\ CN470!RX_WND_2_DR = 0
      /\ CN470!MAX_EIRP = 1915 /\ CN470!ANTENNA_GAIN = 215 /\ CN470!MAX_TX_POWER = 0
  BY DEF CN470!TX_MIN_DATARATE, CN470!TX_MAX_DATARATE, CN470!RX_MIN_DATARATE, CN470!RX_MAX_DATARATE,
         CN470!RX_WND_2_DR, CN470!MAX_EIRP, CN470!ANTENNA_GAIN, CN470!MAX_TX_POWER
<1>2. /\ CN470!MAX_NB_CHANNELS = 96 /\ CN470!Plan!ChannelIds = 0 .. 95
      /\ CN470!DEFAULT_MASK = 0 .. 95
  BY DEF CN470!MAX_NB_CHANNELS, CN470!Plan!ChannelIds, CN470!DEFAULT_MASK
<1>3. CN470!Plan!Tables
  <2>1. CN470!BAND_DCYCLE \in [{0} -> {1}]
    BY DEF CN470!BAND_DCYCLE, CN470!Table
  <2>2. CN470!JOIN_CHANNELS = 0 .. 95 /\ CN470!DUTY_CYCLE_ENABLED = FALSE
    BY <1>2 DEF CN470!JOIN_CHANNELS, CN470!DUTY_CYCLE_ENABLED
  <2>3. ASSUME NEW c \in 0 .. 95
        PROVE  /\ CN470!LC[c] \in [freq : Nat, rx1 : Nat, min : 0 .. 5, max : 0 .. 5, band : {0}]
               /\ CN470!LC[c].min <= CN470!LC[c].max
    BY DEF CN470!LC, CN470!Channel
  <2>4. CN470!LC \in [0 .. 95 -> [freq : Nat, rx1 : Nat, min : 0 .. 5, max : 0 .. 5, band : {0}]]
    <3>1. CN470!LC = [c \in 0 .. 95 |-> CN470!LC[c]]
      BY DEF CN470!LC
    <3> QED  BY <2>3, <3>1
  <2>5. \A c \in 0 .. 95 : CN470!LC[c].min <= CN470!LC[c].max
    BY <2>3
  <2> QED  BY <1>1, <1>2, <2>1, <2>2, <2>4, <2>5, Zenon DEF CN470!Plan!Tables, CN470!Plan!OneBand
<1>4. CN470!Plan!DataRates
  <2>1. \A dwell \in {0, 1} : CN470!Plan!LowestTxDr(dwell) = 0 /\ CN470!Plan!LowestRxDr(dwell) = 0
    BY <1>1 DEF CN470!Plan!LowestTxDr, CN470!Plan!LowestRxDr, CN470!Plan!Limits, CN470!Plan!Max,
                CN470!DWELL_LIMIT_DATARATES
  <2>2. CN470!Plan!LowestRxDr(0) = 0
    BY <2>1
  <2>3. \A dr \in -128 .. 127 : CN470!GetNextLowerTxDr(dr, 0) \in -128 .. 127
    BY DEF CN470!GetNextLowerTxDr, CN470!Int8
  <2>4. \A dr \in 0 .. 5 :
          \/ CN470!DATARATES[dr] = 50
          \/ CN470!Plan!SymbolTime(CN470!DATARATES[dr], CN470!BANDWIDTHS[dr]) \in Nat \ {0}
    BY DEF CN470!DATARATES, CN470!BANDWIDTHS, CN470!Table, CN470!Plan!SymbolTime, CN470!Plan!Chips
  <2>5. ASSUME NEW dwell \in {0, 1}, NEW dr \in -128 .. 127
        PROVE  CN470!GetNextLowerTxDr(dr, CN470!Plan!LowestTxDr(dwell)) \in -128 .. 127
    <3>1. CN470!Plan!LowestTxDr(dwell) = 0
      BY <2>1
    <3> QED  BY <2>3, <3>1, Zenon
  <2>6. /\ CN470!TX_MIN_DATARATE \in 0 .. CN470!TX_MAX_DATARATE /\ CN470!TX_MAX_DATARATE \in 0 .. 15
        /\ CN470!RX_MIN_DATARATE = CN470!Plan!LowestRxDr(0) /\ CN470!RX_MIN_DATARATE \in 0 .. 15
        /\ CN470!RX_MAX_DATARATE \in 0 .. 15
    BY <1>1, <2>2
  <2>7. \A dwell \in {0, 1} : /\ CN470!Plan!LowestRxDr(dwell) \in CN470!RX_MIN_DATARATE .. 15
                               /\ CN470!Plan!LowestTxDr(dwell) \in 0 .. 15
    BY <1>1, <2>1
  <2>8. \A dr \in CN470!RX_MIN_DATARATE .. CN470!RX_MAX_DATARATE :
          \/ CN470!DATARATES[dr] = 50
          \/ CN470!Plan!SymbolTime(CN470!DATARATES[dr], CN470!BANDWIDTHS[dr]) \in Nat \ {0}
    BY <1>1, <2>4
  <2> QED  BY <2>5, <2>6, <2>7, <2>8, Zenon DEF CN470!Plan!DataRates
<1>5. CN470!Plan!Defaults
  BY <1>1 DEF CN470!Plan!Defaults, CN470!DEFAULT_DATARATE, CN470!NB_JOIN_TRIALS,
              CN470!DUTY_CYCLE_ENABLED, CN470!RX_WND_2_FREQ
<1>6. CN470!Plan!Functions
  <2>1. \A power \in Int : \A dr, mask : CN470!LimitTxPower(power, dr, mask) \in Nat
    BY <1>1 DEF CN470!LimitTxPower, CN470!Max
  <2>2. \A freq : /\ CN470!Budget(freq, CN470!MAX_EIRP, CN470!ANTENNA_GAIN) \in Int
                  /\ CN470!Budget(freq, CN470!MAX_EIRP, CN470!ANTENNA_GAIN)
                       <= CN470!MAX_EIRP - CN470!ANTENNA_GAIN
    BY <1>1 DEF CN470!Budget
  <2>3. \A mask : CN470!Reenabled(mask) = CN470!DEFAULT_MASK
    BY DEF CN470!Reenabled
  <2> QED  BY <2>1, <2>2, <2>3 DEF CN470!Plan!Functions, CN470!Plan!Powers, CN470!Plan!WithinEirp
<1>7. ASSUME NEW dwell, NEW dr \in 0 .. 5  PROVE CN470!ApplyDrOffset(dwell, dr, 0) \in 0 .. 5
  BY DEF CN470!ApplyDrOffset, CN470!Plan!ApplyDrOffset, CN470!Plan!Max
<1> QED  BY <1>1, <1>3, <1>4, <1>5, <1>6, <1>7 DEF CN470!Plan!Header

\* The four files with a fixed table are regions of HoppingPlansKeepContract and
\* FlatPlanKeepsContract: what these ask of a header holds for the constants and
\* functions of each, those of US915 lower the power as its rules ask, and that
\* of AU915 stays below its EIRP.
THEOREM FixedHeadersFit ==
  /\ US915!Plan!Header /\ US915_HYBRID!Plan!Header /\ AU915!Plan!Header
  /\ US915!Plan!Lowered /\ US915_HYBRID!Plan!Lowered /\ AU915!Plan!WithinEirp
  /\ CN470!Plan!Header
  BY US915Fits, US915_HYBRIDFits, AU915Fits, CN470Fits
=============================================================================
