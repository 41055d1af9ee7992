---------------------------- MODULE DynamicPlan ----------------------------
(***************************************************************************)
(* The regions whose channel table the network edits: EU868, EU433, CN779,  *)
(* IN865, KR920 and AS923.  Their files are one text with other constants,  *)
(* a few functions of their own and, in two of them, a carrier sense; the   *)
(* constants of this module are what differs.                               *)
(***************************************************************************)
EXTENDS PlanCommon

CONSTANTS NUMB_DEFAULT_CHANNELS, NUMB_CHANNELS_CF_LIST,
          LISTEN_BEFORE_TALK, DEFAULT_RANGE_FIXED,
          VerifyTxFreq(_)   \* the band of a frequency, in a set, or no band

InitDefaults(g, type) ==
  IF type = "RESTORE" THEN [g EXCEPT !.mask = @ \cup g.defaultMask]
  ELSE [g EXCEPT !.channels = [c \in ChannelIds |-> IF c \in DOMAIN LC THEN LC[c] ELSE g.channels[c]],
                 !.defaultMask = DEFAULT_MASK, !.mask = DEFAULT_MASK]

ChanMaskSet(g, type, mask) ==
  [ok |-> TRUE, g |-> IF type = "CHANNELS_MASK" THEN [g EXCEPT !.mask = mask]
                                               ELSE [g EXCEPT !.defaultMask = mask]]

(* A block of consecutive LinkADRReq: the last one alone decides.           *)
LinkAdrReq(g, reqs) ==
  LET req     == Last(reqs)
      defined == {c \in ChannelIds : g.channels[c].freq # 0}
      mask    == IF req.ctrl = 6 THEN req.mask \cup defined ELSE req.mask
      refused == Cleared([mask  |-> \/ req.ctrl = 6
                                    \/ /\ req.ctrl = 0 /\ req.mask # {}
                                       /\ req.mask \subseteq defined,
                          dr    |-> ChanVerifyDr(MAX_NB_CHANNELS, mask, req.dr, TX_MIN_DATARATE,
                                                 TX_MAX_DATARATE, g.channels),
                          power |-> ValueInRange(req.power, MAX_TX_POWER, MIN_TX_POWER)])
  IN  [refused |-> refused, dr |-> req.dr, power |-> req.power,
       nbRep   |-> IF req.nbRep = 0 THEN 1 ELSE req.nbRep,
       g       |-> IF refused = {} THEN [g EXCEPT !.mask = mask] ELSE g]

RxParamSetupReq(drOffset, dr, freq) ==
  Cleared([dr     |-> ValueInRange(dr, RX_MIN_DATARATE, RX_MAX_DATARATE),
           offset |-> ValueInRange(drOffset, 0, MAX_RX1_DR_OFFSET)])

(* A default channel keeps its frequency and, but for KR920, the rates      *)
(* DR_0 .. DR_5.                                                            *)
ChannelAdd(g, id, new) ==
  LET default == id < NUMB_DEFAULT_CHANNELS
      rangeOk == /\ ValueInRange(new.min, TX_MIN_DATARATE, TX_MAX_DATARATE)
                 /\ ValueInRange(new.max, TX_MIN_DATARATE, TX_MAX_DATARATE)
                 /\ new.min <= new.max
                 /\ default /\ DEFAULT_RANGE_FIXED =>
                      new.min = 0 /\ ValueInRange(new.max, 5, TX_MAX_DATARATE)
      freqOk  == /\ default => new.freq = g.channels[id].freq
                 /\ VerifyTxFreq(new.freq) # {}
      refused == IF id \in ChannelIds THEN Cleared([freq |-> freqOk, dr |-> rangeOk])
                                      ELSE {"freq", "dr"}
  IN  [refused |-> refused,
       g |-> IF refused # {} THEN g
             ELSE [g EXCEPT !.channels[id] = [new EXCEPT !.band = Min(VerifyTxFreq(new.freq))],
                            !.mask = @ \cup {id}]]

ChannelsRemove(g, id) ==
  IF id < NUMB_DEFAULT_CHANNELS THEN [ok |-> FALSE, g |-> g]
  ELSE [ok |-> TRUE, g |-> [g EXCEPT !.channels[id] = NoChannel,
                                     !.mask = ChanDisable(@, id, MAX_NB_CHANNELS)]]

NewChannelReq(g, id, new) ==
  IF new.freq # 0 THEN ChannelAdd(g, id, new)
  ELSE [refused |-> IF ChannelsRemove(g, id).ok THEN {} ELSE {"freq", "dr"},
        g       |-> ChannelsRemove(g, id).g]

DlChannelReq(g, id, rx1) ==
  LET refused == Cleared([freq   |-> VerifyTxFreq(rx1) # {},
                          uplink |-> g.channels[id].freq # 0])
  IN  [refused |-> refused,
       g |-> IF refused = {} THEN [g EXCEPT !.channels[id].rx1 = rx1] ELSE g]

(* The list of a join-accept fills the five channels after the default      *)
(* ones, a zero frequency removes one, and the rest of the table is erased. *)
(* What becomes of a channel depends on no other.                           *)
ApplyCFList(g, freqs) ==
  LET listed(id) == id < NUMB_DEFAULT_CHANNELS + NUMB_CHANNELS_CF_LIST
      freq(id)   == IF listed(id) THEN freqs[id - NUMB_DEFAULT_CHANNELS + 1] ELSE 0
      after(id)  ==
        IF id < NUMB_DEFAULT_CHANNELS THEN g
        ELSE IF freq(id) = 0 THEN ChannelsRemove(g, id).g
        ELSE ChannelAdd(g, id, [NoChannel EXCEPT !.freq = freq(id), !.max = 5]).g
  IN  IF Len(freqs) # NUMB_CHANNELS_CF_LIST THEN g
      ELSE [g EXCEPT !.channels = [id \in DOMAIN @ |-> after(id).channels[id]],
                     !.mask = {id \in ChannelIds : id \in after(id).mask}]

AlternateDr(g, nbTrials) == [g |-> g, dr |-> JoinRate(nbTrials)]

CalcBackOff(g, b) ==
  LET band    == g.channels[b.channel].band
      dCycle  == IF b.joined THEN BAND_DCYCLE[band]
                 ELSE Max({BAND_DCYCLE[band], GetJoinDc(b.age)})
      charged == ~b.joined \/ b.dutyCycle
  IN  [g EXCEPT !.bands[band].timeOff =
                  IF charged THEN b.airTime * dCycle - b.airTime ELSE 0]

(* Every result a call may have: a channel, a delay, or failure.  randr     *)
(* picks among the enabled channels; where the radio listens before it      *)
(* talks, one that is free, and none when all are busy.                     *)
NextChannel(g, p) ==
  LET awake   == IF g.mask = {} THEN [g EXCEPT !.mask = DEFAULT_MASK] ELSE g
      rested  == p.aggrTimeOff <= p.sinceAggr
      updated == UpdateBandTimeOff(p.joined, p.dutyCycle, g.bands)
      g1      == IF rested THEN [awake EXCEPT !.bands = updated.bands] ELSE awake
      found   == IF rested THEN CountNbOfEnabledChannels(g1, g1.mask, p.joined, p.dr)
                 ELSE [enabled |-> {}, delayTx |-> TRUE]
      aggr    == IF rested THEN 0 ELSE p.aggrTimeOff
      result(ok, delay, c, plan) ==
        [ok |-> ok, delay |-> delay, channel |-> c, g |-> plan, aggrTimeOff |-> aggr]
  IN  IF found.enabled # {}
      THEN {result(TRUE, 0, c, g1) : c \in Draws(found.enabled)}
             \cup (IF LISTEN_BEFORE_TALK THEN {result(FALSE, 0, p.channel, g1)} ELSE {})
      ELSE IF found.delayTx
      THEN {result(TRUE, IF rested THEN updated.delay ELSE p.aggrTimeOff - p.sinceAggr,
                   p.channel, g1)}
      ELSE {result(FALSE, 0, p.channel, [g1 EXCEPT !.mask = @ \cup DEFAULT_MASK])}

ApplyDrOffset(dr, drOffset) == Max({dr - drOffset, 0})
-----------------------------------------------------------------------------
(* What the files give: default channels in the middle of one band, rates    *)
(* that the tables know, functions that keep to these.                      *)
Tables ==
  /\ MAX_NB_CHANNELS \in Nat /\ 0 .. 15 \subseteq ChannelIds
  /\ NUMB_DEFAULT_CHANNELS \in 1 .. MAX_NB_CHANNELS
  /\ NUMB_CHANNELS_CF_LIST \in Nat
  /\ JOIN_CHANNELS = 0 .. NUMB_DEFAULT_CHANNELS - 1 /\ JOIN_CHANNELS \subseteq DOMAIN LC
  /\ DOMAIN LC \subseteq ChannelIds /\ DEFAULT_MASK \subseteq ChannelIds
  /\ 0 \in DOMAIN BAND_DCYCLE /\ DOMAIN BAND_DCYCLE \subseteq Nat
  /\ BAND_DCYCLE \in [DOMAIN BAND_DCYCLE -> Nat \ {0}]
  /\ \A c \in DOMAIN LC :
       /\ LC[c] \in [freq : Nat, rx1 : Nat, min : 0 .. TX_MAX_DATARATE, max : 0 .. TX_MAX_DATARATE,
                    band : DOMAIN BAND_DCYCLE]
       /\ LC[c].min <= LC[c].max
  /\ \A c \in JOIN_CHANNELS :
       LC[c].band = LC[0].band /\ VerifyTxFreq(LC[c].freq) = {LC[0].band}
Functions ==
  /\ \A freq \in Nat : \/ VerifyTxFreq(freq) = {}
                       \/ \E band \in DOMAIN BAND_DCYCLE : VerifyTxFreq(freq) = {band}
  /\ \A mask : Reenabled(mask) = mask \cup DEFAULT_MASK
  /\ \A power \in Int : \A dr, mask : LimitTxPower(power, dr, mask) \in Nat
  /\ \A freq, eirp \in Int, gain \in Nat :
       Budget(freq, eirp, gain) \in Int /\ Budget(freq, eirp, gain) <= eirp - gain
Header == Tables /\ DataRates /\ Defaults /\ Functions
=============================================================================
