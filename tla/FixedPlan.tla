----------------------------- MODULE FixedPlan -----------------------------
(***************************************************************************)
(* The regions whose channel table never changes and whose devices hop:     *)
(* US915, its hybrid form and AU915.  The channels 0 .. 63 are the narrow   *)
(* ones (125 kHz), 64 .. 71 the wide ones (500 kHz).  remaining holds the   *)
(* enabled channels that the current round of hops has not used yet.        *)
(***************************************************************************)
EXTENDS FixedTable

CONSTANTS
  DATARATE_OFFSETS,         \* uplink rate -> offset -> downlink rate
  JOIN_RATES,               \* the rates of the odd and even join attempts
  UPDATES_TIME_OFF,         \* NextChannel clears the rests that are over
  RestoredMask(_),          \* the mask a RESTORE installs, from the default
  CheckedMask(_),           \* what the application's mask becomes, in a set, or {}
  AdrMask(_),               \* what the network's mask becomes, in a set, or {}
  JoinMask(_)               \* what a join attempt makes of the mask

Narrow == 0 .. MAX_NB_CHANNELS - 9
Wide == MAX_NB_CHANNELS - 8 .. MAX_NB_CHANNELS - 1

InitDefaults(g, type) ==
  IF type = "RESTORE"
  THEN [g EXCEPT !.mask = RestoredMask(g.defaultMask),
                 !.remaining = @ \cap RestoredMask(g.defaultMask)]
  ELSE [g EXCEPT !.channels = LC, !.defaultMask = DEFAULT_MASK, !.mask = DEFAULT_MASK,
                 !.remaining = DEFAULT_MASK]

ChanMaskSet(g, type, mask) ==
  IF CheckedMask(mask) = {} THEN [ok |-> FALSE, g |-> g]
  ELSE LET new == CHOOSE m \in CheckedMask(mask) : TRUE
       IN  [ok |-> TRUE,
            g  |-> IF type = "CHANNELS_MASK"
                   THEN [g EXCEPT !.mask = new, !.remaining = @ \cap new]
                   ELSE [g EXCEPT !.defaultMask = new]]

\* Faulty: takes the controls 6 and 7 for words of the mask.
WrittenPlain(req) == [c \in Word(req.ctrl) |-> c - 16 * req.ctrl \in req.mask]

(* The request with control 6 enables the narrow channels, 7 disables them, *)
(* and both set the wide ones; 0 .. 4 set one word of the mask.             *)
Written(req) ==
  CASE req.ctrl = 6 -> [c \in 0 .. 79 |-> c < 64 \/ c - 64 \in req.mask]
    [] req.ctrl = 7 -> [c \in 0 .. 79 |-> c >= 64 /\ c - 64 \in req.mask]
    [] req.ctrl = 5 -> <<>>
    [] OTHER -> [c \in Word(req.ctrl) |-> c - 16 * req.ctrl \in req.mask]

(* The last request of a block gives the rate and the power.                *)
LinkAdrReq(g, reqs) ==
  LET req     == Last(reqs)
      asked   == MaskOfBlock(g.mask, reqs, Written)
      mask    == IF AdrMask(asked) = {} THEN asked ELSE CHOOSE m \in AdrMask(asked) : TRUE
      refused == Cleared([mask  |-> /\ req.ctrl # 5 /\ AdrMask(asked) # {}
                                    /\ req.dr < 4 => CountChannels(asked, 0, 4) >= 2,
                          dr    |-> ChanVerifyDr(MAX_NB_CHANNELS, mask, req.dr, TX_MIN_DATARATE,
                                                 TX_MAX_DATARATE, g.channels),
                          power |-> ValueInRange(req.power, MAX_TX_POWER, MIN_TX_POWER)])
  IN  [refused |-> refused, dr |-> req.dr, power |-> req.power,
       nbRep   |-> IF req.nbRep = 0 THEN 1 ELSE req.nbRep,
       g       |-> IF refused # {} THEN g
                   ELSE [g EXCEPT !.mask = mask,
                                  !.remaining = (@ \cap mask \cap Narrow) \cup (mask \ Narrow)]]

AlternateDr(g, nbTrials) ==
  [g |-> [g EXCEPT !.mask = JoinMask(@)], dr |-> JOIN_RATES[nbTrials % 2]]

(* A narrow channel that was picked is not picked again in the same round.  *)
NextChannel(g, p) ==
  LET left    == g.remaining
                   \cup (IF CountChannels(g.remaining, 0, 4) = 0 THEN g.mask \cap Narrow ELSE {})
                   \cup (IF p.dr >= 4 /\ g.remaining \cap Wide = {} THEN g.mask \cap Wide ELSE {})
      rested  == p.aggrTimeOff <= p.sinceAggr
      updated == UpdateBandTimeOff(p.joined, p.dutyCycle, g.bands)
      g1      == [g EXCEPT !.remaining = left,
                           !.bands = IF rested /\ UPDATES_TIME_OFF THEN updated.bands ELSE @]
      found   == IF rested THEN CountNbOfEnabledChannels(g1, left, p.joined, p.dr)
                 ELSE [enabled |-> {}, delayTx |-> TRUE]
      delay   == CASE ~rested -> p.aggrTimeOff - p.sinceAggr
                   [] rested /\ UPDATES_TIME_OFF -> updated.delay
                   [] OTHER -> 0
      aggr    == IF rested THEN 0 ELSE p.aggrTimeOff
  IN  IF found.enabled # {}
      THEN {[ok |-> TRUE, delay |-> 0, channel |-> c, aggrTimeOff |-> aggr,
             g  |-> [g1 EXCEPT !.remaining = ChanDisable(@, c, MAX_NB_CHANNELS - 8)]]
               : c \in Draws(found.enabled)}
      ELSE {[ok |-> found.delayTx, delay |-> IF found.delayTx THEN delay ELSE 0,
             channel |-> p.channel, aggrTimeOff |-> aggr, g |-> g1]}

ApplyDrOffset(dr, drOffset) == Max({DATARATE_OFFSETS[dr][drOffset], 0})
-----------------------------------------------------------------------------
(* What the files give: 72 channels, and masks of these that an attempt to  *)
(* join does not shrink.                                                    *)
Tables == MAX_NB_CHANNELS = 72 /\ OneBand
Kept(mask) == mask \in SUBSET ChannelIds /\ mask \subseteq JoinMask(mask)
Masks ==
  /\ Kept(DEFAULT_MASK)
  /\ \A mask : Kept(mask) => /\ Kept(JoinMask(mask)) /\ Kept(Reenabled(mask))
                            /\ mask \subseteq Reenabled(mask)
  /\ \A mask \in SUBSET ChannelIds :
       /\ Kept(RestoredMask(mask))
       /\ \A m \in CheckedMask(mask) \cup AdrMask(mask) : Kept(m)
Functions == Powers /\ \A n \in {0, 1} : JOIN_RATES[n] \in 0 .. 15
Header == Tables /\ Masks /\ DataRates /\ Defaults /\ Functions

(* The power that the rules of the 915 MHz band leave to wide channels, and *)
(* to devices with fewer than 50 narrow ones.                               *)
Lowered ==
  /\ ANTENNA_GAIN = 0 /\ \A freq, eirp, gain : Budget(freq, eirp, gain) = 3000
  /\ \A power \in Int, dr \in 0 .. TX_MAX_DATARATE : \A mask :
       /\ BANDWIDTHS[dr] = 500 => LimitTxPower(power, dr, mask) >= 2
       /\ BANDWIDTHS[dr] = 125 /\ CountChannels(mask, 0, 4) < 50 =>
            LimitTxPower(power, dr, mask) >= 5
=============================================================================
