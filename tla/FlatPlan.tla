------------------------------ MODULE FlatPlan ------------------------------
(***************************************************************************)
(* CN470: a channel table that never changes and no hopping.  A device that *)
(* finds all channels disabled enables them again.                          *)
(***************************************************************************)
EXTENDS FixedTable

InitDefaults(g, type) ==
  IF type = "RESTORE" THEN [g EXCEPT !.mask = g.defaultMask]
  ELSE [g EXCEPT !.channels = LC, !.defaultMask = DEFAULT_MASK, !.mask = DEFAULT_MASK]

ChanMaskSet(g, type, mask) ==
  [ok |-> TRUE, g |-> IF type = "CHANNELS_MASK" THEN [g EXCEPT !.mask = mask]
                                               ELSE [g EXCEPT !.defaultMask = mask]]

Written(req) ==
  CASE req.ctrl = 6 -> [c \in DEFAULT_MASK |-> TRUE]
    [] req.ctrl = 7 -> <<>>
    [] OTHER -> [c \in Word(req.ctrl) |-> c - 16 * req.ctrl \in req.mask]
LinkAdrReq(g, reqs) ==
  LET req     == Last(reqs)
      mask    == MaskOfBlock(g.mask, reqs, Written)
      refused == Cleared([mask  |-> req.ctrl # 7,
                          dr    |-> ChanVerifyDr(MAX_NB_CHANNELS, mask, req.dr, TX_MIN_DATARATE,
                                                 TX_MAX_DATARATE, g.channels),
                          power |-> ValueInRange(req.power, MAX_TX_POWER, MIN_TX_POWER)])
  IN  [refused |-> refused, dr |-> req.dr, power |-> req.power,
       nbRep   |-> IF req.nbRep = 0 THEN 1 ELSE req.nbRep,
       g       |-> IF refused = {} THEN [g EXCEPT !.mask = mask] ELSE g]

AlternateDr(g, nbTrials) == [g |-> g, dr |-> JoinRate(nbTrials)]

NextChannel(g, p) ==
  LET awake   == IF g.mask = {} THEN [g EXCEPT !.mask = DEFAULT_MASK] ELSE g
      rested  == p.aggrTimeOff <= p.sinceAggr
      updated == UpdateBandTimeOff(p.joined, p.dutyCycle, g.bands)
      g1      == IF rested THEN [awake EXCEPT !.bands = updated.bands] ELSE awake
      found   == IF rested THEN CountNbOfEnabledChannels(g1, g1.mask, p.joined, p.dr)
                 ELSE [enabled |-> {}, delayTx |-> TRUE]
      delay   == IF rested THEN updated.delay ELSE p.aggrTimeOff - p.sinceAggr
      aggr    == IF rested THEN 0 ELSE p.aggrTimeOff
      result(ok, wait, c) ==
        [ok |-> ok, delay |-> wait, channel |-> c, g |-> g1, aggrTimeOff |-> aggr]
  IN  IF found.enabled # {} THEN {result(TRUE, 0, c) : c \in Draws(found.enabled)}
      ELSE IF found.delayTx THEN {result(TRUE, delay, p.channel)}
      ELSE {result(FALSE, 0, p.channel)}

ApplyDrOffset(dr, drOffset) == Max({dr - drOffset, 0})
-----------------------------------------------------------------------------
(* What the file gives: 96 channels, all enabled at first.                  *)
Tables == MAX_NB_CHANNELS = 96 /\ DEFAULT_MASK = ChannelIds /\ OneBand
Functions == Powers /\ WithinEirp /\ \A mask : Reenabled(mask) = DEFAULT_MASK
Header == Tables /\ DataRates /\ Defaults /\ Functions
=============================================================================
