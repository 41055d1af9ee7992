----------------------------- MODULE FixedTable -----------------------------
(***************************************************************************)
(* What the regions share whose channel table never changes: one band       *)
(* without a duty cycle, downlinks on a raster, commands that are refused.  *)
(***************************************************************************)
EXTENDS PlanCommon

CONSTANTS FIRST_RX1_CHANNEL, LAST_RX1_CHANNEL, STEPWIDTH_RX1_CHANNEL

RxParamSetupReq(drOffset, dr, freq) ==
  Cleared([freq   |-> /\ ValueInRange(freq, FIRST_RX1_CHANNEL, LAST_RX1_CHANNEL)
                      /\ (freq - FIRST_RX1_CHANNEL) % STEPWIDTH_RX1_CHANNEL = 0,
           dr     |-> ValueInRange(dr, RX_MIN_DATARATE, RX_MAX_DATARATE),
           offset |-> ValueInRange(drOffset, 0, MAX_RX1_DR_OFFSET)])

(* The network may not edit the table.                                      *)
NewChannelReq(g, id, new) == [refused |-> {"freq", "dr"}, g |-> g]
DlChannelReq(g, id, rx1) == [refused |-> {"freq", "uplink"}, g |-> g]
ChannelAdd(g, id, new) == [refused |-> {"freq", "dr"}, g |-> g]

(* The status code returned as a bool is not zero: the removal, which does  *)
(* nothing, reports success.                                                *)
ChannelsRemove(g, id) == [ok |-> TRUE, g |-> g]

CalcBackOff(g, b) ==
  [g EXCEPT !.bands[g.channels[b.channel].band].timeOff =
     IF b.joined THEN 0 ELSE b.airTime * GetJoinDc(b.age) - b.airTime]
-----------------------------------------------------------------------------
(* What the files give: one band, channels of it, and powers.               *)
OneBand ==
  /\ JOIN_CHANNELS = ChannelIds
  /\ BAND_DCYCLE \in [{0} -> {1}] /\ DUTY_CYCLE_ENABLED = FALSE
  /\ LC \in [ChannelIds -> [freq : Nat, rx1 : Nat, min : 0 .. TX_MAX_DATARATE,
                            max : 0 .. TX_MAX_DATARATE, band : {0}]]
  /\ \A c \in ChannelIds : LC[c].min <= LC[c].max
Powers ==
  /\ \A power \in Int : \A dr, mask : LimitTxPower(power, dr, mask) \in Nat
  /\ \A freq : Budget(freq, MAX_EIRP, ANTENNA_GAIN) \in Int
WithinEirp == \A freq : Budget(freq, MAX_EIRP, ANTENNA_GAIN) <= MAX_EIRP - ANTENNA_GAIN
=============================================================================
