---------------------------- MODULE ChannelPlan -----------------------------
(***************************************************************************)
(* LoRaMac.c at work on the regional layer: what a class A device sends, on *)
(* which channel, at which rate and power, and when; and what a network and *)
(* an application may change in between.  The procedure around it (flags,   *)
(* timers, confirms, class C) is the subject of module LoRaMac; here it is  *)
(* one phase.  The loop of ScheduleTx that looks for a channel is one step  *)
(* for each turn, as nothing bounds the number of its turns.                *)
(*                                                                          *)
(* Time is counted in frames: a frame is one unit on the air, and clocks    *)
(* stop counting at FOREVER, which no rest exceeds.                         *)
(***************************************************************************)
EXTENDS RegionContract

CONSTANTS
  Regions,          \* the regions a device may be built for
  AdrModes(_),      \* may AdrCtrlOn be set or not, in a region
  Rates,            \* data rates the application asks for
  PayloadLen,       \* length of its payloads
  FrameTypes(_),    \* "CONFIRMED", "UNCONFIRMED"
  ConfirmedTrials,  \* NbTrials of a confirmed uplink
  Attempts,         \* the numbers of the join attempts that are followed
  SilentUplinks(_), \* values of AdrAckCounter uplinks without answer lead to
  Durations(_),     \* times that may pass between two uplinks
  Accepts(_),       \* the contents of a join-accept in a region
  Commands(_),      \* what the network may ask for
  Settings(_),      \* what the application may ask for
  Tested,           \* the regions whose application asks for a carrier
  CAD_CNT_MAX,
  MAX_REQUESTS, MAX_EDITS    \* bounds

(* The application asks for existing channels; the network's commands hold   *)
(* what their fields can, names channels of the table and an offset only    *)
(* where the table of downlink rates has it.                                *)
ASSUME DeviceAssumption ==
  /\ Rates \subseteq Int /\ Attempts \subseteq Nat
  /\ \A r \in Regions :
       /\ AdrModes(r) \subseteq BOOLEAN /\ FrameTypes(r) \subseteq {"CONFIRMED", "UNCONFIRMED"}
       /\ SilentUplinks(r) \subseteq Nat /\ Durations(r) \subseteq Nat

Window == [freq : Nat, dr : 0 .. 15]

Setting(r, s) ==
  \/ s.kind = "MASK" /\ s.type \in {"CHANNELS_MASK", "CHANNELS_DEFAULT_MASK"} /\ s.mask \subseteq Ids(r)
  \/ s.kind = "ADD" /\ s.id \in Nat /\ s.channel \in ChannelOf(Nat, Nat)
  \/ s.kind = "REMOVE" /\ s.id \in Ids(r)
  \/ s.kind \in {"RX2", "DEFAULT_RX2"} /\ s.rx2 \in Window
ASSUME SettingsAssumption == \A r \in Regions : \A s \in Settings(r) : Setting(r, s)

Accept(r, a) == a.freqs \in Seq(Nat) /\ RxOffset(r, a.rx1Off) /\ RxRate(r, a.rx2Dr)
ASSUME AcceptsAssumption == \A r \in Regions : \A a \in Accepts(r) : Accept(r, a)

Command(r, c) ==
  \/ c.kind = "NONE"
  \/ c.kind = "LINK_ADR" /\ c.reqs \in Seq(Request(r)) /\ c.reqs # <<>>
  \/ c.kind = "DUTY_CYCLE" /\ c.max \in 0 .. 255 /\ (c.max # 255 => 2 ^ c.max \in Nat)
  \/ /\ c.kind = "RX_PARAM" /\ c.offset \in Nat /\ c.rx2 \in Window
     /\ RegionRxParamSetupReq(r, c.offset, c.rx2.dr, c.rx2.freq) = {} => RxOffset(r, c.offset)
  \/ c.kind = "NEW_CHANNEL" /\ c.id \in Ids(r) /\ c.channel \in ChannelOf(Nat, Nat)
  \/ c.kind = "DL_CHANNEL" /\ c.id \in Ids(r) /\ c.rx1 \in Nat
  \/ /\ c.kind = "TX_PARAM" /\ c.upDwell \in {0, 1} /\ c.downDwell \in {0, 1}
     /\ RegionTxParamSetupReq(r) # -1 => Eirp(r, c.maxEirp)
ASSUME CommandsAssumption == \A r \in Regions : \A c \in Commands(r) : Command(r, c)

VARIABLES
  region,           \* LoRaMacRegion
  g,                \* the regional file's static variables
  mac,              \* those of LoRaMac.c
  phase,            \* where the procedure stands
  radio,            \* what the radio was told last
  quiet,            \* history: the rests that regulations impose
  round             \* history: the narrow channels of this round of hops

vars == <<region, g, mac, phase, radio, quiet, round>>

FOREVER == 10000

LowestTxDr(dwell) ==
  RegionGetPhyParam(region, g, Query("PHY_MIN_TX_DR", 0, dwell))

-----------------------------------------------------------------------------
(* Resetting and initializing.                                              *)

ResetMacParameters(r, m) ==
  [m EXCEPT !.adrCounter = 0, !.rep = 0, !.tries = 1, !.maxDc = 0, !.aggrDc = 1,
            !.power = Default(r, "PHY_DEF_TX_POWER"), !.dr = Default(r, "PHY_DEF_TX_DR"),
            !.rx1Off = 0, !.rx2 = m.defRx2, !.upDwell = 0, !.downDwell = 0,
            !.maxEirp = Default(r, "PHY_DEF_MAX_EIRP"), !.channel = 0, !.lastTx = 0]

NoRx2(r) == [freq |-> Default(r, "PHY_DEF_RX2_FREQUENCY"), dr |-> Default(r, "PHY_DEF_RX2_DR")]

LoRaMacInitialization(r, adr) ==
  ResetMacParameters(r,
    [adr |-> adr, joined |-> FALSE, running |-> FALSE, dutyOn |-> Default(r, "PHY_DUTY_CYCLE"),
     age |-> "first_hour", adrCounter |-> 0, rep |-> 0, tries |-> 1, nbRep |-> 1,
     maxDc |-> 0, aggrDc |-> 1, power |-> 0, dr |-> 0, minDr |-> 0,
     rx1Off |-> 0, rx2 |-> NoRx2(r), defRx2 |-> NoRx2(r), upDwell |-> 0, downDwell |-> 0,
     maxEirp |-> 0, channel |-> 0, lastTx |-> 0, frame |-> "NONE", caller |-> "request",
     trials |-> 0, cad |-> 1, wait |-> 0, air |-> 0, aggrOff |-> 0, sinceAggr |-> 0,
     got |-> FALSE, win1 |-> <<>>, win2 |-> <<>>, requests |-> 0, edits |-> 0])

Init ==
  /\ region \in Regions
  /\ g = RegionInitDefaults(region, RegionBlank(region), "INIT")
  /\ \E adr \in AdrModes(region) : mac = LoRaMacInitialization(region, adr)
  /\ phase = "idle"
  /\ radio = <<>>
  /\ quiet = [bands  |-> [b \in DOMAIN RegionBandDCycle(region) |-> 0],
              factor |-> 0, join |-> 0]
  /\ round = {}

-----------------------------------------------------------------------------
(* History.  A search begins another round when every enabled narrow        *)
(* channel was used; one that is enabled in the middle of a round waits for *)
(* the next.                                                                *)

RoundAfter(new) ==
  IF region \in HopRegions THEN (round \cap new \cap Narrow) \cup ((new \ g.mask) \cap Narrow)
                           ELSE {}
RoundWith(channels) ==
  IF region \notin HopRegions THEN round
  ELSE (IF g.mask \cap Narrow \subseteq round THEN {} ELSE round) \cup (channels \cap Narrow)

(* Was the channel that ends the search picked?  AU915 may keep the old one. *)
Picked(plan, c) == plan.bands[plan.channels[c].band].timeOff = 0

(* The duty cycle of join requests as LoRaMac.c gives it: 1 % in the first  *)
(* hour of a device, 0.1 % in the next ten, 0.01 % from then on.            *)
BACKOFF_DC(age) ==
  CASE age = "first_hour" -> 100 [] age = "ten_hours" -> 1000 [] age = "later" -> 10000

(* What a frame owes: the duty cycle of its band, and a join request also    *)
(* what RegionCommon.c's factor and LoRaMac.c's duty cycle make of it.      *)
QuietWith(band) ==
  [bands  |-> [quiet.bands EXCEPT ![band] =
                 IF mac.dutyOn THEN RegionBandDCycle(region)[band] - 1 ELSE 0],
   factor |-> IF mac.frame = "JOIN" THEN GetJoinDc(mac.age) - 1 ELSE quiet.factor,
   join   |-> IF mac.frame = "JOIN" THEN BACKOFF_DC(mac.age) - 1 ELSE quiet.join]

(* The rest of a band is forgotten when the channel used last moves to      *)
(* another band, or is removed, before ScheduleTx has charged the band.     *)
QuietAfter(new) ==
  LET old == g.channels[mac.lastTx].band
  IN  IF new.channels[mac.lastTx].band = old THEN quiet ELSE [quiet EXCEPT !.bands[old] = 0]

(* The state s = [g, mac, phase] that a handler leaves.                     *)
Leave(s, quietNow) ==
  /\ g' = s.g /\ mac' = s.mac /\ phase' = s.phase
  /\ quiet' = quietNow /\ round' = RoundAfter(s.g.mask)
  /\ UNCHANGED region

-----------------------------------------------------------------------------
(* Sending.                                                                 *)

CalculateBackOff(new, m) ==
  [g   |-> RegionCalcBackOff(region, new,
             [channel |-> m.lastTx, joined |-> m.joined, dutyCycle |-> m.dutyOn,
              age |-> m.age, airTime |-> m.air]),
   mac |-> [m EXCEPT !.aggrOff = m.air * m.aggrDc - m.air]]

(* What ScheduleTx returns an error for: only a retry ends the procedure.   *)
Refused(m) == [m EXCEPT !.running = IF m.caller = "retry" THEN FALSE ELSE @]

(* ScheduleTx up to its loop.  It asks for the lowest rate under a dwell    *)
(* time that it never sets.                                                 *)
ScheduleTx(new, m) ==
  LET charged == CalculateBackOff(new, m)
  IN  IF m.maxDc = 255 THEN {[g |-> new, mac |-> Refused(m), phase |-> "idle"]}
      ELSE {[g     |-> charged.g, phase |-> "search",
             mac   |-> [charged.mac EXCEPT !.minDr = LowestTxDr(garbage)]]
              : garbage \in {0, 1}}

\* Faulty: starts again one rate below the highest one.
LowerRateBelowMax(m) ==
  [m EXCEPT !.dr = IF @ = m.minDr THEN Default(region, "PHY_MAX_TX_DR") - 1 ELSE Int8(@ - 1)]

LowerRate(m) ==
  [m EXCEPT !.dr = IF @ = m.minDr THEN Default(region, "PHY_MAX_TX_DR") ELSE Int8(@ - 1)]

ValidatePayloadLength(m) ==
  PayloadLen <= RegionGetPhyParam(region, g, Query("PHY_MAX_PAYLOAD", m.dr, m.upDwell))

(* LoRaMacParams.MinRxSymbols, SystemMaxRxError and the wake-up time of the *)
(* radio and its TCXO, in ms.                                               *)
MinRxSymbols == 6
SystemMaxRxError == 10
WakeUpTime == 4

WithWindows(m) ==
  [m EXCEPT !.win1 = RegionComputeRxWindowParameters(region, RegionApplyDrOffset(region, m.downDwell, m.dr, m.rx1Off),
                              MinRxSymbols, SystemMaxRxError, WakeUpTime),
            !.win2 = RegionComputeRxWindowParameters(region, m.rx2.dr, MinRxSymbols, SystemMaxRxError, WakeUpTime)]

ConfigOf(m) ==
  [channel |-> m.channel, dr |-> m.dr, power |-> m.power, maxEirp |-> m.maxEirp,
   antennaGain |-> Default(region, "PHY_DEF_ANTENNA_GAIN")]

Results ==
  RegionNextChannel(region, g, [joined |-> mac.joined, dutyCycle |-> mac.dutyOn, dr |-> mac.dr,
                          aggrTimeOff |-> mac.aggrOff, sinceAggr |-> mac.sinceAggr,
                          channel |-> mac.channel])

(* One turn of the loop of ScheduleTx, and what follows its end.            *)
Search ==
  /\ phase = "search"
  /\ \E r \in Results :
       LET found == [mac EXCEPT !.channel = r.channel, !.aggrOff = r.aggrTimeOff]
           m     == WithWindows(found)
           fits  == m.joined => ValidatePayloadLength(m)
       IN  /\ g' = r.g
           /\ round' = RoundWith(IF r.ok /\ r.delay = 0 /\ Picked(r.g, r.channel)
                                 THEN {r.channel} ELSE {})
           /\ \/ /\ ~r.ok
                 /\ mac' = LowerRate(found)
                 /\ UNCHANGED <<phase, radio>>
              \/ /\ r.ok /\ ~fits
                 /\ mac' = Refused(m)
                 /\ phase' = "idle" /\ UNCHANGED radio
              \/ /\ r.ok /\ fits /\ r.delay = 0
                 /\ mac' = m
                 /\ phase' = "sense"
                 /\ radio' = RegionTxConfig(region, g', ConfigOf(m))
              \/ /\ r.ok /\ fits /\ r.delay # 0
                 /\ mac' = [m EXCEPT !.wait = r.delay]
                 /\ phase' = "delayed" /\ UNCHANGED radio
  /\ UNCHANGED <<region, quiet>>

(* beforeTxCadDone: a busy channel is tried again a little later.           *)
CadDone(busy) ==
  /\ phase = "sense"
  /\ IF busy /\ mac.cad < CAD_CNT_MAX
     THEN /\ mac' = [mac EXCEPT !.cad = @ + 1, !.wait = 0]
          /\ phase' = "delayed"
     ELSE /\ mac' = [mac EXCEPT !.cad = 1, !.running = TRUE]
          /\ phase' = "clear"
  /\ UNCHANGED <<region, g, radio, quiet, round>>

(* OnTxImmediateTimerEvent and SendFrameOnChannel.                          *)
TxImmediate ==
  /\ phase = "clear"
  /\ phase' = "sending"
  /\ radio' = RegionTxConfig(region, g, ConfigOf(mac))
  /\ mac' = [mac EXCEPT !.air = 1, !.trials = IF mac.joined THEN @ ELSE @ + 1]
  /\ UNCHANGED <<region, g, quiet, round>>

(* OnRadioTxDone.                                                           *)
TxDone ==
  LET band == g.channels[mac.channel].band
  IN  /\ phase = "sending"
      /\ phase' = "sent"
      /\ g' = RegionSetBandTxDone(region, g, mac.joined, mac.channel)
      /\ mac' = [mac EXCEPT !.lastTx = mac.channel, !.sinceAggr = 0,
                            !.rep = IF mac.frame = "CONFIRMED" THEN @ ELSE @ + 1]
      /\ quiet' = QuietWith(band)
      /\ UNCHANGED <<region, radio, round>>

-----------------------------------------------------------------------------
(* Time.                                                                    *)

Later(n, d) == Min({n + d, FOREVER})
Left(n, d) == Max({n - d, 0})

(* Hours, which FOREVER stands for, bring a device to the next phase of its *)
(* life; only join requests look at it.                                     *)
Older(age, d) ==
  CASE d < FOREVER \/ mac.joined -> age
    [] d >= FOREVER /\ ~mac.joined /\ age = "first_hour" -> "ten_hours"
    [] d >= FOREVER /\ ~mac.joined /\ age # "first_hour" -> "later"

BandLater(band, d) == [band EXCEPT !.sinceTx = Later(@, d), !.sinceJoin = Later(@, d)]
PlanLater(d) == [g EXCEPT !.bands = [b \in DOMAIN g.bands |-> BandLater(g.bands[b], d)]]
MacLater(d) ==
  [mac EXCEPT !.sinceAggr = Later(@, d), !.age = Older(@, d), !.wait = 0]
QuietLater(d) ==
  [bands  |-> [b \in DOMAIN quiet.bands |-> Left(quiet.bands[b], d)],
   factor |-> Left(quiet.factor, d), join |-> Left(quiet.join, d)]

(* Waits add up to FOREVER, or there is one between two frames.             *)
Elapse(d) ==
  /\ phase = "idle"
  /\ mac.sinceAggr = 0 \/ mac.sinceAggr + d >= FOREVER
  /\ g' = PlanLater(d)
  /\ mac' = MacLater(d)
  /\ quiet' = QuietLater(d)
  /\ UNCHANGED <<region, phase, radio, round>>

(* OnTxDelayedTimerEvent: a join request is made anew, another frame is     *)
(* sent as it is.                                                           *)
SendAgain(new, m) ==
  LET alt == RegionAlternateDr(region, new, m.trials + 1)
      m1  == [m EXCEPT !.caller = "delayed"]
  IN  IF m.frame = "JOIN"
      THEN ScheduleTx(alt.g, [ResetMacParameters(region, m1) EXCEPT !.dr = alt.dr])
      ELSE ScheduleTx(new, m1)

(* The timer expires when the wait is over.                                 *)
TxDelayed ==
  /\ phase = "delayed"
  /\ \E s \in SendAgain(PlanLater(mac.wait), MacLater(mac.wait)) :
       Leave(s, QuietLater(mac.wait))
  /\ UNCHANGED radio

-----------------------------------------------------------------------------
(* Requests of the application.                                             *)

CanRequest == phase = "idle" /\ ~mac.running /\ mac.requests < MAX_REQUESTS

(* MLME_JOIN.  A bound: the application asks once, for all the attempts.    *)
JoinRequest ==
  /\ CanRequest /\ ~mac.joined /\ mac.frame = "NONE"
  /\ LET m   == [mac EXCEPT !.requests = @ + 1, !.trials = 0, !.frame = "JOIN",
                            !.caller = "request"]
         alt == RegionAlternateDr(region, g, 1)
     IN  \E s \in ScheduleTx(alt.g, [ResetMacParameters(region, m) EXCEPT !.dr = alt.dr]) :
           Leave(s, quiet)
  /\ UNCHANGED radio

(* LoRaMacMcpsRequest, and the call of AdrNext in PrepareFrame; silent is   *)
(* the count of uplinks since the last downlink.                            *)
McpsRequest(frame, dr, silent) ==
  LET clamped == Min({Max({dr, LowestTxDr(mac.upDwell)}), Default(region, "PHY_MAX_TX_DR")})
      rate    == IF mac.adr THEN mac.dr ELSE clamped
      adr     == RegionAdrNext(region, g, [adr |-> mac.adr, dr |-> rate, power |-> mac.power,
                                     counter |-> silent, dwell |-> mac.upDwell,
                                     updateMask |-> TRUE])
      m       == [mac EXCEPT !.requests = @ + 1, !.frame = frame, !.caller = "request",
                             !.tries = 1, !.dr = adr.dr, !.power = adr.power,
                             !.adrCounter = adr.counter]
  IN  /\ CanRequest /\ mac.joined
      /\ mac.adr \/ RegionVerify(region, "PHY_TX_DR", clamped, mac.upDwell)
      /\ silent >= mac.adrCounter
      /\ \E s \in ScheduleTx(adr.g, m) : Leave(s, quiet)
      /\ UNCHANGED radio

(* MLME_TXCW: an unmodulated carrier on the current channel, until its      *)
(* time-out.                                                                *)
TxCw ==
  /\ CanRequest /\ region \in Tested
  /\ phase' = "wave"
  /\ radio' = RegionSetContinuousWave(region, g, ConfigOf(mac) @@ [timeout |-> 1])
  /\ mac' = [mac EXCEPT !.requests = @ + 1, !.running = TRUE]
  /\ UNCHANGED <<region, g, quiet, round>>
TxCwEnd ==
  /\ phase = "wave"
  /\ phase' = "idle"
  /\ mac' = [mac EXCEPT !.running = FALSE]
  /\ UNCHANGED <<region, g, radio, quiet, round>>

(* The channel masks and the default of the second window (LoRaMacMibSet),  *)
(* and the channels that the application adds and removes.                  *)
AfterSetting(s) ==
  CASE s.kind = "MASK"   -> [g |-> RegionChanMaskSet(region, g, s.type, s.mask).g, mac |-> mac]
    [] s.kind = "ADD"    -> [g |-> RegionChannelAdd(region, g, s.id, s.channel).g, mac |-> mac]
    [] s.kind = "REMOVE" -> [g |-> RegionChannelsRemove(region, g, s.id).g, mac |-> mac]
    [] s.kind = "RX2"    ->
         [g |-> g, mac |-> IF RegionVerify(region, "PHY_RX_DR", s.rx2.dr, mac.downDwell)
                           THEN [mac EXCEPT !.rx2 = s.rx2] ELSE mac]
    [] s.kind = "DEFAULT_RX2" ->
         [g |-> g, mac |-> IF RegionVerify(region, "PHY_RX_DR", s.rx2.dr, mac.downDwell)
                           THEN [mac EXCEPT !.defRx2 = s.rx2] ELSE mac]

Set(setting) ==
  /\ phase \in {"idle", "delayed"} /\ ~mac.running /\ mac.edits < MAX_EDITS
  /\ LET after == AfterSetting(setting)
     IN  Leave([g |-> after.g, mac |-> [after.mac EXCEPT !.edits = @ + 1], phase |-> phase],
               QuietAfter(after.g))
  /\ UNCHANGED radio

-----------------------------------------------------------------------------
(* Receiving.                                                               *)

(* OnRxWindow1TimerEvent and OnRxWindow2TimerEvent; the frequency of the    *)
(* second window is read when it opens.                                     *)
Listen(slot, window, from, to) ==
  /\ phase = from
  /\ phase' = to
  /\ radio' \in RegionRxConfig(region, g,
       [radioIdle |-> TRUE, slot |-> slot, channel |-> mac.channel, dr |-> window.dr,
        frequency |-> mac.rx2.freq, timeout |-> window.timeout, continuous |-> FALSE])
  /\ UNCHANGED <<region, g, mac, quiet, round>>

RxWindow1 == Listen("RX_SLOT_WIN_1", mac.win1, "sent", "rx1")
RxWindow2 == Listen("RX_SLOT_WIN_2", mac.win2, "gap", "rx2")

(* OnRadioRxTimeout.                                                        *)
RxTimeout ==
  /\ phase \in {"rx1", "rx2"}
  /\ phase' = IF phase = "rx1" THEN "gap" ELSE "check"
  /\ UNCHANGED <<region, g, mac, radio, quiet, round>>

(* OnRadioRxDone: a join-accept, and its list of frequencies.               *)
JoinAccept(accept) ==
  /\ phase \in {"rx1", "rx2"} /\ mac.frame = "JOIN" /\ ~mac.joined
  /\ Leave([g     |-> RegionApplyCFList(region, g, accept.freqs),
            phase |-> "check",
            mac   |-> [mac EXCEPT !.joined = TRUE, !.rx1Off = accept.rx1Off,
                                  !.rx2.dr = accept.rx2Dr, !.dr = Default(region, "PHY_DEF_TX_DR")]],
           quiet)
  /\ UNCHANGED radio

(* ProcessMacCommands, for the commands that concern the region.            *)
AfterCommand(c) ==
  CASE c.kind = "LINK_ADR" ->
         LET a == RegionLinkAdrReq(region, g, c.reqs)
         IN  [g   |-> a.g,
              mac |-> IF a.refused # {} THEN mac
                      ELSE [mac EXCEPT !.dr = a.dr, !.power = a.power, !.nbRep = a.nbRep]]
    [] c.kind = "DUTY_CYCLE" ->
         \* 255 switches the device off, and the factor is not read any more.
         [g |-> g, mac |-> [mac EXCEPT !.maxDc = c.max, !.aggrDc = IF c.max = 255 THEN @
                                                                  ELSE 2 ^ c.max]]
    [] c.kind = "RX_PARAM" ->
         [g   |-> g,
          mac |-> IF RegionRxParamSetupReq(region, c.offset, c.rx2.dr, c.rx2.freq) # {} THEN mac
                  ELSE [mac EXCEPT !.rx1Off = c.offset, !.rx2 = c.rx2]]
    [] c.kind = "NEW_CHANNEL" -> [g |-> RegionNewChannelReq(region, g, c.id, c.channel).g, mac |-> mac]
    [] c.kind = "DL_CHANNEL"  -> [g |-> RegionDlChannelReq(region, g, c.id, c.rx1).g, mac |-> mac]
    [] c.kind = "TX_PARAM" ->
         [g   |-> g,
          mac |-> IF RegionTxParamSetupReq(region) = -1 THEN mac
                  ELSE [mac EXCEPT !.upDwell = c.upDwell, !.downDwell = c.downDwell,
                                   !.maxEirp = c.maxEirp]]
    [] c.kind = "NONE" -> [g |-> g, mac |-> mac]

(* A bound: commands come in the first window.                              *)
Downlink(c) ==
  /\ phase \in {"rx1", "rx2"} /\ mac.joined
  /\ c.kind # "NONE" => phase = "rx1" /\ mac.edits < MAX_EDITS
  /\ LET after == AfterCommand(c)
     IN  Leave([g |-> after.g, phase |-> "check",
                mac |-> [after.mac EXCEPT !.got = TRUE, !.adrCounter = 0,
                                          !.edits = IF c.kind = "NONE" THEN @ ELSE @ + 1]],
               QuietAfter(after.g))
  /\ UNCHANGED radio

-----------------------------------------------------------------------------
(* OnMacStateCheckTimerEvent.                                               *)

Finished(m) == [m EXCEPT !.running = FALSE, !.rep = 0, !.got = FALSE]
MaxTrials == Default(region, "PHY_NB_JOIN_TRIALS")

(* The attempts between the last one and the next that is followed are lost. *)
EndJoin ==
  /\ mac.frame = "JOIN"
  /\ \/ /\ mac.joined \/ mac.trials >= MaxTrials
        /\ Leave([g |-> g, mac |-> Finished(mac), phase |-> "idle"], quiet)
     \/ /\ ~mac.joined /\ mac.trials < MaxTrials
        /\ \E next \in {a \in Attempts \cup {MaxTrials} : mac.trials < a /\ a <= MaxTrials} :
             \E s \in SendAgain(g, [mac EXCEPT !.trials = next - 1]) : Leave(s, quiet)

EndUnconfirmed ==
  LET over == mac.rep >= mac.nbRep \/ mac.got
      m    == [mac EXCEPT !.adrCounter = IF mac.got THEN @ ELSE @ + 1]
  IN  /\ mac.frame = "UNCONFIRMED"
      /\ \/ over  /\ Leave([g |-> g, mac |-> Finished(m), phase |-> "idle"], quiet)
         \/ ~over /\ \E s \in SendAgain(g, mac) : Leave(s, quiet)

(* Every downlink carries the acknowledgement.  Each second retry is made   *)
(* at a lower rate; after the last one the default channels are restored.   *)
EndConfirmed ==
  LET lower == RegionGetPhyParam(region, g, Query("PHY_NEXT_LOWER_TX_DR", mac.dr, mac.upDwell))
      m     == [mac EXCEPT !.tries = @ + 1, !.caller = "retry",
                           !.dr = IF (mac.tries + 1) % 2 = 1 THEN lower ELSE @]
  IN  /\ mac.frame = "CONFIRMED"
      /\ \/ mac.got /\ Leave([g |-> g, mac |-> Finished(mac), phase |-> "idle"], quiet)
         \/ /\ ~mac.got /\ mac.tries < ConfirmedTrials
            /\ \E s \in ScheduleTx(g, m) : Leave(s, quiet)
         \/ /\ ~mac.got /\ mac.tries >= ConfirmedTrials
            /\ Leave([g |-> RegionInitDefaults(region, g, "RESTORE"), mac |-> Finished(mac),
                      phase |-> "idle"], quiet)

MacStateCheck ==
  /\ phase = "check"
  /\ EndJoin \/ EndUnconfirmed \/ EndConfirmed
  /\ UNCHANGED radio

-----------------------------------------------------------------------------
Next ==
  \/ JoinRequest \/ TxCw \/ TxCwEnd
  \/ \E frame \in FrameTypes(region), dr \in Rates, silent \in {mac.adrCounter} \cup SilentUplinks(region) :
       McpsRequest(frame, dr, silent)
  \/ \E setting \in Settings(region) : Set(setting)
  \/ Search
  \/ \E busy \in BOOLEAN : CadDone(busy)
  \/ TxImmediate \/ TxDone \/ TxDelayed
  \/ RxWindow1 \/ RxWindow2 \/ RxTimeout
  \/ \E accept \in Accepts(region) : JoinAccept(accept)
  \/ \E c \in Commands(region) : Downlink(c)
  \/ MacStateCheck
  \/ \E d \in Durations(region) : Elapse(d)

Spec == Init /\ [][Next]_vars

(* The loop of ScheduleTx runs on, and the device that listens before it    *)
(* talks finds a channel free again and again: weak fairness of Search, and *)
(* strong fairness of its end.  Search is the one step of its phase, which  *)
(* spares TLC the ENABLED of it.                                            *)
SearchGoesOn == []<>(phase # "search") \/ []<><<phase = "search">>_vars
ChannelsGetFree ==
  <>[]~(phase = "search" /\ \E r \in Results : r.ok)
    \/ []<><<phase = "search" /\ phase' # "search">>_vars
FairSpec == Spec /\ SearchGoesOn /\ ChannelsGetFree

-----------------------------------------------------------------------------
(* Nothing but the expected is in a channel table: a channel has an order   *)
(* of rates and a band, the mask names entries of the table only, and the   *)
(* first channels are where the region put them.                            *)
TypeOK ==
  /\ phase \in {"idle", "search", "sense", "clear", "sending", "delayed", "sent",
                "rx1", "gap", "rx2", "check", "wave"}
  /\ mac.dr \in -128 .. 127 /\ mac.lastTx \in DOMAIN g.channels
  /\ g.mask \subseteq DOMAIN g.channels /\ g.remaining \subseteq DOMAIN g.channels
  /\ \A c \in DOMAIN g.channels :
       LET channel == g.channels[c]
       IN  /\ channel.min <= channel.max /\ channel.band \in DOMAIN g.bands

(* A frame goes out on a channel that exists, is enabled, may carry its     *)
(* rate and, before the device has joined, is open to join requests.  AU915 *)
(* is left out while it joins: RegionAU915NextChannel returns without a     *)
(* channel when all of them rest, and ScheduleTx then sends on an old one.  *)
SentWhereAllowed ==
  phase = "sending" /\ (region = "AU915" => mac.joined) =>
    /\ mac.channel \in g.mask /\ (mac.joined \/ mac.channel \in RegionJoinChannels(region))
    /\ g.channels[mac.channel].freq = radio.frequency /\ radio.frequency # 0
    /\ ValueInRange(mac.dr, g.channels[mac.channel].min, g.channels[mac.channel].max)

(* A band rests after a frame for as long as its duty cycle asks, a device  *)
(* that joins as long as the factor of its age asks (RegionCommonGetJoinDc), *)
(* and all bands as long as the network asks.  AU915 is left out while it   *)
(* joins, for the same reason.                                              *)
Rested ==
  /\ quiet.bands[g.channels[mac.channel].band] = 0
  /\ mac.frame = "JOIN" => quiet.factor = 0
  /\ mac.sinceAggr >= mac.air * (mac.aggrDc - 1)
TimeOffRespected ==
  phase \in {"sense", "clear"} /\ (region = "AU915" => mac.joined) => Rested

(* LoRaMac.c:64-77 says of the duty cycle for the back-off procedure that    *)
(* it is 1/100 in the first hour, 1/1000 in the next ten hours, 1/10000      *)
(* later: no join request goes out before the one ahead of it has rested so. *)
JoinBackOffKept ==
  phase \in {"sense", "clear"} /\ mac.frame = "JOIN" => quiet.join = 0

(* No search for a channel goes on for ever, whatever channels are enabled, *)
(* unless the network has disabled all of them: a search empties no mask.   *)
SearchEnds == []<>(phase # "search" \/ g.mask = {})

(* A hopping device uses no narrow channel twice in a round.                *)
NoChannelFavoured ==
  [][\A c \in Narrow :
       /\ region \in HopRegions /\ phase = "search" /\ phase' = "sense" /\ mac'.channel = c
       /\ Picked(g', c)
       => c \notin round \/ g.mask \cap Narrow \subseteq round]_vars

(* With a clock that is off by up to SystemMaxRxError, a window still hears *)
(* MinRxSymbols symbols of a preamble of eight, but for the rounding of its *)
(* start to a millisecond.                                                  *)
Millisecond == 1000
Hears(window, timeout, symbol) ==
  LET start == Millisecond * (window.offset + WakeUpTime)
      end   == start + timeout * symbol
  IN  \A error \in {-(Millisecond * SystemMaxRxError), Millisecond * SystemMaxRxError} :
        Min({end, error + 8 * symbol}) - Max({start, error}) >= MinRxSymbols * symbol - Millisecond
Heard(window) == Hears(window, radio.timeout, SymbolTime(radio.sf, radio.bandwidth))
WindowHearsPreamble ==
  /\ phase = "rx1" /\ InLoRa(radio) => Heard(mac.win1)
  /\ phase = "rx2" /\ InLoRa(radio) => Heard(mac.win2)

(* A device radiates no more than its region allows and the network asks    *)
(* for; one that hops over fewer than 50 narrow channels no more than       *)
(* 21 dBm in the United States, and 26 dBm on a wide channel.               *)
PowerLegal ==
  phase \in {"sense", "clear", "sending"} =>
    /\ 100 * radio.phyPower <= Radiated(region, Default(region, "PHY_DEF_MAX_EIRP"))
    /\ 100 * radio.phyPower + Default(region, "PHY_DEF_ANTENNA_GAIN") <= Radiated(region, mac.maxEirp)
    /\ region \in {"US915", "US915_HYBRID"} =>
         /\ radio.bandwidth = 500 => radio.phyPower <= 26
         /\ radio.bandwidth = 125 /\ Cardinality(g.mask \cap Narrow) < 50 => radio.phyPower <= 21
=============================================================================
