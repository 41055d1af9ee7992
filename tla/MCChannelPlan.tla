---------------------------- MODULE MCChannelPlan ----------------------------
(* Small values for ChannelPlan: per region, join-accepts, commands of the   *)
(* network and settings of the application that reach every branch of the    *)
(* regional files.                                                           *)
EXTENDS ChannelPlan, Region

Ends(channels) == {Min(channels), Max(channels)}

Dynamic == {"AS923", "CN779", "EU433", "EU868", "IN865", "KR920"}
Fixed == {"AU915", "CN470", "US915", "US915_HYBRID"}
AllRegions == Dynamic \cup Fixed
Silent(r) == IF r \in {"CN470", "EU433", "US915_HYBRID"} THEN {97} ELSE {}
Times(r) ==
  CASE r \in {"AS923", "KR920"} -> {FOREVER - 1} [] r = "EU868" -> {95, FOREVER}
    [] OTHER -> {FOREVER}
Modes(r) == {r \notin {"AS923", "AU915", "IN865"}}
Frames(r) == {IF r \in {"CN470", "KR920", "US915_HYBRID"} THEN "CONFIRMED" ELSE "UNCONFIRMED"}

(* A frequency of the region outside the default channels, and the band of   *)
(* it with another duty cycle where there is one.                            *)
Freq(r) ==
  CASE r = "EU868" -> 8671000 [] r = "EU433" -> 4337750 [] r = "CN779" -> 7807000
    [] r = "IN865" -> 8664000 [] r = "KR920" -> 9227000 [] r = "AS923" -> 9220000
    [] OTHER -> 9233000

List(r) == <<Freq(r), 0, Freq(r), 0, 1>>
AllAccepts(r) ==
  {[freqs |-> list, rx1Off |-> 1, rx2Dr |-> Default(r, "PHY_DEF_RX2_DR")] :
     list \in (IF r = "KR920" THEN {} ELSE {<<>>})
                \cup (IF r \in Dynamic \ {"AS923"} THEN {List(r)} ELSE {})}

Adr(reqs) == [kind |-> "LINK_ADR", reqs |-> reqs]
Req(ctrl, mask, dr, power, nbRep) ==
  [ctrl |-> ctrl, mask |-> mask, dr |-> dr, power |-> power, nbRep |-> nbRep]
SomeHops == {Adr(<<Req(7, {0}, 0, 0, 1), Req(0, {0, 1}, 2, 2, 2)>>)}
OtherHops ==
  {Adr(<<Req(7, {}, 0, 0, 1), Req(0, 0 .. 7, 3, 0, 0)>>), Adr(<<Req(7, 0 .. 7, 4, 0, 1)>>)}
AllHops ==
  SomeHops \cup OtherHops \cup {Adr(<<Req(6, 0 .. 7, 4, 0, 1)>>), Adr(<<Req(5, {}, 0, 0, 1)>>)}
PlainRequests ==
  {Adr(<<Req(0, {0}, 3, 2, 2)>>), Adr(<<Req(6, {}, 2, 0, 0)>>), Adr(<<Req(0, {}, 2, 0, 1)>>)}
RxParam(r) ==
  [kind |-> "RX_PARAM", offset |-> 2,
   rx2 |-> [freq |-> Default(r, "PHY_DEF_RX2_FREQUENCY"), dr |-> Default(r, "PHY_DEF_RX2_DR") + 2]]
DutyCycle(max) == [kind |-> "DUTY_CYCLE", max |-> max]
New(id, channel) == [kind |-> "NEW_CHANNEL", id |-> id, channel |-> channel]
Moved(r) == Channel(Freq(r), 0, 5, 0)
TxParam == [kind |-> "TX_PARAM", upDwell |-> 1, downDwell |-> 1, maxEirp |-> 1400]
DlChannel(r) == [kind |-> "DL_CHANNEL", id |-> 1, rx1 |-> Freq(r)]

AllCommands(r) ==
  {[kind |-> "NONE"]} \cup
  CASE r = "EU868" -> {New(3, Moved(r)), New(3, NoChannel), New(0, Moved(r)), DutyCycle(4)}
    [] r \in {"CN779", "EU433", "CN470"} -> PlainRequests
    [] r = "IN865" -> {New(3, Moved(r)), DlChannel(r), DutyCycle(255)}
    [] r = "KR920" -> {New(3, Moved(r)), RxParam(r)}
    [] r = "AS923" -> {TxParam}
    [] r = "US915" -> SomeHops
    [] r = "AU915" -> OtherHops \cup {RxParam(r), TxParam, New(3, Moved(r))}
    [] r = "US915_HYBRID" -> AllHops

Mask(type, mask) == [kind |-> "MASK", type |-> type, mask |-> mask]
AllSettings(r) ==
  CASE r = "EU868" -> {Mask("CHANNELS_MASK", {}), [kind |-> "REMOVE", id |-> 3]}
    [] r = "EU433" -> {Mask("CHANNELS_MASK", 0 .. 7),
                       [kind |-> "ADD", id |-> 4, channel |-> Moved(r)]}
    [] r \in {"US915_HYBRID", "AU915"} -> {Mask("CHANNELS_MASK", {0, 8, 64, 65}),
                                          Mask("CHANNELS_DEFAULT_MASK", 8 .. 15)}
    [] r = "IN865" -> {Mask("CHANNELS_DEFAULT_MASK", {1}),
                       [kind |-> "REMOVE", id |-> 0], [kind |-> "ADD", id |-> 0, channel |-> Moved(r)]}
    [] r = "CN779" ->
         {[kind |-> kind, rx2 |-> [freq |-> Freq(r), dr |-> Default(r, "PHY_DEF_RX2_DR") + 1]]
            : kind \in {"RX2", "DEFAULT_RX2"}}
    [] OTHER -> {}
==============================================================================
