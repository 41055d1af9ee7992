-------------------------- MODULE ChannelPlan_proofs --------------------------
(***************************************************************************)
(* Proofs about what a device sends, where and when, for every value of the  *)
(* constants and for every region that keeps the contract of RegionContract. *)
(*                                                                           *)
(* One invariant, IInv, relates the rests that the code computes to those    *)
(* that regulations impose: ScheduleTx charges the band used last only when  *)
(* it is called again, so that before each search the rest of that one band  *)
(* is still missing (OthersCovered) and within it none is (AllCovered).      *)
(* Handlers leave a plan, a state of the MAC and a phase: what each leaves   *)
(* is a lemma (Leaves), and LeaveKeeps carries all of them to IInv'.         *)
(***************************************************************************)
EXTENDS ChannelPlan, TLAPS

RegionsKeepContract == \A r \in Regions : Contract(r)

-----------------------------------------------------------------------------
(* What the variables of LoRaMac.c may hold.                                *)

Fields ==
  {"adr", "joined", "running", "dutyOn", "age", "adrCounter", "rep", "tries", "nbRep", "maxDc",
   "aggrDc", "power", "dr", "minDr", "rx1Off", "rx2", "defRx2", "upDwell", "downDwell", "maxEirp",
   "channel", "lastTx", "frame", "caller", "trials", "cad", "wait", "air", "aggrOff", "sinceAggr",
   "got", "win1", "win2", "requests", "edits"}
WindowOf(r) == {w \in Window : RxRate(r, w.dr)}
MacTyped(r, m) ==
  /\ DOMAIN m = Fields
  /\ m.adr \in BOOLEAN /\ m.joined \in BOOLEAN /\ m.dutyOn = DutyCycleOn(r) /\ m.age \in Ages
  /\ m.frame \in {"NONE", "JOIN", "CONFIRMED", "UNCONFIRMED"}
  /\ m.dr \in Rate /\ m.minDr \in Rate /\ m.power \in Int /\ Eirp(r, m.maxEirp)
  /\ m.adrCounter \in Nat /\ m.trials \in Nat /\ m.wait \in Nat /\ m.sinceAggr \in Nat
  /\ m.air \in {0, 1} /\ m.aggrDc \in Int /\ m.aggrOff \in Int
  /\ RxOffset(r, m.rx1Off) /\ m.rx2 \in WindowOf(r) /\ m.defRx2 \in WindowOf(r)
  /\ m.upDwell \in {0, 1} /\ m.downDwell \in {0, 1}
  /\ m.channel \in Ids(r) /\ m.lastTx \in Ids(r)

(* A device that has not joined sends join requests, on join channels.      *)
Unjoined(r, m) ==
  ~m.joined => /\ m.frame \in {"NONE", "JOIN"}
               /\ m.channel \in RegionJoinChannels(r) /\ m.lastTx \in RegionJoinChannels(r)
Joining(m) == m.frame = "JOIN" => ~m.joined

(* What regulations still impose on a band is no more than its duty cycle   *)
(* asks after the time that has passed since its last frame.                *)
Quiet(r, p, m, q) ==
  /\ q \in [bands : [Bands(r) -> Nat], factor : Nat, join : Nat]
  /\ m.air = 0 => q.factor = 0
  /\ m.air = 0 \/ ~m.dutyOn => \A b \in Bands(r) : q.bands[b] = 0
  /\ \A b \in Bands(r) : q.bands[b] # 0 =>
       q.bands[b] + p.bands[b].sinceTx <= RegionBandDCycle(r)[b] - 1
  /\ ~m.joined => /\ \A b \in Bands(r) : p.bands[b].sinceJoin = p.bands[b].sinceTx
                  /\ q.factor # 0 =>
                       q.factor + p.bands[JoinBand(r)].sinceTx <= GetJoinDc(m.age) - 1

(* The code's rest of a band covers what regulations impose: of all bands   *)
(* once ScheduleTx has charged the band used last, of the others before.    *)
Covered(p, q, b) == q.bands[b] # 0 => q.bands[b] + p.bands[b].sinceTx <= p.bands[b].timeOff
OthersCovered(r, p, m, q) ==
  \A b \in Bands(r) : b # p.channels[m.lastTx].band => Covered(p, q, b)
AllCovered(r, p, m, q) ==
  /\ \A b \in Bands(r) : Covered(p, q, b)
  /\ ~m.joined /\ q.factor # 0 =>
       q.factor + p.bands[JoinBand(r)].sinceTx <= p.bands[JoinBand(r)].timeOff

(* The rest that the network imposes: what ScheduleTx computed, or over.    *)
Aggregated(m) ==
  \/ m.aggrOff = m.air * (m.aggrDc - 1)
  \/ m.sinceAggr >= m.air * (m.aggrDc - 1)

(* A joined device of AU915, whose duty cycle is off, never rests.          *)
NeverRests(r, p, m) == r = "AU915" /\ m.joined => p.bands[JoinBand(r)].timeOff = 0

(* What is ready to be sent: as the search left it.                         *)
Ready(r, p, m) ==
  /\ m.dr \in 0 .. TopRate(r)
  /\ (r = "AU915" => m.joined) =>
       /\ m.channel \in p.mask /\ p.channels[m.channel].freq # 0
       /\ m.joined \/ m.channel \in RegionJoinChannels(r)
       /\ Supports(p.channels[m.channel], m.dr)

Hops(r, p, used) ==
  r \in HopRegions => p.remaining \cap Narrow = (p.mask \cap Narrow) \ used

-----------------------------------------------------------------------------
(* The invariant.                                                           *)

Sending == {"sense", "clear", "sending"}
Awaiting == {"sent", "rx1", "gap", "rx2"}

Base(r, p, m, q) ==
  /\ WellFormed(r, p) /\ MacTyped(r, m) /\ Unjoined(r, m)
  /\ Quiet(r, p, m, q) /\ OthersCovered(r, p, m, q)
SearchReady(r, p, m, q) ==
  AllCovered(r, p, m, q) /\ Aggregated(m) /\ NeverRests(r, p, m) /\ Joining(m)

IInv ==
  /\ region \in Regions
  /\ phase \in {"idle", "search", "delayed", "check", "wave"} \cup Sending \cup Awaiting
  /\ Base(region, g, mac, quiet) /\ Hops(region, g, round)
  /\ phase = "search" => SearchReady(region, g, mac, quiet)
  /\ phase = "delayed" => Joining(mac)
  /\ phase \in Sending =>
       /\ AllCovered(region, g, mac, quiet) /\ Ready(region, g, mac)
       /\ radio = RegionTxConfig(region, g, ConfigOf(mac))
  /\ phase \in Sending \cup Awaiting =>
       /\ Joining(mac) /\ mac.dr \in 0 .. TopRate(region)
       /\ mac.win1 = WithWindows(mac).win1 /\ mac.win2 = WithWindows(mac).win2
  /\ phase = "sending" => mac.air = 1
  /\ TimeOffRespected /\ WindowHearsPreamble

-----------------------------------------------------------------------------
(* Arithmetic.                                                              *)

\* Max of two numbers.
LEMMA MaxOfTwo ==
  ASSUME NEW a \in Int, NEW b \in Int
  PROVE  Max({a, b}) = IF a >= b THEN a ELSE b
<1> DEFINE m == IF a >= b THEN a ELSE b
<1>1. m \in {a, b} /\ \A y \in {a, b} : m >= y
  OBVIOUS
<1>2. ASSUME NEW x \in {a, b}, \A y \in {a, b} : x >= y PROVE x = m
  BY <1>2
<1> QED BY <1>1, <1>2, ZenonT(30) DEF Max

\* Min of two numbers.
LEMMA MinOfTwo ==
  ASSUME NEW a \in Int, NEW b \in Int
  PROVE  Min({a, b}) = IF a <= b THEN a ELSE b
<1> DEFINE m == IF a <= b THEN a ELSE b
<1>1. m \in {a, b} /\ \A y \in {a, b} : m <= y
  OBVIOUS
<1>2. ASSUME NEW x \in {a, b}, \A y \in {a, b} : x <= y PROVE x = m
  BY <1>2
<1> QED BY <1>1, <1>2, ZenonT(30) DEF Min

\* What is left of a rest, and what a clock shows, after some time.
LEMMA TimeAdded ==
  ASSUME NEW n \in Nat, NEW d \in Nat
  PROVE  /\ Later(n, d) \in Nat /\ Later(n, d) <= n + d
         /\ Left(n, d) \in Nat /\ (Left(n, d) # 0 => Left(n, d) = n - d)
<1>1. n + d \in Int /\ n - d \in Int /\ FOREVER \in Int /\ 0 \in Int /\ FOREVER \in Nat
  BY DEF FOREVER
<1>2. Later(n, d) = IF n + d <= FOREVER THEN n + d ELSE FOREVER
  BY <1>1, MinOfTwo, Zenon DEF Later
<1>3. Left(n, d) = IF n - d >= 0 THEN n - d ELSE 0
  BY <1>1, MaxOfTwo, Zenon DEF Left
<1> QED BY <1>1, <1>2, <1>3

LEMMA JoinDuty == \A age \in Ages : GetJoinDc(age) \in Nat /\ GetJoinDc(age) >= 1
BY DEF Ages, GetJoinDc

LEMMA JoinRatio == \A age \in Ages : BACKOFF_DC(age) - 1 \in Nat
BY DEF Ages, BACKOFF_DC

-----------------------------------------------------------------------------
(* The plan.                                                                *)

\* Other rests and stamps leave a well-formed plan.
WithBands(p, bands) == [p EXCEPT !.bands = bands]
LEMMA BandsReplaced ==
  ASSUME NEW r, NEW p, WellFormed(r, p), NEW bands \in [Bands(r) -> Band], NEW h,
         h = WithBands(p, bands)
  PROVE  /\ WellFormed(r, h) /\ h.bands = bands
         /\ h.channels = p.channels /\ h.mask = p.mask /\ h.remaining = p.remaining
<1>1. Typed(r, p)
  BY DEF WellFormed
<1>2. Typed(r, h) /\ h.bands = bands /\ h.channels = p.channels /\ h.mask = p.mask
      /\ h.remaining = p.remaining
  BY <1>1 DEF Typed, WithBands
<1>3. [h EXCEPT !.bands = Start(r).bands] = [p EXCEPT !.bands = Start(r).bands]
  BY <1>1 DEF Typed, WithBands
<1>4. MaskAfterJoin(r, h) = MaskAfterJoin(r, p)
  BY <1>3, Zenon DEF MaskAfterJoin
<1> QED BY <1>2, <1>4, Zenon DEF WellFormed

\* Of the bands of a well-formed plan.
LEMMA BandFields ==
  ASSUME NEW r, NEW p, WellFormed(r, p)
  PROVE  /\ p.bands \in [Bands(r) -> Band]
         /\ \A b \in Bands(r) : /\ p.bands[b].timeOff \in Nat /\ p.bands[b].sinceTx \in Nat
                                /\ p.bands[b].sinceJoin \in Nat
         /\ \A c \in Ids(r) : p.channels[c].band \in Bands(r)
BY DEF WellFormed, Typed, Band, ChannelOf

\* What the contract says of a region's constants.
LEMMA ConstantsKept ==
  ASSUME NEW r, Contract(r)
  PROVE  /\ RegionBandDCycle(r) \in [Bands(r) -> Nat \ {0}]
         /\ 0 \in Ids(r) /\ 0 \in RegionJoinChannels(r) /\ RegionJoinChannels(r) \subseteq Ids(r)
         /\ JoinBand(r) \in Bands(r) /\ DutyCycleOn(r) \in BOOLEAN
BY BandFields, Zenon DEF Contract, Constants, Started, JoinBand

-----------------------------------------------------------------------------
(* Rests.                                                                   *)

ChargeOf(m) ==
  [channel |-> m.lastTx, joined |-> m.joined, dutyCycle |-> m.dutyOn, age |-> m.age,
   airTime |-> m.air]

\* Once the band used last is charged, the rests of the code cover all that
\* regulations impose.
LEMMA Charged ==
  ASSUME NEW r, Contract(r), NEW p, NEW m, NEW q, Base(r, p, m, q),
         NEW c, c = RegionCalcBackOff(r, p, ChargeOf(m))
  PROVE  /\ WellFormed(r, c) /\ c.mask = p.mask /\ c.remaining = p.remaining
         /\ c.channels = p.channels
         /\ Quiet(r, c, m, q) /\ AllCovered(r, c, m, q) /\ NeverRests(r, c, m)
<1> DEFINE b == ChargeOf(m)
           band == p.channels[m.lastTx].band
           rest == RegionCalcBackOff(r, p, b).bands[band].timeOff
           bands == [p.bands EXCEPT ![band].timeOff = rest]
<1>1. /\ WellFormed(r, p) /\ MacTyped(r, m) /\ Unjoined(r, m) /\ Quiet(r, p, m, q)
      /\ OthersCovered(r, p, m, q)
  BY DEF Base
<1>2. /\ m.joined \in BOOLEAN /\ m.dutyOn = DutyCycleOn(r) /\ m.age \in Ages /\ m.air \in {0, 1}
      /\ m.lastTx \in Ids(r)
  BY <1>1, Zenon DEF MacTyped
<1>3. /\ b \in [channel : Ids(r), joined : BOOLEAN, dutyCycle : {DutyCycleOn(r)}, age : Ages,
                airTime : {0, 1}]
      /\ b.channel = m.lastTx /\ b.joined = m.joined /\ b.dutyCycle = m.dutyOn /\ b.age = m.age
      /\ b.airTime = m.air
  BY <1>2 DEF ChargeOf
<1>4. BackOff(r, p)
  BY <1>1, Zenon DEF Contract
<1> HIDE DEF b
<1>5. /\ c = [p EXCEPT !.bands[band].timeOff = rest] /\ rest \in Nat
      /\ ~m.joined \/ m.dutyOn => rest >= m.air * (RegionBandDCycle(r)[band] - 1)
      /\ ~m.joined => rest >= m.air * (GetJoinDc(m.age) - 1)
      /\ r = "AU915" /\ m.joined => rest = 0
  BY <1>3, <1>4, Zenon DEF BackOff, b
<1> HIDE DEF rest
<1>6. /\ p.bands \in [Bands(r) -> Band] /\ band \in Bands(r)
      /\ \A x \in Bands(r) : /\ p.bands[x].timeOff \in Nat /\ p.bands[x].sinceTx \in Nat
                             /\ p.bands[x].sinceJoin \in Nat
  BY <1>1, <1>2, BandFields
<1> HIDE DEF band
<1>7. c = WithBands(p, bands) /\ bands \in [Bands(r) -> Band]
  <2>1. [p EXCEPT !.bands[band].timeOff = rest] = WithBands(p, bands)
    BY Zenon DEF WithBands
  <2> QED BY <1>5, <1>6, <2>1 DEF Band
<1>8. /\ WellFormed(r, c) /\ c.bands = bands /\ c.mask = p.mask /\ c.remaining = p.remaining
      /\ c.channels = p.channels
  <2> HIDE DEF bands
  <2> QED BY <1>1, <1>7, BandsReplaced
<1>9. \A x \in Bands(r) :
        /\ c.bands[x].timeOff = (IF x = band THEN rest ELSE p.bands[x].timeOff)
        /\ c.bands[x].sinceTx = p.bands[x].sinceTx /\ c.bands[x].sinceJoin = p.bands[x].sinceJoin
  BY <1>6, <1>8 DEF Band
<1>10. JoinBand(r) \in Bands(r) /\ RegionBandDCycle(r) \in [Bands(r) -> Nat \ {0}]
  BY ConstantsKept
<1>11. Quiet(r, c, m, q)
  BY <1>1, <1>9, <1>10 DEF Quiet
<1>12. AllCovered(r, c, m, q)
  <2>1. ASSUME NEW x \in Bands(r) PROVE Covered(c, q, x)
    <3>1. CASE x # band
      BY <1>1, <1>9, <3>1 DEF OthersCovered, Covered, band
    <3>2. CASE x = band
      <4>1. SUFFICES ASSUME q.bands[x] # 0
                     PROVE  q.bands[x] + p.bands[x].sinceTx <= rest
        BY <1>9, <3>2 DEF Covered
      <4>2. m.air = 1 /\ m.dutyOn
        BY <1>1, <1>2, <4>1 DEF Quiet
      <4>3. q.bands[x] + p.bands[x].sinceTx <= RegionBandDCycle(r)[band] - 1
        BY <1>1, <3>2, <4>1 DEF Quiet
      <4>4. rest >= RegionBandDCycle(r)[band] - 1
        BY <1>5, <1>6, <1>10, <4>2
      <4>5. q.bands[x] \in Nat
        BY <1>1 DEF Quiet
      <4> QED BY <1>5, <1>6, <1>10, <4>3, <4>4, <4>5
    <3> QED BY <3>1, <3>2
  <2>2. ASSUME ~m.joined, q.factor # 0
        PROVE  q.factor + c.bands[JoinBand(r)].sinceTx <= c.bands[JoinBand(r)].timeOff
    <3>1. band = JoinBand(r)
      BY <1>1, <2>2, Zenon DEF Unjoined, WellFormed, band
    <3>2. m.air = 1 /\ q.factor + p.bands[band].sinceTx <= GetJoinDc(m.age) - 1 /\ q.factor \in Nat
      BY <1>1, <1>2, <2>2, <3>1 DEF Quiet
    <3>3. GetJoinDc(m.age) \in Nat
      BY <1>2, JoinDuty
    <3>4. rest >= GetJoinDc(m.age) - 1
      BY <1>5, <2>2, <3>2, <3>3
    <3> QED BY <1>5, <1>6, <1>9, <3>1, <3>2, <3>3, <3>4
  <2> QED BY <2>1, <2>2, Zenon DEF AllCovered
<1>13. NeverRests(r, c, m)
  <2>1. ASSUME r = "AU915" PROVE Bands(r) = {JoinBand(r)}
    BY <2>1, Zenon DEF Contract, Constants
  <2> QED BY <1>5, <1>6, <1>9, <2>1 DEF NeverRests
<1> QED BY <1>8, <1>11, <1>12, <1>13

\* A change of the MAC's variables that keeps the device's age, what it has
\* sent and the band used last.
LEMMA MacChanged ==
  ASSUME NEW r, NEW p, NEW m, NEW q, Base(r, p, m, q), NEW n, MacTyped(r, n), Unjoined(r, n),
         n.age = m.age, n.air = m.air, m.joined => n.joined,
         p.channels[n.lastTx].band = p.channels[m.lastTx].band
  PROVE  Base(r, p, n, q)
<1>1. n.dutyOn = m.dutyOn
  BY Zenon DEF Base, MacTyped
<1>2. Quiet(r, p, n, q)
  BY <1>1, Zenon DEF Base, Quiet
<1>3. OthersCovered(r, p, n, q)
  BY Zenon DEF Base, OthersCovered
<1> QED BY <1>2, <1>3, Zenon DEF Base

\* The same for the fields that only tell how far the procedure is.
LEMMA NotesChanged ==
  ASSUME NEW r, NEW p, NEW m, NEW q, Base(r, p, m, q), NEW n, DOMAIN n = DOMAIN m,
         \A f \in Fields \ {"running", "rep", "tries", "nbRep", "maxDc", "caller", "cad", "got",
                            "win1", "win2", "requests", "edits"} : n[f] = m[f]
  PROVE  Base(r, p, n, q) /\ Joining(n) = Joining(m)
<1>1. MacTyped(r, m) /\ Unjoined(r, m)
  BY Zenon DEF Base
<1>2. DOMAIN n = Fields
  BY <1>1, Zenon DEF MacTyped
<1>3. /\ n.adr = m.adr /\ n.joined = m.joined /\ n.dutyOn = m.dutyOn /\ n.age = m.age
      /\ n.adrCounter = m.adrCounter /\ n.aggrDc = m.aggrDc /\ n.power = m.power /\ n.dr = m.dr
      /\ n.minDr = m.minDr /\ n.rx1Off = m.rx1Off /\ n.rx2 = m.rx2 /\ n.defRx2 = m.defRx2
      /\ n.upDwell = m.upDwell /\ n.downDwell = m.downDwell /\ n.maxEirp = m.maxEirp
      /\ n.channel = m.channel /\ n.lastTx = m.lastTx /\ n.frame = m.frame
      /\ n.trials = m.trials /\ n.wait = m.wait /\ n.air = m.air /\ n.aggrOff = m.aggrOff
      /\ n.sinceAggr = m.sinceAggr
  BY DEF Fields
<1>4. MacTyped(r, n) /\ Unjoined(r, n)
  BY <1>1, <1>2, <1>3, Zenon DEF MacTyped, Unjoined
<1>5. Joining(n) = Joining(m)
  BY <1>3, Zenon DEF Joining
<1> QED BY <1>3, <1>4, <1>5, MacChanged, Zenon

-----------------------------------------------------------------------------
(* What a handler leaves.                                                   *)

Leaves(r, s, q) ==
  /\ s.phase \in {"idle", "search", "delayed", "check"}
  /\ Base(r, s.g, s.mac, q)
  /\ s.phase = "search" => SearchReady(r, s.g, s.mac, q)
  /\ s.phase = "delayed" => Joining(s.mac)

\* ScheduleTx charges the band used last before it looks for a channel.
LEMMA Scheduled ==
  ASSUME Contract(region), WellFormed(region, g),
         NEW p, NEW m, NEW q, Base(region, p, m, q), Joining(m), NEW s \in ScheduleTx(p, m)
  PROVE  Leaves(region, s, q) /\ s.g.mask = p.mask /\ s.g.remaining = p.remaining
<1>1. /\ WellFormed(region, p) /\ MacTyped(region, m) /\ Unjoined(region, m)
      /\ Quiet(region, p, m, q) /\ OthersCovered(region, p, m, q)
  BY Zenon DEF Base
<1>2. CASE s = [g |-> p, mac |-> Refused(m), phase |-> "idle"]
  <2>1. s.g = p /\ s.mac = Refused(m) /\ s.phase = "idle"
    BY <1>2
  <2>2. Base(region, p, Refused(m), q)
    <3>1. /\ DOMAIN Refused(m) = DOMAIN m
          /\ \A f \in Fields \ {"running"} : Refused(m)[f] = m[f]
      BY <1>1, Zenon DEF Refused, MacTyped
    <3> QED BY <3>1, NotesChanged
  <2> QED BY <2>1, <2>2, Zenon DEF Leaves
<1>3. ASSUME NEW garbage \in {0, 1},
             s = [g |-> CalculateBackOff(p, m).g, phase |-> "search",
                  mac |-> [CalculateBackOff(p, m).mac EXCEPT !.minDr = LowestTxDr(garbage)]]
      PROVE  Leaves(region, s, q) /\ s.g.mask = p.mask /\ s.g.remaining = p.remaining
  <2> DEFINE c == RegionCalcBackOff(region, p, ChargeOf(m))
             off == m.air * m.aggrDc - m.air
             low == LowestTxDr(garbage)
             n == [[m EXCEPT !.aggrOff = off] EXCEPT !.minDr = low]
  <2>1. s.g = c /\ s.mac = n /\ s.phase = "search"
    BY <1>3, Zenon DEF CalculateBackOff, ChargeOf
  <2>2. low \in Rate
    BY Zenon DEF LowestTxDr, Contract, RatesAsked
  <2>3. off \in Int /\ off = m.air * (m.aggrDc - 1)
    <3>1. m.air \in {0, 1} /\ m.aggrDc \in Int
      BY <1>1, Zenon DEF MacTyped
    <3> QED BY <3>1
  <2>4. /\ WellFormed(region, c) /\ c.mask = p.mask /\ c.remaining = p.remaining
        /\ c.channels = p.channels
        /\ Quiet(region, c, m, q) /\ AllCovered(region, c, m, q) /\ NeverRests(region, c, m)
    BY Charged, Zenon
  <2> HIDE DEF c, off, low
  <2>5. /\ DOMAIN n = DOMAIN m /\ n.aggrOff = off /\ n.minDr = low
        /\ \A f \in Fields \ {"aggrOff", "minDr"} : n[f] = m[f]
    BY <1>1, Zenon DEF MacTyped, Fields
  <2> HIDE DEF n
  <2>6. /\ n.adr = m.adr /\ n.joined = m.joined /\ n.dutyOn = m.dutyOn /\ n.age = m.age
        /\ n.adrCounter = m.adrCounter /\ n.aggrDc = m.aggrDc /\ n.power = m.power /\ n.dr = m.dr
        /\ n.rx1Off = m.rx1Off /\ n.rx2 = m.rx2 /\ n.defRx2 = m.defRx2
        /\ n.upDwell = m.upDwell /\ n.downDwell = m.downDwell /\ n.maxEirp = m.maxEirp
        /\ n.channel = m.channel /\ n.lastTx = m.lastTx /\ n.frame = m.frame
        /\ n.trials = m.trials /\ n.wait = m.wait /\ n.air = m.air /\ n.sinceAggr = m.sinceAggr
    BY <2>5 DEF Fields
  <2>7. MacTyped(region, n) /\ Unjoined(region, n)
    BY <1>1, <2>2, <2>3, <2>5, <2>6, Zenon DEF MacTyped, Unjoined
  <2>8. Aggregated(n) /\ Joining(n)
    BY <2>3, <2>5, <2>6, Zenon DEF Aggregated, Joining
  <2>9. AllCovered(region, c, n, q) /\ NeverRests(region, c, n)
    BY <2>4, <2>6, Zenon DEF AllCovered, NeverRests
  <2>10. Base(region, c, m, q)
    BY <1>1, <2>4, Zenon DEF Base, AllCovered, OthersCovered
  <2>11. Base(region, c, n, q)
    BY <2>6, <2>7, <2>10, MacChanged, Zenon
  <2> QED BY <2>1, <2>4, <2>8, <2>9, <2>11, Zenon DEF Leaves, SearchReady
<1> QED BY <1>2, <1>3, Zenon DEF ScheduleTx

\* A join request starts from the defaults, at the rate of the attempt.
JoinParameters(r, m, dr) == [ResetMacParameters(r, m) EXCEPT !.dr = dr]
LEMMA ResetForJoin ==
  ASSUME NEW r, Contract(r), NEW p, NEW m, NEW q, Base(r, p, m, q), ~m.joined,
         NEW dr \in Rate, NEW n, n = JoinParameters(r, m, dr)
  PROVE  Base(r, p, n, q) /\ n.joined = m.joined /\ n.frame = m.frame
<1>1. /\ WellFormed(r, p) /\ MacTyped(r, m) /\ Unjoined(r, m)
  BY Zenon DEF Base
<1>2. /\ 0 \in Ids(r) /\ 0 \in RegionJoinChannels(r) /\ Default(r, "PHY_DEF_TX_POWER") \in Int
      /\ Eirp(r, MaxEirp(r)) /\ RxOffset(r, 0)
  BY ConstantsKept DEF Contract, Constants, Eirp
<1>3. DOMAIN m = Fields
  BY <1>1, Zenon DEF MacTyped
<1>4. /\ DOMAIN n = Fields /\ n.adrCounter = 0 /\ n.aggrDc = 1
      /\ n.power = Default(r, "PHY_DEF_TX_POWER") /\ n.dr = dr /\ n.rx1Off = 0 /\ n.rx2 = m.defRx2
      /\ n.upDwell = 0 /\ n.downDwell = 0 /\ n.maxEirp = MaxEirp(r) /\ n.channel = 0 /\ n.lastTx = 0
  BY <1>3, ZenonT(30) DEF JoinParameters, ResetMacParameters, Fields, MaxEirp
<1>5. /\ n.adr = m.adr /\ n.joined = m.joined /\ n.dutyOn = m.dutyOn /\ n.age = m.age
      /\ n.minDr = m.minDr /\ n.defRx2 = m.defRx2 /\ n.frame = m.frame
      /\ n.trials = m.trials /\ n.wait = m.wait /\ n.air = m.air /\ n.aggrOff = m.aggrOff
      /\ n.sinceAggr = m.sinceAggr
  BY <1>3, ZenonT(30) DEF JoinParameters, ResetMacParameters, Fields
<1>6. MacTyped(r, n)
  <2>1. 0 \in Nat /\ 1 \in Int /\ 0 \in {0, 1}
    OBVIOUS
  <2> QED BY <1>1, <1>2, <1>4, <1>5, <2>1, Zenon DEF MacTyped
<1>7. Unjoined(r, n)
  BY <1>1, <1>2, <1>4, <1>5, Zenon DEF Unjoined
<1>8. p.channels[n.lastTx].band = p.channels[m.lastTx].band
  BY <1>1, <1>2, <1>4, Zenon DEF Unjoined, WellFormed
<1> QED BY <1>5, <1>6, <1>7, <1>8, MacChanged, Zenon

\* A change of the channels keeps the rests; that of the band used last is
\* forgotten when its channel moves to another band.
Forgotten(p, h, m, q) ==
  LET old == p.channels[m.lastTx].band
  IN  IF h.channels[m.lastTx].band = old THEN q ELSE [q EXCEPT !.bands[old] = 0]
LEMMA PlanEdited ==
  ASSUME NEW r, Contract(r), NEW p, NEW m, NEW q, Base(r, p, m, q), NEW h, Edited(r, p, h)
  PROVE  /\ Base(r, h, m, Forgotten(p, h, m, q))
         /\ ~m.joined \/ h.channels = p.channels => Base(r, h, m, q)
<1>1. /\ WellFormed(r, p) /\ MacTyped(r, m) /\ Unjoined(r, m) /\ Quiet(r, p, m, q)
      /\ OthersCovered(r, p, m, q)
  BY Zenon DEF Base
<1>2. WellFormed(r, h) /\ h.bands = p.bands
  BY Zenon DEF Edited
<1>3. Quiet(r, h, m, q)
  BY <1>1, <1>2, Zenon DEF Quiet
<1>4. CASE h.channels[m.lastTx].band = p.channels[m.lastTx].band
  <2>1. OthersCovered(r, h, m, q)
    BY <1>1, <1>2, <1>4, Zenon DEF OthersCovered, Covered
  <2>2. Forgotten(p, h, m, q) = q
    BY <1>4, Zenon DEF Forgotten
  <2> QED BY <1>1, <1>2, <1>3, <2>1, <2>2, Zenon DEF Base
<1>5. CASE h.channels[m.lastTx].band # p.channels[m.lastTx].band
  <2> DEFINE old == p.channels[m.lastTx].band
             n == [q EXCEPT !.bands[old] = 0]
  <2>1. m.lastTx \in Ids(r)
    BY <1>1, Zenon DEF MacTyped
  <2>2. old \in Bands(r) /\ h.channels[m.lastTx].band \in Bands(r)
    BY <1>1, <1>2, <2>1, BandFields
  <2> HIDE DEF old
  <2>3. /\ n \in [bands : [Bands(r) -> Nat], factor : Nat, join : Nat] /\ n.factor = q.factor
        /\ \A b \in Bands(r) : n.bands[b] = IF b = old THEN 0 ELSE q.bands[b]
    BY <1>1, <2>2 DEF Quiet
  <2> HIDE DEF n
  <2>4. Quiet(r, h, m, n)
    BY <1>3, <2>3, Zenon DEF Quiet
  <2>5. OthersCovered(r, h, m, n)
    BY <1>1, <1>2, <2>3, Zenon DEF OthersCovered, Covered, old
  <2>6. m.joined /\ h.channels # p.channels
    BY <1>1, <1>2, <1>5, Zenon DEF Unjoined, WellFormed
  <2>7. Forgotten(p, h, m, q) = n
    BY <1>5, Zenon DEF Forgotten, n, old
  <2> QED BY <1>1, <1>2, <2>4, <2>5, <2>6, <2>7, Zenon DEF Base
<1> QED BY <1>4, <1>5

\* The round of hops goes on with the channels that stay enabled.
Onward(r, p, h) == r \in HopRegions => h.remaining \cap Narrow = p.remaining \cap h.mask \cap Narrow

\* A frame is sent again as a retry, a join request from the start.
LEMMA SentAgain ==
  ASSUME Contract(region), WellFormed(region, g),
         NEW p, NEW m, NEW q, Base(region, p, m, q), Joining(m), NEW s \in SendAgain(p, m)
  PROVE  Leaves(region, s, q) /\ Onward(region, p, s.g)
<1> DEFINE alt == RegionAlternateDr(region, p, m.trials + 1)
           m1 == [m EXCEPT !.caller = "delayed"]
           n == JoinParameters(region, m1, alt.dr)
<1>1. /\ WellFormed(region, p) /\ MacTyped(region, m) /\ Unjoined(region, m)
  BY Zenon DEF Base
<1>2. Base(region, p, m1, q) /\ Joining(m1) /\ m1.joined = m.joined /\ m1.frame = m.frame
  <2>1. DOMAIN m = Fields
    BY <1>1, Zenon DEF MacTyped
  <2>2. DOMAIN m1 = DOMAIN m /\ \A f \in Fields \ {"caller"} : m1[f] = m[f]
    BY <2>1, Zenon
  <2> HIDE DEF m1
  <2>3. m1.joined = m.joined /\ m1.frame = m.frame
    BY <2>2 DEF Fields
  <2> QED BY <2>2, <2>3, NotesChanged
<1> HIDE DEF m1
<1>3. CASE m.frame = "JOIN"
  <2>1. m.trials + 1 \in Nat
    <3>1. m.trials \in Nat
      BY <1>1, Zenon DEF MacTyped
    <3> QED BY <3>1
  <2>2. MaskEdited(region, p, alt.g) /\ alt.dr \in Rate
    BY <1>1, <2>1, Zenon DEF Contract, MacEdits
  <2> HIDE DEF alt
  <2>3. Base(region, alt.g, m1, q)
    BY <1>2, <2>2, PlanEdited, Zenon DEF MaskEdited
  <2>4. ~m1.joined
    BY <1>2, <1>3, Zenon DEF Joining
  <2>5. Base(region, alt.g, n, q) /\ Joining(n)
    <3>1. Base(region, alt.g, n, q) /\ n.joined = m1.joined
      BY <2>2, <2>3, <2>4, ResetForJoin
    <3> QED BY <2>4, <3>1, Zenon DEF Joining
  <2>6. s \in ScheduleTx(alt.g, n)
    BY <1>3, Zenon DEF SendAgain, m1, alt, JoinParameters
  <2> HIDE DEF n
  <2>7. Leaves(region, s, q) /\ s.g.mask = alt.g.mask /\ s.g.remaining = alt.g.remaining
    BY <2>5, <2>6, Scheduled
  <2> QED BY <2>2, <2>7, Zenon DEF Onward, MaskEdited, Edited
<1>4. CASE m.frame # "JOIN"
  <2>1. s \in ScheduleTx(p, m1)
    BY <1>4, Zenon DEF SendAgain, m1
  <2>2. Leaves(region, s, q) /\ s.g.mask = p.mask /\ s.g.remaining = p.remaining
    BY <1>2, <2>1, Scheduled
  <2>3. region \in HopRegions => p.remaining \subseteq p.mask
    BY <1>1, Zenon DEF WellFormed
  <2>4. Onward(region, p, s.g)
    BY <2>2, <2>3 DEF Onward
  <2> QED BY <2>2, <2>4
<1> QED BY <1>3, <1>4

-----------------------------------------------------------------------------
(* The steps of a handler.                                                  *)

\* What the invariant says in every phase.
LEMMA AtHand ==
  ASSUME RegionsKeepContract, IInv
  PROVE  /\ region \in Regions /\ Contract(region) /\ Base(region, g, mac, quiet)
         /\ WellFormed(region, g) /\ MacTyped(region, mac) /\ Unjoined(region, mac)
         /\ Hops(region, g, round) /\ DOMAIN mac = Fields
BY Zenon DEF RegionsKeepContract, IInv, Base, MacTyped

\* A handler that leaves the device at rest, searching or waiting.
LEMMA LeaveKeeps ==
  ASSUME IInv, NEW s, NEW q, Leave(s, q), Leaves(region, s, q), Onward(region, g, s.g)
  PROVE  IInv'
<1>1. /\ region' = region /\ g' = s.g /\ mac' = s.mac /\ phase' = s.phase /\ quiet' = q
      /\ round' = RoundAfter(s.g.mask)
  BY Zenon DEF Leave
<1>2. Hops(region, g', round')
  <2>1. SUFFICES ASSUME region \in HopRegions
                 PROVE  g'.remaining \cap Narrow = (g'.mask \cap Narrow) \ round'
    BY Zenon DEF Hops
  <2>2. g.remaining \cap Narrow = (g.mask \cap Narrow) \ round
    BY <2>1, Zenon DEF IInv, Hops
  <2>3. round' = (round \cap g'.mask \cap Narrow) \cup ((g'.mask \ g.mask) \cap Narrow)
    BY <1>1, <2>1, Zenon DEF RoundAfter
  <2>4. g'.remaining \cap Narrow = g.remaining \cap g'.mask \cap Narrow
    BY <1>1, <2>1, Zenon DEF Onward
  <2> QED BY <2>2, <2>3, <2>4
<1>3. phase' \in {"idle", "search", "delayed", "check"}
  BY <1>1, Zenon DEF Leaves
<1>4. phase' \notin Sending /\ phase' \notin Awaiting /\ phase' \notin {"sense", "clear", "sending", "rx1", "rx2"}
  BY <1>3 DEF Sending, Awaiting
<1>5. /\ Base(region, g', mac', quiet')
      /\ phase' = "search" => SearchReady(region, g', mac', quiet')
      /\ phase' = "delayed" => Joining(mac')
  BY <1>1, Zenon DEF Leaves
<1>6. TimeOffRespected' /\ WindowHearsPreamble'
  BY <1>4, Zenon DEF TimeOffRespected, WindowHearsPreamble
<1>7. region \in Regions
  BY Zenon DEF IInv
<1> QED BY <1>1, <1>2, <1>3, <1>4, <1>5, <1>6, <1>7, Zenon DEF IInv

\* An edit of the plan, and a change of the MAC, without a search.
LEMMA LeavesAtRest ==
  ASSUME NEW r, NEW p, NEW m, NEW q, Base(r, p, m, q), NEW ph \in {"idle", "check", "delayed"},
         ph = "delayed" => Joining(m)
  PROVE  Leaves(r, [g |-> p, mac |-> m, phase |-> ph], q)
BY Zenon DEF Leaves

\* A request to join.
LEMMA JoinRequestKeeps == ASSUME RegionsKeepContract, IInv, JoinRequest PROVE IInv'
<1> DEFINE m == [mac EXCEPT !.requests = @ + 1, !.trials = 0, !.frame = "JOIN", !.caller = "request"]
           alt == RegionAlternateDr(region, g, 1)
           n == JoinParameters(region, m, alt.dr)
<1>1. /\ Contract(region) /\ Base(region, g, mac, quiet)
      /\ WellFormed(region, g) /\ MacTyped(region, mac) /\ Unjoined(region, mac)
      /\ DOMAIN mac = Fields
  BY AtHand, Zenon
<1>2. PICK s \in ScheduleTx(alt.g, n) : Leave(s, quiet)
  BY Zenon DEF JoinRequest, JoinParameters
<1>3. /\ DOMAIN m = Fields /\ m.trials = 0 /\ m.frame = "JOIN"
      /\ \A f \in Fields \ {"requests", "trials", "frame", "caller"} : m[f] = mac[f]
  BY <1>1, Zenon DEF Fields
<1> HIDE DEF m
<1>4. /\ m.adr = mac.adr /\ m.joined = mac.joined /\ m.dutyOn = mac.dutyOn /\ m.age = mac.age
      /\ m.adrCounter = mac.adrCounter /\ m.aggrDc = mac.aggrDc /\ m.power = mac.power
      /\ m.dr = mac.dr /\ m.minDr = mac.minDr /\ m.rx1Off = mac.rx1Off /\ m.rx2 = mac.rx2
      /\ m.defRx2 = mac.defRx2 /\ m.upDwell = mac.upDwell /\ m.downDwell = mac.downDwell
      /\ m.maxEirp = mac.maxEirp /\ m.channel = mac.channel /\ m.lastTx = mac.lastTx
      /\ m.wait = mac.wait /\ m.air = mac.air /\ m.aggrOff = mac.aggrOff
      /\ m.sinceAggr = mac.sinceAggr
  BY <1>3 DEF Fields
<1>5. ~mac.joined
  BY Zenon DEF JoinRequest
<1>6. MacTyped(region, m) /\ Unjoined(region, m)
  <2>1. 0 \in Nat
    OBVIOUS
  <2> QED BY <1>1, <1>3, <1>4, <2>1, Zenon DEF MacTyped, Unjoined
<1>7. Base(region, g, m, quiet)
  BY <1>1, <1>4, <1>6, MacChanged, Zenon
<1>8. MaskEdited(region, g, alt.g) /\ alt.dr \in Rate
  <2>1. 1 \in Nat
    OBVIOUS
  <2> QED BY <1>1, <2>1, Zenon DEF Contract, MacEdits
<1> HIDE DEF alt
<1>9. Base(region, alt.g, m, quiet)
  BY <1>1, <1>7, <1>8, PlanEdited, Zenon DEF MaskEdited
<1>10. Base(region, alt.g, n, quiet) /\ n.joined = m.joined
  BY <1>1, <1>4, <1>5, <1>8, <1>9, ResetForJoin
<1> HIDE DEF n
<1>11. Joining(n)
  BY <1>4, <1>5, <1>10, Zenon DEF Joining
<1>12. Leaves(region, s, quiet) /\ s.g.mask = alt.g.mask /\ s.g.remaining = alt.g.remaining
  BY <1>1, <1>10, <1>11, Scheduled
<1>13. Onward(region, g, s.g)
  BY <1>8, <1>12, Zenon DEF Onward, MaskEdited, Edited
<1> QED BY <1>2, <1>12, <1>13, LeaveKeeps, Zenon

-----------------------------------------------------------------------------
(* Changes of some of the MAC's variables.                                  *)

Kept(m, n, S) == DOMAIN n = Fields /\ \A f \in Fields \ S : n[f] = m[f]

\* The variables outside S keep their types, those in S have them.
LEMMA Retyped ==
  ASSUME NEW r, NEW m, MacTyped(r, m), NEW n, NEW S, Kept(m, n, S),
         {"adr", "dutyOn", "minDr", "rx2", "defRx2"} \cap S = {},
         "joined" \in S => n.joined \in BOOLEAN,
         "age" \in S => n.age \in Ages, "air" \in S => n.air \in {0, 1},
         "frame" \in S => n.frame \in {"NONE", "JOIN", "CONFIRMED", "UNCONFIRMED"},
         "dr" \in S => n.dr \in Rate, "power" \in S => n.power \in Int,
         "maxEirp" \in S => Eirp(r, n.maxEirp),
         "adrCounter" \in S => n.adrCounter \in Nat, "trials" \in S => n.trials \in Nat,
         "wait" \in S => n.wait \in Nat, "sinceAggr" \in S => n.sinceAggr \in Nat,
         "aggrDc" \in S => n.aggrDc \in Int, "aggrOff" \in S => n.aggrOff \in Int,
         "rx1Off" \in S => RxOffset(r, n.rx1Off),
         "upDwell" \in S => n.upDwell \in {0, 1}, "downDwell" \in S => n.downDwell \in {0, 1},
         "channel" \in S => n.channel \in Ids(r), "lastTx" \in S => n.lastTx \in Ids(r)
  PROVE  MacTyped(r, n)
<1>1. /\ n.adr = m.adr /\ n.dutyOn = m.dutyOn /\ n.minDr = m.minDr
      /\ n.rx2 = m.rx2 /\ n.defRx2 = m.defRx2
  BY DEF Kept, Fields
<1>2. /\ n.joined \in BOOLEAN /\ n.age \in Ages /\ n.air \in {0, 1}
      /\ n.frame \in {"NONE", "JOIN", "CONFIRMED", "UNCONFIRMED"}
      /\ n.dr \in Rate /\ n.power \in Int
  BY ZenonT(30) DEF Kept, Fields, MacTyped
<1>3. /\ n.adrCounter \in Nat /\ n.trials \in Nat /\ n.wait \in Nat /\ n.sinceAggr \in Nat
      /\ n.aggrDc \in Int /\ n.aggrOff \in Int
  BY ZenonT(30) DEF Kept, Fields, MacTyped
<1>4. /\ Eirp(r, n.maxEirp) /\ RxOffset(r, n.rx1Off)
      /\ n.upDwell \in {0, 1} /\ n.downDwell \in {0, 1}
      /\ n.channel \in Ids(r) /\ n.lastTx \in Ids(r)
  BY ZenonT(30) DEF Kept, Fields, MacTyped
<1> QED BY <1>1, <1>2, <1>3, <1>4, Zenon DEF MacTyped, Kept

\* The MAC's variables may change while the device's history stays.
LEMMA BaseKept ==
  ASSUME NEW r, NEW p, NEW m, NEW q, Base(r, p, m, q), NEW n, MacTyped(r, n), NEW S, Kept(m, n, S),
         {"age", "air", "lastTx"} \cap S = {}, m.joined => n.joined,
         ~n.joined => n.frame \in {"NONE", "JOIN"} /\ n.channel \in RegionJoinChannels(r)
  PROVE  Base(r, p, n, q)
<1>1. n.age = m.age /\ n.air = m.air /\ n.lastTx = m.lastTx
  BY DEF Kept, Fields
<1>2. Unjoined(r, n)
  BY <1>1, Zenon DEF Base, Unjoined
<1> QED BY <1>1, <1>2, MacChanged, Zenon

\* A request of the application to send a frame.
LEMMA McpsRequestKeeps ==
  ASSUME RegionsKeepContract, IInv, NEW frame \in FrameTypes(region), NEW dr \in Rates,
         NEW silent \in {mac.adrCounter} \cup SilentUplinks(region), McpsRequest(frame, dr, silent)
  PROVE  IInv'
<1> DEFINE low == LowestTxDr(mac.upDwell)
           clamped == Min({Max({dr, low}), Default(region, "PHY_MAX_TX_DR")})
           rate == IF mac.adr THEN mac.dr ELSE clamped
           a == [adr |-> mac.adr, dr |-> rate, power |-> mac.power, counter |-> silent,
                 dwell |-> mac.upDwell, updateMask |-> TRUE]
           adr == RegionAdrNext(region, g, a)
           m == [mac EXCEPT !.requests = @ + 1, !.frame = frame, !.caller = "request",
                            !.tries = 1, !.dr = adr.dr, !.power = adr.power,
                            !.adrCounter = adr.counter]
           S == {"requests", "frame", "caller", "tries", "dr", "power", "adrCounter"}
<1>1. /\ region \in Regions /\ Contract(region) /\ Base(region, g, mac, quiet)
      /\ WellFormed(region, g) /\ MacTyped(region, mac) /\ DOMAIN mac = Fields
  BY AtHand, Zenon
<1>2. PICK s \in ScheduleTx(adr.g, m) : Leave(s, quiet)
  BY Zenon DEF McpsRequest
<1>3. mac.joined
  BY Zenon DEF McpsRequest
<1>4. frame \in {"CONFIRMED", "UNCONFIRMED"} /\ dr \in Int /\ silent \in Nat
  BY <1>1, DeviceAssumption DEF MacTyped
<1>5. rate \in Rate
  <2>1. low \in Rate
    BY <1>1, Zenon DEF LowestTxDr, Contract, RatesAsked, MacTyped
  <2>2. Default(region, "PHY_MAX_TX_DR") \in 0 .. 127 /\ mac.dr \in Rate
    BY <1>1, Zenon DEF Contract, Constants, TopRate, MacTyped
  <2>3. low \in Int
    BY <2>1 DEF Rate
  <2> HIDE DEF low
  <2>4. Max({dr, low}) = IF dr >= low THEN dr ELSE low
    BY <1>4, <2>3, MaxOfTwo, Zenon
  <2>5. Max({dr, low}) \in Int /\ Max({dr, low}) >= low
    BY <1>4, <2>3, <2>4
  <2>6. clamped = IF Max({dr, low}) <= Default(region, "PHY_MAX_TX_DR") THEN Max({dr, low})
                                                    ELSE Default(region, "PHY_MAX_TX_DR")
    <3>1. Default(region, "PHY_MAX_TX_DR") \in Int
      BY <2>2
    <3> QED BY <2>5, <3>1, MinOfTwo, Zenon
  <2> QED BY <2>1, <2>2, <2>5, <2>6 DEF Rate
<1> HIDE DEF rate
<1>6. MaskEdited(region, g, adr.g) /\ adr.dr \in Rate /\ adr.power \in Int /\ adr.counter \in Nat
  <2>1. a \in [adr : BOOLEAN, dr : Rate, power : Int, counter : Nat, dwell : {0, 1},
               updateMask : BOOLEAN]
    BY <1>1, <1>4, <1>5 DEF MacTyped
  <2> HIDE DEF a
  <2> QED BY <1>1, <2>1, Zenon DEF Contract, MacEdits
<1> HIDE DEF adr
<1>7. Kept(mac, m, S) /\ m.frame = frame /\ m.dr = adr.dr /\ m.power = adr.power
      /\ m.adrCounter = adr.counter
  BY <1>1, ZenonT(30) DEF Fields, Kept
<1> HIDE DEF m
<1>8. m.joined
  BY <1>3, <1>7 DEF Kept, Fields
<1>9. MacTyped(region, m)
  BY <1>1, <1>4, <1>6, <1>7, Retyped
<1>10. Base(region, g, m, quiet)
  BY <1>1, <1>7, <1>8, <1>9, BaseKept
<1>11. Base(region, adr.g, m, quiet)
  BY <1>1, <1>6, <1>10, PlanEdited, Zenon DEF MaskEdited
<1>12. Joining(m)
  BY <1>4, <1>7 DEF Joining
<1>13. Leaves(region, s, quiet) /\ s.g.mask = adr.g.mask /\ s.g.remaining = adr.g.remaining
  BY <1>1, <1>2, <1>11, <1>12, Scheduled
<1>14. Onward(region, g, s.g)
  BY <1>6, <1>13, Zenon DEF Onward, MaskEdited, Edited
<1> QED BY <1>2, <1>13, <1>14, LeaveKeeps, Zenon

-----------------------------------------------------------------------------
(* The other requests and commands.                                         *)

\* A step to a phase in which nothing is on its way.
LEMMA RestKeeps ==
  ASSUME IInv, region' = region, phase' \in {"idle", "search", "delayed", "check", "wave"},
         Base(region, g', mac', quiet'), Hops(region, g', round'),
         phase' = "search" => SearchReady(region, g', mac', quiet'),
         phase' = "delayed" => Joining(mac')
  PROVE  IInv'
<1>1. phase' \notin Sending /\ phase' \notin Awaiting /\ phase' \notin {"sense", "clear", "sending", "rx1", "rx2"}
  BY DEF Sending, Awaiting
<1>2. TimeOffRespected' /\ WindowHearsPreamble'
  BY <1>1, Zenon DEF TimeOffRespected, WindowHearsPreamble
<1>3. region \in Regions
  BY Zenon DEF IInv
<1> QED BY <1>1, <1>2, <1>3, Zenon DEF IInv

\* The carrier wave, and its end.
LEMMA TxCwKeeps == ASSUME RegionsKeepContract, IInv, TxCw \/ TxCwEnd PROVE IInv'
<1>1. /\ region' = region /\ g' = g /\ quiet' = quiet /\ round' = round
      /\ phase' \in {"idle", "wave"}
  BY Zenon DEF TxCw, TxCwEnd
<1>2. Base(region, g, mac, quiet) /\ Hops(region, g, round) /\ DOMAIN mac = Fields
  BY AtHand, Zenon
<1>3. Kept(mac, mac', {"requests", "running"})
  <2>1. CASE TxCw
    BY <1>2, <2>1, Zenon DEF TxCw, Kept, Fields
  <2>2. CASE TxCwEnd
    BY <1>2, <2>2, Zenon DEF TxCwEnd, Kept, Fields
  <2> QED BY <2>1, <2>2
<1>4. Base(region, g, mac', quiet)
  <2>1. DOMAIN mac' = DOMAIN mac
    BY <1>2, <1>3 DEF Kept
  <2>2. \A f \in Fields \ {"running", "rep", "tries", "nbRep", "maxDc", "caller", "cad", "got",
                            "win1", "win2", "requests", "edits"} : mac'[f] = mac[f]
    BY <1>3, Zenon DEF Kept
  <2> QED BY <1>2, <2>1, <2>2, NotesChanged
<1>5. phase' # "search" /\ phase' # "delayed" /\ phase' \in {"idle", "search", "delayed", "check", "wave"}
  BY <1>1
<1> QED BY <1>1, <1>2, <1>4, <1>5, RestKeeps, Zenon

\* QuietAfter forgets what an edit of the plan moves.
LEMMA QuietAfterIs == ASSUME NEW h PROVE QuietAfter(h) = Forgotten(g, h, mac, quiet)
BY Zenon DEF QuietAfter, Forgotten

\* A setting of the application.
LEMMA SettingDone ==
  ASSUME RegionsKeepContract, IInv, NEW s \in Settings(region)
  PROVE  /\ Edited(region, g, AfterSetting(s).g) \/ AfterSetting(s).g = g
         /\ MacTyped(region, AfterSetting(s).mac)
         /\ \A f \in Fields \ {"rx2", "defRx2"} : AfterSetting(s).mac[f] = mac[f]
<1>1. /\ region \in Regions /\ Contract(region)
      /\ WellFormed(region, g) /\ MacTyped(region, mac) /\ DOMAIN mac = Fields
  BY AtHand, Zenon
<1>2. ApplicationEdits(region, g) /\ Setting(region, s)
  BY <1>1, SettingsAssumption, Zenon DEF Contract
<1>3. CASE s.kind = "MASK"
  <2>1. AfterSetting(s).g = RegionChanMaskSet(region, g, s.type, s.mask).g /\ AfterSetting(s).mac = mac
    BY <1>3, Zenon DEF AfterSetting
  <2>2. s.type \in {"CHANNELS_MASK", "CHANNELS_DEFAULT_MASK"} /\ s.mask \in SUBSET Ids(region)
    BY <1>2, <1>3 DEF Setting
  <2>3. Edited(region, g, RegionChanMaskSet(region, g, s.type, s.mask).g)
    BY <1>2, <2>2, Zenon DEF ApplicationEdits, MaskEdited
  <2> QED BY <1>1, <2>1, <2>3, Zenon
<1>4. CASE s.kind = "ADD"
  <2>1. AfterSetting(s).g = RegionChannelAdd(region, g, s.id, s.channel).g /\ AfterSetting(s).mac = mac
    BY <1>4, Zenon DEF AfterSetting
  <2>2. s.id \in Nat /\ s.channel \in ChannelOf(Nat, Nat)
    BY <1>2, <1>4, Zenon DEF Setting
  <2> QED BY <1>1, <1>2, <2>1, <2>2, Zenon DEF ApplicationEdits
<1>5. CASE s.kind = "REMOVE"
  <2>1. AfterSetting(s).g = RegionChannelsRemove(region, g, s.id).g /\ AfterSetting(s).mac = mac
    BY <1>5, Zenon DEF AfterSetting
  <2>2. s.id \in Ids(region)
    BY <1>2, <1>5, Zenon DEF Setting
  <2> QED BY <1>1, <1>2, <2>1, <2>2, Zenon DEF ApplicationEdits
<1>6. ASSUME s.kind \in {"RX2", "DEFAULT_RX2"}, RegionVerify(region, "PHY_RX_DR", s.rx2.dr, mac.downDwell)
      PROVE  s.rx2 \in WindowOf(region)
  <2>1. s.rx2 \in Window /\ s.rx2.dr \in 0 .. 15
    BY <1>2, <1>6 DEF Setting, Window
  <2>2. mac.downDwell \in {0, 1}
    BY <1>1, Zenon DEF MacTyped
  <2> QED BY <1>2, <1>6, <2>1, <2>2, Zenon DEF ApplicationEdits, WindowOf
<1>7. CASE s.kind \in {"RX2", "DEFAULT_RX2"}
  <2> DEFINE m == AfterSetting(s).mac
  <2>1. AfterSetting(s).g = g
    BY <1>7, Zenon DEF AfterSetting
  <2>2. \/ m = mac
        \/ /\ RegionVerify(region, "PHY_RX_DR", s.rx2.dr, mac.downDwell)
           /\ m = [mac EXCEPT !.rx2 = s.rx2] \/ m = [mac EXCEPT !.defRx2 = s.rx2]
    BY <1>7, Zenon DEF AfterSetting
  <2> HIDE DEF m
  <2>3. \A f \in Fields \ {"rx2", "defRx2"} : m[f] = mac[f]
    BY <1>1, <2>2, Zenon
  <2>4. DOMAIN m = Fields
    BY <1>1, <2>2, Zenon
  <2>5. m.rx2 \in WindowOf(region) /\ m.defRx2 \in WindowOf(region)
    <3>1. mac.rx2 \in WindowOf(region) /\ mac.defRx2 \in WindowOf(region)
      BY <1>1, Zenon DEF MacTyped
    <3> QED BY <1>1, <1>6, <1>7, <2>2, <3>1, ZenonT(40) DEF Fields
  <2>6. /\ m.adr = mac.adr /\ m.joined = mac.joined /\ m.dutyOn = mac.dutyOn /\ m.age = mac.age
        /\ m.adrCounter = mac.adrCounter /\ m.aggrDc = mac.aggrDc /\ m.power = mac.power
        /\ m.dr = mac.dr /\ m.minDr = mac.minDr /\ m.rx1Off = mac.rx1Off
        /\ m.upDwell = mac.upDwell /\ m.downDwell = mac.downDwell
        /\ m.maxEirp = mac.maxEirp /\ m.channel = mac.channel /\ m.lastTx = mac.lastTx
        /\ m.frame = mac.frame /\ m.trials = mac.trials
        /\ m.wait = mac.wait /\ m.air = mac.air /\ m.aggrOff = mac.aggrOff
        /\ m.sinceAggr = mac.sinceAggr
    BY <2>3 DEF Fields
  <2>7. MacTyped(region, m)
    BY <1>1, <2>4, <2>5, <2>6, Zenon DEF MacTyped
  <2> QED BY <2>1, <2>3, <2>7, Zenon DEF m
<1> QED BY <1>2, <1>3, <1>4, <1>5, <1>7, Zenon DEF Setting

\* An edit of the plan keeps what the phases share.
LEMMA EditDone ==
  ASSUME RegionsKeepContract, IInv, NEW h, Edited(region, g, h) \/ h = g,
         NEW n, Base(region, g, n, quiet), n.lastTx = mac.lastTx
  PROVE  /\ Base(region, h, n, QuietAfter(h)) /\ Onward(region, g, h)
         /\ ~n.joined \/ h.channels = g.channels => Base(region, h, n, quiet)
<1>1. Contract(region) /\ WellFormed(region, g)
  BY AtHand, Zenon
<1>2. QuietAfter(h) = Forgotten(g, h, n, quiet)
  BY QuietAfterIs, Zenon DEF Forgotten
<1>3. CASE Edited(region, g, h)
  <2>1. Base(region, h, n, Forgotten(g, h, n, quiet))
    BY <1>1, <1>3, PlanEdited, Zenon
  <2>2. ~n.joined \/ h.channels = g.channels => Base(region, h, n, quiet)
    BY <1>1, <1>3, PlanEdited, Zenon
  <2>3. Onward(region, g, h)
    BY <1>3, Zenon DEF Onward, Edited
  <2> QED BY <1>2, <2>1, <2>2, <2>3, Zenon
<1>4. CASE h = g
  <2>1. QuietAfter(h) = quiet
    BY <1>4, Zenon DEF QuietAfter
  <2>2. region \in HopRegions => g.remaining \subseteq g.mask
    BY <1>1, Zenon DEF WellFormed
  <2>3. Onward(region, g, h)
    BY <1>4, <2>2 DEF Onward
  <2> QED BY <1>4, <2>1, <2>3, Zenon
<1> QED BY <1>3, <1>4

LEMMA SetKeeps ==
  ASSUME RegionsKeepContract, IInv, NEW s \in Settings(region), Set(s)
  PROVE  IInv'
<1> DEFINE a == AfterSetting(s)
           m == a.mac
           n == [m EXCEPT !.edits = @ + 1]
<1>1. /\ Base(region, g, mac, quiet) /\ MacTyped(region, mac) /\ Unjoined(region, mac)
  BY AtHand, Zenon
<1>2. /\ Edited(region, g, a.g) \/ a.g = g
      /\ MacTyped(region, m) /\ \A f \in Fields \ {"rx2", "defRx2"} : m[f] = mac[f]
  BY SettingDone, Zenon
<1>3. /\ phase \in {"idle", "delayed"}
      /\ Leave([g |-> a.g, mac |-> n, phase |-> phase], QuietAfter(a.g))
  BY Zenon DEF Set
<1> HIDE DEF m
<1>4. /\ m.joined = mac.joined /\ m.age = mac.age /\ m.air = mac.air /\ m.lastTx = mac.lastTx
      /\ m.frame = mac.frame /\ m.channel = mac.channel
  BY <1>2 DEF Fields
<1>5. Unjoined(region, m)
  BY <1>1, <1>4, Zenon DEF Unjoined
<1>6. Base(region, g, m, quiet)
  BY <1>1, <1>2, <1>4, <1>5, MacChanged, Zenon
<1>7. DOMAIN n = DOMAIN m /\ \A f \in Fields \ {"edits"} : n[f] = m[f]
  <2>1. DOMAIN m = Fields
    BY <1>2, Zenon DEF MacTyped
  <2> QED BY <2>1, Zenon
<1> HIDE DEF n
<1>8. Base(region, g, n, quiet) /\ Joining(n) = Joining(m)
  BY <1>6, <1>7, NotesChanged
<1>9. n.lastTx = mac.lastTx
  BY <1>4, <1>7 DEF Fields
<1>10. Base(region, a.g, n, QuietAfter(a.g)) /\ Onward(region, g, a.g)
  BY <1>2, <1>8, <1>9, EditDone, Zenon
<1>11. phase = "delayed" => Joining(n)
  <2>1. phase = "delayed" => Joining(mac)
    BY Zenon DEF IInv
  <2> QED BY <1>4, <1>8, <2>1, Zenon DEF Joining
<1> DEFINE t == [g |-> a.g, mac |-> n, phase |-> phase]
<1>12. Leaves(region, t, QuietAfter(a.g))
  BY <1>3, <1>10, <1>11, LeavesAtRest, Zenon
<1>13. Onward(region, g, t.g)
  BY <1>10, Zenon
<1>14. Leave(t, QuietAfter(a.g))
  BY <1>3, Zenon
<1> HIDE DEF t
<1> QED BY <1>12, <1>13, <1>14, LeaveKeeps, Zenon

\* A command of the network.
LEMMA CommandDone ==
  ASSUME RegionsKeepContract, IInv, NEW c \in Commands(region)
  PROVE  /\ Edited(region, g, AfterCommand(c).g) \/ AfterCommand(c).g = g
         /\ MacTyped(region, AfterCommand(c).mac)
         /\ \A f \in Fields \ {"dr", "power", "nbRep", "maxDc", "aggrDc", "rx1Off", "rx2",
                               "upDwell", "downDwell", "maxEirp"} :
              AfterCommand(c).mac[f] = mac[f]
<1> DEFINE m == AfterCommand(c).mac
<1>1. /\ region \in Regions /\ Contract(region)
      /\ WellFormed(region, g) /\ MacTyped(region, mac) /\ DOMAIN mac = Fields
  BY AtHand, Zenon
<1>2. NetworkEdits(region, g) /\ Command(region, c)
  BY <1>1, CommandsAssumption, Zenon DEF Contract
<1>3. CASE c.kind = "NONE"
  BY <1>1, <1>3, Zenon DEF AfterCommand
<1>4. CASE c.kind = "LINK_ADR"
  <2> DEFINE a == RegionLinkAdrReq(region, g, c.reqs)
  <2>1. AfterCommand(c).g = a.g
    BY <1>4, Zenon DEF AfterCommand
  <2>2. m = IF a.refused # {} THEN mac
            ELSE [mac EXCEPT !.dr = a.dr, !.power = a.power, !.nbRep = a.nbRep]
    BY <1>4, Zenon DEF AfterCommand
  <2>3. c.reqs \in Seq(Request(region)) /\ c.reqs # <<>>
    BY <1>2, <1>4, Zenon DEF Command
  <2>4. Edited(region, g, a.g) /\ (a.refused = {} => a.dr \in Rate /\ a.power \in Int)
    BY <1>2, <2>3, Zenon DEF NetworkEdits, MaskEdited
  <2> HIDE DEF a, m
  <2>5. ASSUME a.refused = {}
        PROVE  Kept(mac, m, {"dr", "power", "nbRep"}) /\ m.dr = a.dr /\ m.power = a.power
    BY <1>1, <2>2, <2>5, Zenon DEF Kept, Fields
  <2>6. MacTyped(region, m)
    <3>1. CASE a.refused = {}
      BY <1>1, <2>4, <2>5, <3>1, Retyped
    <3>2. CASE a.refused # {}
      BY <1>1, <2>2, <3>2, Zenon
    <3> QED BY <3>1, <3>2
  <2>7. \A f \in Fields \ {"dr", "power", "nbRep"} : m[f] = mac[f]
    BY <2>2, <2>5, Zenon DEF Kept
  <2> QED BY <2>1, <2>4, <2>6, <2>7, Zenon DEF m
<1>5. CASE c.kind = "DUTY_CYCLE"
  <2>1. AfterCommand(c).g = g
    BY <1>5, Zenon DEF AfterCommand
  <2>2. m = [mac EXCEPT !.maxDc = c.max, !.aggrDc = IF c.max = 255 THEN @ ELSE 2 ^ c.max]
    BY <1>5, Zenon DEF AfterCommand
  <2>3. c.max # 255 => 2 ^ c.max \in Nat
    BY <1>2, <1>5, Zenon DEF Command
  <2> HIDE DEF m
  <2>4. /\ Kept(mac, m, {"maxDc", "aggrDc"})
        /\ m.aggrDc = IF c.max = 255 THEN mac.aggrDc ELSE 2 ^ c.max
    BY <1>1, <2>2, Zenon DEF Kept, Fields
  <2>5. mac.aggrDc \in Int
    BY <1>1, Zenon DEF MacTyped
  <2> DEFINE power == 2 ^ c.max
  <2> HIDE DEF power
  <2>6. m.aggrDc \in Int
    <3>1. c.max # 255 => power \in Nat
      BY <2>3, Zenon DEF power
    <3>2. m.aggrDc = IF c.max = 255 THEN mac.aggrDc ELSE power
      BY <2>4, Zenon DEF power
    <3> QED BY <2>5, <3>1, <3>2
  <2>7. MacTyped(region, m)
    <3>1. Kept(mac, m, {"maxDc", "aggrDc"})
      BY <2>4, Zenon
    <3> QED BY <1>1, <2>6, <3>1, Retyped
  <2>8. \A f \in Fields \ {"maxDc", "aggrDc"} : m[f] = mac[f]
    BY <2>4, Zenon DEF Kept
  <2> QED BY <2>1, <2>7, <2>8, Zenon DEF m
<1>6. CASE c.kind = "RX_PARAM"
  <2> DEFINE ok == RegionRxParamSetupReq(region, c.offset, c.rx2.dr, c.rx2.freq) = {}
  <2>1. AfterCommand(c).g = g
    BY <1>6, Zenon DEF AfterCommand
  <2>2. m = IF ~ok THEN mac ELSE [mac EXCEPT !.rx1Off = c.offset, !.rx2 = c.rx2]
    BY <1>6, Zenon DEF AfterCommand
  <2>3. c.offset \in Nat /\ c.rx2 \in Window /\ (ok => RxOffset(region, c.offset))
    BY <1>2, <1>6, Zenon DEF Command
  <2>4. c.rx2.dr \in 0 .. 15 /\ c.rx2.freq \in Nat
    BY <2>3 DEF Window
  <2>5. ok => c.rx2 \in WindowOf(region)
    BY <1>2, <2>3, <2>4, Zenon DEF NetworkEdits, WindowOf
  <2> HIDE DEF ok, m
  <2>6. CASE ok
    <3>1. DOMAIN m = Fields /\ m.rx1Off = c.offset /\ m.rx2 = c.rx2
          /\ \A f \in Fields \ {"rx1Off", "rx2"} : m[f] = mac[f]
      BY <1>1, <2>2, <2>6, Zenon DEF Fields
    <3>2. /\ m.adr = mac.adr /\ m.joined = mac.joined /\ m.dutyOn = mac.dutyOn /\ m.age = mac.age
          /\ m.adrCounter = mac.adrCounter /\ m.aggrDc = mac.aggrDc /\ m.power = mac.power
          /\ m.dr = mac.dr /\ m.minDr = mac.minDr /\ m.defRx2 = mac.defRx2
          /\ m.upDwell = mac.upDwell /\ m.downDwell = mac.downDwell
          /\ m.maxEirp = mac.maxEirp /\ m.channel = mac.channel /\ m.lastTx = mac.lastTx
          /\ m.frame = mac.frame /\ m.trials = mac.trials
          /\ m.wait = mac.wait /\ m.air = mac.air /\ m.aggrOff = mac.aggrOff
          /\ m.sinceAggr = mac.sinceAggr
      BY <3>1 DEF Fields
    <3>3. MacTyped(region, m)
      BY <1>1, <2>3, <2>5, <2>6, <3>1, <3>2, Zenon DEF MacTyped
    <3> QED BY <2>1, <3>1, <3>3, Zenon DEF m
  <2>7. CASE ~ok
    BY <1>1, <2>1, <2>2, <2>7, Zenon DEF m
  <2> QED BY <2>6, <2>7
<1>7. CASE c.kind = "NEW_CHANNEL"
  <2>1. AfterCommand(c).g = RegionNewChannelReq(region, g, c.id, c.channel).g /\ m = mac
    BY <1>7, Zenon DEF AfterCommand
  <2>2. c.id \in Ids(region) /\ c.channel \in ChannelOf(Nat, Nat)
    BY <1>2, <1>7, Zenon DEF Command
  <2> QED BY <1>1, <1>2, <2>1, <2>2, Zenon DEF NetworkEdits
<1>8. CASE c.kind = "DL_CHANNEL"
  <2>1. AfterCommand(c).g = RegionDlChannelReq(region, g, c.id, c.rx1).g /\ m = mac
    BY <1>8, Zenon DEF AfterCommand
  <2>2. c.id \in Ids(region) /\ c.rx1 \in Nat
    BY <1>2, <1>8, Zenon DEF Command
  <2> QED BY <1>1, <1>2, <2>1, <2>2, Zenon DEF NetworkEdits
<1>9. CASE c.kind = "TX_PARAM"
  <2>1. AfterCommand(c).g = g
    BY <1>9, Zenon DEF AfterCommand
  <2>2. m = IF RegionTxParamSetupReq(region) = -1 THEN mac
            ELSE [mac EXCEPT !.upDwell = c.upDwell, !.downDwell = c.downDwell, !.maxEirp = c.maxEirp]
    BY <1>9, Zenon DEF AfterCommand
  <2>3. /\ c.upDwell \in {0, 1} /\ c.downDwell \in {0, 1}
        /\ RegionTxParamSetupReq(region) # -1 => Eirp(region, c.maxEirp)
    BY <1>2, <1>9, Zenon DEF Command
  <2> HIDE DEF m
  <2>4. CASE RegionTxParamSetupReq(region) # -1
    <3>1. /\ Kept(mac, m, {"upDwell", "downDwell", "maxEirp"})
          /\ m.upDwell = c.upDwell /\ m.downDwell = c.downDwell /\ m.maxEirp = c.maxEirp
      BY <1>1, <2>2, <2>4, Zenon DEF Kept, Fields
    <3>2. MacTyped(region, m)
      BY <1>1, <2>3, <2>4, <3>1, Retyped
    <3> QED BY <2>1, <3>1, <3>2, Zenon DEF m, Kept
  <2>5. CASE RegionTxParamSetupReq(region) = -1
    BY <1>1, <2>1, <2>2, <2>5, Zenon DEF m
  <2> QED BY <2>4, <2>5
<1> QED BY <1>2, <1>3, <1>4, <1>5, <1>6, <1>7, <1>8, <1>9, Zenon DEF Command

LEMMA DownlinkKeeps ==
  ASSUME RegionsKeepContract, IInv, NEW c \in Commands(region), Downlink(c)
  PROVE  IInv'
<1> DEFINE a == AfterCommand(c)
           m == a.mac
           n == [m EXCEPT !.got = TRUE, !.adrCounter = 0, !.edits = IF c.kind = "NONE" THEN @ ELSE @ + 1]
           t == [g |-> a.g, phase |-> "check", mac |-> n]
           Changed == {"dr", "power", "nbRep", "maxDc", "aggrDc", "rx1Off", "rx2", "upDwell",
                       "downDwell", "maxEirp"}
<1>1. /\ Base(region, g, mac, quiet) /\ MacTyped(region, mac)
  BY AtHand, Zenon
<1>2. /\ Edited(region, g, a.g) \/ a.g = g
      /\ MacTyped(region, m) /\ \A f \in Fields \ Changed : m[f] = mac[f]
  BY CommandDone, Zenon
<1>3. mac.joined /\ Leave(t, QuietAfter(a.g))
  BY Zenon DEF Downlink
<1> HIDE DEF m
<1>4. /\ m.joined = mac.joined /\ m.age = mac.age /\ m.air = mac.air /\ m.lastTx = mac.lastTx
      /\ m.frame = mac.frame
  BY <1>2 DEF Fields
<1>5. Base(region, g, m, quiet)
  <2>1. Unjoined(region, m)
    BY <1>3, <1>4, Zenon DEF Unjoined
  <2> QED BY <1>1, <1>2, <1>4, <2>1, MacChanged, Zenon
<1>6. Kept(m, n, {"got", "adrCounter", "edits"}) /\ n.adrCounter = 0
  <2>1. DOMAIN m = Fields
    BY <1>2, Zenon DEF MacTyped
  <2> QED BY <2>1, Zenon DEF Kept, Fields
<1> HIDE DEF n
<1>7. MacTyped(region, n) /\ n.joined /\ n.lastTx = mac.lastTx
  <2>1. MacTyped(region, n)
    BY <1>2, <1>6, Retyped
  <2> QED BY <1>3, <1>4, <1>6, <2>1 DEF Kept, Fields
<1>8. Base(region, g, n, quiet)
  BY <1>3, <1>4, <1>5, <1>6, <1>7, BaseKept
<1>9. Base(region, a.g, n, QuietAfter(a.g)) /\ Onward(region, g, a.g)
  BY <1>2, <1>7, <1>8, EditDone, Zenon
<1>10. Leaves(region, t, QuietAfter(a.g))
  BY <1>9, Zenon DEF Leaves
<1>11. Onward(region, g, t.g)
  BY <1>9, Zenon
<1> HIDE DEF t
<1> QED BY <1>3, <1>10, <1>11, LeaveKeeps, Zenon

\* The device joins.
LEMMA JoinAcceptKeeps ==
  ASSUME RegionsKeepContract, IInv, NEW a \in Accepts(region), JoinAccept(a)
  PROVE  IInv'
<1> DEFINE h == RegionApplyCFList(region, g, a.freqs)
           n == [mac EXCEPT !.joined = TRUE, !.rx1Off = a.rx1Off, !.rx2.dr = a.rx2Dr,
                            !.dr = Default(region, "PHY_DEF_TX_DR")]
           t == [g |-> h, phase |-> "check", mac |-> n]
<1>1. /\ region \in Regions /\ Contract(region) /\ Base(region, g, mac, quiet)
      /\ MacTyped(region, mac) /\ DOMAIN mac = Fields /\ WellFormed(region, g)
  BY AtHand, Zenon
<1>2. ~mac.joined /\ Leave(t, quiet)
  BY Zenon DEF JoinAccept
<1>3. Accept(region, a)
  BY <1>1, AcceptsAssumption, Zenon
<1>4. Edited(region, g, h)
  BY <1>1, <1>3, Zenon DEF Contract, NetworkEdits, Accept
<1>5. Base(region, h, mac, quiet)
  BY <1>1, <1>2, <1>4, EditDone, Zenon
<1>6. /\ DOMAIN n = Fields /\ n.joined = TRUE /\ n.rx1Off = a.rx1Off
      /\ n.rx2 = [mac.rx2 EXCEPT !.dr = a.rx2Dr] /\ n.dr = Default(region, "PHY_DEF_TX_DR")
      /\ \A f \in Fields \ {"joined", "rx1Off", "rx2", "dr"} : n[f] = mac[f]
  BY <1>1, ZenonT(30) DEF Fields
<1> HIDE DEF n, h
<1>7. /\ n.adr = mac.adr /\ n.dutyOn = mac.dutyOn /\ n.age = mac.age
      /\ n.adrCounter = mac.adrCounter /\ n.aggrDc = mac.aggrDc /\ n.power = mac.power
      /\ n.minDr = mac.minDr /\ n.defRx2 = mac.defRx2
      /\ n.upDwell = mac.upDwell /\ n.downDwell = mac.downDwell
      /\ n.maxEirp = mac.maxEirp /\ n.channel = mac.channel /\ n.lastTx = mac.lastTx
      /\ n.frame = mac.frame /\ n.trials = mac.trials
      /\ n.wait = mac.wait /\ n.air = mac.air /\ n.aggrOff = mac.aggrOff
      /\ n.sinceAggr = mac.sinceAggr
  BY <1>6 DEF Fields
<1>8. n.rx2 \in WindowOf(region)
  <2>1. mac.rx2 \in Window /\ a.rx2Dr \in 0 .. 15 /\ RxRate(region, a.rx2Dr)
    BY <1>1, <1>3, Zenon DEF MacTyped, WindowOf, Accept, RxRate
  <2>2. n.rx2 \in Window /\ n.rx2.dr = a.rx2Dr
    BY <1>6, <2>1 DEF Window
  <2> QED BY <2>1, <2>2, Zenon DEF WindowOf
<1>9. MacTyped(region, n)
  <2>1. RxOffset(region, n.rx1Off) /\ n.dr \in Rate
    BY <1>1, <1>3, <1>6, Zenon DEF Accept, Contract, Constants
  <2> QED BY <1>1, <1>6, <1>7, <1>8, <2>1, Zenon DEF MacTyped
<1>10. Unjoined(region, n)
  BY <1>6, Zenon DEF Unjoined
<1>11. Base(region, h, n, quiet)
  BY <1>5, <1>6, <1>7, <1>9, <1>10, MacChanged, Zenon
<1>12. Leaves(region, t, quiet)
  BY <1>11, Zenon DEF Leaves
<1>13. Onward(region, g, t.g)
  BY <1>4, Zenon DEF Onward, Edited
<1> HIDE DEF t
<1> QED BY <1>2, <1>12, <1>13, LeaveKeeps, Zenon

\* What OnMacStateCheckTimerEvent does of a procedure that is over.
LEMMA ProcedureOver ==
  ASSUME RegionsKeepContract, IInv, NEW m, Base(region, g, m, quiet), m.lastTx = mac.lastTx,
         NEW h, MaskEdited(region, g, h) \/ h = g,
         Leave([g |-> h, mac |-> Finished(m), phase |-> "idle"], quiet)
  PROVE  IInv'
<1> DEFINE n == Finished(m)
           t == [g |-> h, mac |-> n, phase |-> "idle"]
<1>1. DOMAIN m = Fields
  BY Zenon DEF Base, MacTyped
<1>2. DOMAIN n = DOMAIN m /\ \A f \in Fields \ {"running", "rep", "got"} : n[f] = m[f]
  BY <1>1, Zenon DEF Finished
<1>3. Leave(t, quiet)
  BY Zenon
<1> HIDE DEF n
<1>4. Base(region, g, n, quiet) /\ n.lastTx = mac.lastTx
  <2>1. Base(region, g, n, quiet)
    BY <1>2, NotesChanged
  <2>2. n.lastTx = m.lastTx
    BY <1>2 DEF Fields
  <2> QED BY <2>1, <2>2, Zenon
<1>5. Base(region, h, n, quiet) /\ Onward(region, g, h)
  <2>1. Edited(region, g, h) \/ h = g
    BY Zenon DEF MaskEdited
  <2>2. h.channels = g.channels
    BY Zenon DEF MaskEdited
  <2> QED BY <1>4, <2>1, <2>2, EditDone, Zenon
<1>6. Leaves(region, t, quiet)
  BY <1>5, Zenon DEF Leaves
<1>7. Onward(region, g, t.g)
  BY <1>5, Zenon
<1> HIDE DEF t
<1> QED BY <1>3, <1>6, <1>7, LeaveKeeps, Zenon

\* The end of an attempt to join.
LEMMA EndJoinKeeps == ASSUME RegionsKeepContract, IInv, EndJoin PROVE IInv'
<1>1. /\ region \in Regions /\ Contract(region) /\ Base(region, g, mac, quiet)
      /\ MacTyped(region, mac) /\ DOMAIN mac = Fields /\ WellFormed(region, g)
      /\ Unjoined(region, mac)
  BY AtHand, Zenon
<1>2. CASE Leave([g |-> g, mac |-> Finished(mac), phase |-> "idle"], quiet)
  BY <1>1, <1>2, ProcedureOver, Zenon
<1>3. ASSUME ~mac.joined, NEW next \in Attempts \cup {MaxTrials}, mac.trials < next,
             NEW s \in SendAgain(g, [mac EXCEPT !.trials = next - 1]), Leave(s, quiet)
      PROVE  IInv'
  <2> DEFINE k == next - 1
             n == [mac EXCEPT !.trials = k]
  <2>1. k \in Nat
    <3>1. mac.trials \in Nat /\ Default(region, "PHY_NB_JOIN_TRIALS") \in Nat
      BY <1>1, Zenon DEF MacTyped, Contract, Constants
    <3>2. next \in Nat
      BY <3>1, DeviceAssumption DEF MaxTrials
    <3> QED BY <1>3, <3>1, <3>2
  <2> HIDE DEF k
  <2>2. Kept(mac, n, {"trials"}) /\ n.trials = k
    BY <1>1, Zenon DEF Kept, Fields
  <2>3. s \in SendAgain(g, n)
    BY <1>3, Zenon DEF k
  <2> HIDE DEF n
  <2>4. MacTyped(region, n) /\ n.joined = mac.joined /\ n.frame = mac.frame /\ n.channel = mac.channel
    <3>1. MacTyped(region, n)
      BY <1>1, <2>1, <2>2, Retyped
    <3> QED BY <2>2, <3>1 DEF Kept, Fields
  <2>5. Base(region, g, n, quiet) /\ Joining(n)
    <3>1. ~n.joined => n.frame \in {"NONE", "JOIN"} /\ n.channel \in RegionJoinChannels(region)
      BY <1>1, <2>4, Zenon DEF Unjoined
    <3>2. Joining(n)
      BY <1>3, <2>4, Zenon DEF Joining
    <3> QED BY <1>1, <2>2, <2>4, <3>1, <3>2, BaseKept
  <2>6. Leaves(region, s, quiet) /\ Onward(region, g, s.g)
    BY <1>1, <2>3, <2>5, SentAgain
  <2> QED BY <1>3, <2>6, LeaveKeeps, Zenon
<1> QED BY <1>2, <1>3, Zenon DEF EndJoin

\* The end of an unconfirmed uplink.
LEMMA EndUnconfirmedKeeps == ASSUME RegionsKeepContract, IInv, EndUnconfirmed PROVE IInv'
<1> DEFINE m == [mac EXCEPT !.adrCounter = IF mac.got THEN @ ELSE @ + 1]
<1>1. /\ region \in Regions /\ Contract(region) /\ Base(region, g, mac, quiet)
      /\ MacTyped(region, mac) /\ DOMAIN mac = Fields /\ WellFormed(region, g)
      /\ Unjoined(region, mac)
  BY AtHand, Zenon
<1>2. CASE Leave([g |-> g, mac |-> Finished(m), phase |-> "idle"], quiet)
  <2>1. /\ Kept(mac, m, {"adrCounter"})
        /\ m.adrCounter = IF mac.got THEN mac.adrCounter ELSE mac.adrCounter + 1
    BY <1>1, Zenon DEF Kept, Fields
  <2> HIDE DEF m
  <2>2. m.adrCounter \in Nat
    <3>1. mac.adrCounter \in Nat
      BY <1>1, Zenon DEF MacTyped
    <3> QED BY <2>1, <3>1
  <2>3. MacTyped(region, m)
    <3>1. Kept(mac, m, {"adrCounter"})
      BY <2>1, Zenon
    <3> QED BY <1>1, <2>2, <3>1, Retyped
  <2>4. /\ m.joined = mac.joined /\ m.frame = mac.frame /\ m.channel = mac.channel
        /\ m.lastTx = mac.lastTx
    BY <2>1, Zenon DEF Kept, Fields
  <2>5. Base(region, g, m, quiet)
    <3>1. Kept(mac, m, {"adrCounter"})
      BY <2>1, Zenon
    <3>2. ~m.joined => m.frame \in {"NONE", "JOIN"} /\ m.channel \in RegionJoinChannels(region)
      BY <1>1, <2>4, Zenon DEF Unjoined
    <3> QED BY <1>1, <2>3, <2>4, <3>1, <3>2, BaseKept
  <2> QED BY <1>2, <2>4, <2>5, ProcedureOver, Zenon
<1>3. ASSUME NEW s \in SendAgain(g, mac), Leave(s, quiet) PROVE IInv'
  <2>1. Joining(mac)
    BY Zenon DEF EndUnconfirmed, Joining
  <2>2. Leaves(region, s, quiet) /\ Onward(region, g, s.g)
    BY <1>1, <1>3, <2>1, SentAgain
  <2> QED BY <1>3, <2>2, LeaveKeeps, Zenon
<1> QED BY <1>2, <1>3, Zenon DEF EndUnconfirmed

\* The end of a confirmed uplink, or a retry.
LEMMA EndConfirmedKeeps == ASSUME RegionsKeepContract, IInv, EndConfirmed PROVE IInv'
<1> DEFINE lower == RegionGetPhyParam(region, g, Query("PHY_NEXT_LOWER_TX_DR", mac.dr, mac.upDwell))
           slower == IF (mac.tries + 1) % 2 = 1 THEN lower ELSE mac.dr
           n == [mac EXCEPT !.tries = @ + 1, !.caller = "retry", !.dr = slower]
           S == {"tries", "caller", "dr"}
<1>1. /\ region \in Regions /\ Contract(region) /\ Base(region, g, mac, quiet)
      /\ MacTyped(region, mac) /\ DOMAIN mac = Fields /\ WellFormed(region, g)
      /\ Unjoined(region, mac)
  BY AtHand, Zenon
<1>2. CASE Leave([g |-> g, mac |-> Finished(mac), phase |-> "idle"], quiet)
  BY <1>1, <1>2, ProcedureOver, Zenon
<1>3. CASE Leave([g |-> RegionInitDefaults(region, g, "RESTORE"), mac |-> Finished(mac),
                  phase |-> "idle"], quiet)
  <2>1. MaskEdited(region, g, RegionInitDefaults(region, g, "RESTORE"))
    BY <1>1, Zenon DEF Contract, MacEdits
  <2> QED BY <1>1, <1>3, <2>1, ProcedureOver, Zenon
<1>4. ASSUME NEW s \in ScheduleTx(g, n), Leave(s, quiet) PROVE IInv'
  <2>1. slower \in Rate
    BY <1>1, Zenon DEF Contract, RatesAsked, MacTyped
  <2> HIDE DEF slower
  <2>2. Kept(mac, n, S) /\ n.dr = slower
    BY <1>1, Zenon DEF Kept, Fields
  <2>3. s \in ScheduleTx(g, n)
    BY <1>4
  <2> HIDE DEF n
  <2>4. MacTyped(region, n) /\ n.joined = mac.joined /\ n.frame = mac.frame /\ n.channel = mac.channel
    <3>1. MacTyped(region, n)
      BY <1>1, <2>1, <2>2, Retyped
    <3> QED BY <2>2, <3>1 DEF Kept, Fields
  <2>5. Base(region, g, n, quiet)
    <3>1. ~n.joined => n.frame \in {"NONE", "JOIN"} /\ n.channel \in RegionJoinChannels(region)
      BY <1>1, <2>4, Zenon DEF Unjoined
    <3> QED BY <1>1, <2>2, <2>4, <3>1, BaseKept
  <2>6. Joining(n)
    BY <2>4, Zenon DEF EndConfirmed, Joining
  <2>7. Leaves(region, s, quiet) /\ s.g.mask = g.mask /\ s.g.remaining = g.remaining
    BY <1>1, <2>3, <2>5, <2>6, Scheduled
  <2>8. region \in HopRegions => g.remaining \subseteq g.mask
    BY <1>1, Zenon DEF WellFormed
  <2>9. Onward(region, g, s.g)
    BY <2>7, <2>8 DEF Onward
  <2> QED BY <1>4, <2>7, <2>9, LeaveKeeps, Zenon
<1> QED BY <1>2, <1>3, <1>4, Zenon DEF EndConfirmed

LEMMA MacStateCheckKeeps == ASSUME RegionsKeepContract, IInv, MacStateCheck PROVE IInv'
BY EndJoinKeeps, EndUnconfirmedKeeps, EndConfirmedKeeps, Zenon DEF MacStateCheck

-----------------------------------------------------------------------------
(* Time.                                                                    *)

LEMMA OlderWaitsLonger ==
  ASSUME NEW age \in Ages, NEW d \in Nat
  PROVE  /\ Older(age, d) \in Ages
         /\ ~mac.joined => GetJoinDc(Older(age, d)) >= GetJoinDc(age)
<1>1. d < FOREVER \/ d >= FOREVER
  BY DEF FOREVER
<1>2. CASE d < FOREVER \/ mac.joined
  <2>1. Older(age, d) = age
    BY <1>2 DEF Older, FOREVER
  <2> QED BY <2>1, JoinDuty
<1>3. CASE d >= FOREVER /\ ~mac.joined /\ age = "first_hour"
  <2>1. Older(age, d) = "ten_hours"
    BY <1>3 DEF Older, FOREVER
  <2> QED BY <1>3, <2>1 DEF Ages, GetJoinDc
<1>4. CASE d >= FOREVER /\ ~mac.joined /\ age # "first_hour"
  <2>1. Older(age, d) = "later"
    BY <1>4 DEF Older, FOREVER
  <2> QED BY <1>4, <2>1 DEF Ages, GetJoinDc
<1> QED BY <1>1, <1>2, <1>3, <1>4

\* As time passes, the rests that regulations impose get shorter as fast as
\* the stamps of the bands get older.
LEMMA TimePassed ==
  ASSUME RegionsKeepContract, IInv, NEW d \in Nat
  PROVE  /\ Base(region, PlanLater(d), MacLater(d), QuietLater(d))
         /\ PlanLater(d).mask = g.mask /\ PlanLater(d).remaining = g.remaining
         /\ Joining(MacLater(d)) = Joining(mac)
<1> DEFINE bands == [b \in Bands(region) |-> BandLater(g.bands[b], d)]
           h == PlanLater(d)
           n == MacLater(d)
           q == QuietLater(d)
<1>1. /\ region \in Regions /\ Contract(region) /\ Base(region, g, mac, quiet)
      /\ MacTyped(region, mac) /\ DOMAIN mac = Fields /\ WellFormed(region, g)
      /\ Unjoined(region, mac) /\ Quiet(region, g, mac, quiet) /\ OthersCovered(region, g, mac, quiet)
  BY AtHand, Zenon DEF Base
<1>2. /\ g.bands \in [Bands(region) -> Band]
      /\ \A b \in Bands(region) : /\ g.bands[b].timeOff \in Nat /\ g.bands[b].sinceTx \in Nat
                                  /\ g.bands[b].sinceJoin \in Nat
  BY <1>1, BandFields
<1>3. bands \in [Bands(region) -> Band]
  <2>1. ASSUME NEW b \in Bands(region)
        PROVE  BandLater(g.bands[b], d) \in Band
    <3>1. Later(g.bands[b].sinceTx, d) \in Nat /\ Later(g.bands[b].sinceJoin, d) \in Nat
      BY <1>2, TimeAdded
    <3>2. g.bands[b] \in Band
      BY <1>2
    <3> QED BY <3>1, <3>2 DEF Band, BandLater
  <2> QED BY <2>1
<1>4. h = WithBands(g, bands)
  <2>1. DOMAIN g.bands = Bands(region)
    BY <1>2
  <2> QED BY <2>1, Zenon DEF PlanLater, WithBands
<1>5. \A b \in Bands(region) :
        /\ bands[b].timeOff = g.bands[b].timeOff
        /\ bands[b].sinceTx = Later(g.bands[b].sinceTx, d)
        /\ bands[b].sinceJoin = Later(g.bands[b].sinceJoin, d)
  BY <1>2 DEF Band, BandLater
<1> HIDE DEF bands, h
<1>6. /\ WellFormed(region, h) /\ h.bands = bands
      /\ h.channels = g.channels /\ h.mask = g.mask /\ h.remaining = g.remaining
  BY <1>1, <1>3, <1>4, BandsReplaced
<1>7. /\ Kept(mac, n, {"sinceAggr", "age", "wait"}) /\ n.sinceAggr = Later(mac.sinceAggr, d)
      /\ n.age = Older(mac.age, d) /\ n.wait = 0
  BY <1>1, Zenon DEF MacLater, Kept, Fields
<1> HIDE DEF n
<1>8. MacTyped(region, n)
  <2>1. n.sinceAggr \in Nat /\ n.age \in Ages /\ n.wait \in Nat
    <3>1. mac.sinceAggr \in Nat /\ mac.age \in Ages
      BY <1>1, Zenon DEF MacTyped
    <3> QED BY <1>7, <3>1, TimeAdded, OlderWaitsLonger
  <2>2. Kept(mac, n, {"sinceAggr", "age", "wait"})
    BY <1>7, Zenon
  <2> QED BY <1>1, <2>1, <2>2, Retyped
<1>9. /\ n.joined = mac.joined /\ n.frame = mac.frame /\ n.channel = mac.channel
      /\ n.lastTx = mac.lastTx /\ n.air = mac.air /\ n.dutyOn = mac.dutyOn
  BY <1>7, Zenon DEF Kept, Fields
<1>10. Unjoined(region, n) /\ Joining(n) = Joining(mac)
  BY <1>1, <1>9, Zenon DEF Unjoined, Joining
<1>11. /\ q.bands = [b \in Bands(region) |-> Left(quiet.bands[b], d)] /\ q.factor = Left(quiet.factor, d)
  <2>1. DOMAIN quiet.bands = Bands(region)
    BY <1>1 DEF Quiet
  <2> QED BY <2>1, Zenon DEF QuietLater
<1>12. q \in [bands : [Bands(region) -> Nat], factor : Nat, join : Nat]
  <2>1. \A b \in Bands(region) : quiet.bands[b] \in Nat /\ Left(quiet.bands[b], d) \in Nat
    BY <1>1, TimeAdded DEF Quiet
  <2>2. /\ quiet.factor \in Nat /\ Left(quiet.factor, d) \in Nat
        /\ quiet.join \in Nat /\ Left(quiet.join, d) \in Nat
    BY <1>1, TimeAdded DEF Quiet
  <2>3. DOMAIN quiet.bands = Bands(region)
    BY <1>1 DEF Quiet
  <2>4. q = [bands |-> [b \in DOMAIN quiet.bands |-> Left(quiet.bands[b], d)],
             factor |-> Left(quiet.factor, d), join |-> Left(quiet.join, d)]
    BY Zenon DEF QuietLater
  <2> QED BY <2>1, <2>2, <2>3, <2>4
<1>13. ASSUME NEW b \in Bands(region)
       PROVE  /\ quiet.bands[b] \in Nat /\ q.bands[b] \in Nat
              /\ q.bands[b] # 0 => /\ quiet.bands[b] # 0 /\ q.bands[b] = quiet.bands[b] - d
              /\ h.bands[b].sinceTx <= g.bands[b].sinceTx + d /\ h.bands[b].sinceTx \in Nat
              /\ h.bands[b].sinceTx = Later(g.bands[b].sinceTx, d)
              /\ h.bands[b].sinceJoin = Later(g.bands[b].sinceJoin, d)
              /\ h.bands[b].timeOff = g.bands[b].timeOff
  <2>1. quiet.bands[b] \in Nat
    BY <1>1 DEF Quiet
  <2>2. q.bands[b] = Left(quiet.bands[b], d)
    BY <1>11
  <2>3. q.bands[b] \in Nat /\ (q.bands[b] # 0 => q.bands[b] = quiet.bands[b] - d)
    BY <2>1, <2>2, TimeAdded
  <2>4. /\ h.bands[b].sinceTx = Later(g.bands[b].sinceTx, d)
        /\ h.bands[b].sinceJoin = Later(g.bands[b].sinceJoin, d)
        /\ h.bands[b].timeOff = g.bands[b].timeOff
    BY <1>5, <1>6, Zenon
  <2>5. /\ Later(g.bands[b].sinceTx, d) <= g.bands[b].sinceTx + d
        /\ Later(g.bands[b].sinceTx, d) \in Nat
    BY <1>2, TimeAdded
  <2>6. q.bands[b] # 0 => quiet.bands[b] # 0
    BY <2>1, <2>3
  <2> QED BY <2>1, <2>3, <2>4, <2>5, <2>6, Zenon
<1>14. quiet.factor \in Nat /\ q.factor \in Nat
       /\ (q.factor # 0 => quiet.factor # 0 /\ q.factor = quiet.factor - d)
  <2>1. quiet.factor \in Nat
    BY <1>1 DEF Quiet
  <2>2. q.factor \in Nat /\ (q.factor # 0 => q.factor = quiet.factor - d)
    BY <1>11, <2>1, TimeAdded
  <2> QED BY <2>1, <2>2
<1> HIDE DEF q
<1>15. Quiet(region, h, n, q)
  <2>1. n.air = 0 => q.factor = 0
    BY <1>1, <1>9, <1>14 DEF Quiet
  <2>2. n.air = 0 \/ ~n.dutyOn => \A b \in Bands(region) : q.bands[b] = 0
    BY <1>1, <1>9, <1>13 DEF Quiet
  <2>3. ASSUME NEW b \in Bands(region), q.bands[b] # 0
        PROVE  q.bands[b] + h.bands[b].sinceTx <= RegionBandDCycle(region)[b] - 1
    <3>1. quiet.bands[b] + g.bands[b].sinceTx <= RegionBandDCycle(region)[b] - 1
      BY <1>1, <1>13, <2>3 DEF Quiet
    <3>2. RegionBandDCycle(region)[b] \in Nat
      BY <1>1, ConstantsKept
    <3>3. /\ q.bands[b] = quiet.bands[b] - d /\ h.bands[b].sinceTx <= g.bands[b].sinceTx + d
          /\ quiet.bands[b] \in Nat /\ h.bands[b].sinceTx \in Nat
      BY <1>13, <2>3
    <3>4. g.bands[b].sinceTx \in Nat
      BY <1>2
    <3> QED BY <3>1, <3>2, <3>3, <3>4
  <2>4. ASSUME ~n.joined, NEW b \in Bands(region) PROVE h.bands[b].sinceJoin = h.bands[b].sinceTx
    BY <1>1, <1>9, <1>13, <2>4, Zenon DEF Quiet
  <2>5. ASSUME ~n.joined, q.factor # 0
        PROVE  q.factor + h.bands[JoinBand(region)].sinceTx <= GetJoinDc(n.age) - 1
    <3>1. JoinBand(region) \in Bands(region)
      BY <1>1, ConstantsKept
    <3>2. quiet.factor + g.bands[JoinBand(region)].sinceTx <= GetJoinDc(mac.age) - 1
      BY <1>1, <1>9, <1>14, <2>5 DEF Quiet
    <3>3. /\ GetJoinDc(n.age) >= GetJoinDc(mac.age)
          /\ GetJoinDc(n.age) \in Nat /\ GetJoinDc(mac.age) \in Nat
      <4>1. mac.age \in Ages
        BY <1>1, Zenon DEF MacTyped
      <4> QED BY <1>7, <1>9, <2>5, <4>1, OlderWaitsLonger, JoinDuty
    <3>4. /\ h.bands[JoinBand(region)].sinceTx <= g.bands[JoinBand(region)].sinceTx + d
          /\ h.bands[JoinBand(region)].sinceTx \in Nat /\ g.bands[JoinBand(region)].sinceTx \in Nat
      BY <1>2, <1>13, <3>1
    <3> QED BY <1>14, <2>5, <3>2, <3>3, <3>4
  <2> QED BY <1>12, <2>1, <2>2, <2>3, <2>4, <2>5, Zenon DEF Quiet
<1>16. OthersCovered(region, h, n, q)
  <2>1. ASSUME NEW b \in Bands(region), b # g.channels[mac.lastTx].band PROVE Covered(h, q, b)
    <3>1. q.bands[b] # 0 => quiet.bands[b] + g.bands[b].sinceTx <= g.bands[b].timeOff
      BY <1>1, <1>13, <2>1 DEF OthersCovered, Covered
    <3> QED BY <1>2, <1>13, <3>1 DEF Covered
  <2> QED BY <1>6, <1>9, <2>1, Zenon DEF OthersCovered
<1>17. Base(region, h, n, q)
  BY <1>6, <1>8, <1>10, <1>15, <1>16, Zenon DEF Base
<1> QED BY <1>6, <1>10, <1>17, Zenon DEF h, n, q

\* The timer that delays a frame expires.
LEMMA TxDelayedKeeps == ASSUME RegionsKeepContract, IInv, TxDelayed PROVE IInv'
<1>1. Contract(region) /\ WellFormed(region, g) /\ MacTyped(region, mac)
  BY AtHand, Zenon
<1>2. PICK s \in SendAgain(PlanLater(mac.wait), MacLater(mac.wait)) : Leave(s, QuietLater(mac.wait))
  BY Zenon DEF TxDelayed
<1>3. mac.wait \in Nat /\ Joining(mac)
  BY <1>1, Zenon DEF MacTyped, IInv, TxDelayed
<1>4. /\ Base(region, PlanLater(mac.wait), MacLater(mac.wait), QuietLater(mac.wait))
      /\ PlanLater(mac.wait).mask = g.mask /\ PlanLater(mac.wait).remaining = g.remaining
      /\ Joining(MacLater(mac.wait))
  BY <1>3, TimePassed, Zenon
<1>5. Leaves(region, s, QuietLater(mac.wait)) /\ Onward(region, PlanLater(mac.wait), s.g)
  BY <1>1, <1>2, <1>4, SentAgain
<1>6. Onward(region, g, s.g)
  BY <1>4, <1>5, Zenon DEF Onward
<1> QED BY <1>2, <1>5, <1>6, LeaveKeeps, Zenon

\* Time passes between two uplinks.
LEMMA ElapseKeeps ==
  ASSUME RegionsKeepContract, IInv, NEW d \in Durations(region), Elapse(d)
  PROVE  IInv'
<1>1. region \in Regions /\ Hops(region, g, round)
  BY AtHand, Zenon
<1>2. d \in Nat
  BY <1>1, DeviceAssumption
<1>3. /\ region' = region /\ g' = PlanLater(d) /\ mac' = MacLater(d) /\ quiet' = QuietLater(d)
      /\ round' = round /\ phase' = phase /\ phase = "idle"
  BY Zenon DEF Elapse
<1>4. /\ Base(region, g', mac', quiet') /\ g'.mask = g.mask /\ g'.remaining = g.remaining
  BY <1>2, <1>3, TimePassed, Zenon
<1>5. Hops(region, g', round')
  BY <1>1, <1>3, <1>4, Zenon DEF Hops
<1>6. phase' \in {"idle", "search", "delayed", "check", "wave"} /\ phase' # "search" /\ phase' # "delayed"
  BY <1>3
<1> QED BY <1>3, <1>4, <1>5, <1>6, RestKeeps, Zenon

-----------------------------------------------------------------------------
(* The search for a channel.                                                *)

SearchParameters ==
  [joined |-> mac.joined, dutyCycle |-> mac.dutyOn, dr |-> mac.dr, aggrTimeOff |-> mac.aggrOff,
   sinceAggr |-> mac.sinceAggr, channel |-> mac.channel]

\* What a search finds.
LEMMA SearchFinds ==
  ASSUME RegionsKeepContract, IInv, NEW x \in Results
  PROVE  Found(region, g, SearchParameters, x)
<1>1. /\ Contract(region) /\ MacTyped(region, mac) /\ WellFormed(region, g)
  BY AtHand, Zenon
<1>2. SearchParameters \in Parameters(region)
  BY <1>1 DEF SearchParameters, Parameters, MacTyped
<1>3. x \in RegionNextChannel(region, g, SearchParameters)
  BY Zenon DEF Results, SearchParameters
<1>4. Searches(region, g)
  BY <1>1, Zenon DEF Contract
<1> QED BY <1>2, <1>3, <1>4, Zenon DEF Searches

\* A rest that is over covers nothing that regulations still impose.
LEMMA RestsOver ==
  ASSUME NEW r, Contract(r), NEW p, NEW m, NEW q, WellFormed(r, p), MacTyped(r, m), Unjoined(r, m),
         Quiet(r, p, m, q), AllCovered(r, p, m, q),
         NEW w, w.joined = m.joined, w.dutyCycle = m.dutyOn,
         NEW h, WellFormed(r, h), \A b \in Bands(r) : RestsCleared(w, p.bands[b], h.bands[b])
  PROVE  Quiet(r, h, m, q) /\ AllCovered(r, h, m, q)
<1>1. \A b \in Bands(r) : /\ p.bands[b].timeOff \in Nat /\ p.bands[b].sinceTx \in Nat
                          /\ p.bands[b].sinceJoin \in Nat /\ h.bands[b].timeOff \in Nat
                          /\ h.bands[b].sinceTx = p.bands[b].sinceTx
                          /\ h.bands[b].sinceJoin = p.bands[b].sinceJoin
  BY BandFields DEF RestsCleared
<1>2. Quiet(r, h, m, q)
  BY <1>1, ConstantsKept, Zenon DEF Quiet
<1>3. m.joined \in BOOLEAN /\ m.dutyOn \in BOOLEAN
  BY ConstantsKept, Zenon DEF MacTyped
<1>4. ASSUME NEW b \in Bands(r), h.bands[b].timeOff # p.bands[b].timeOff
      PROVE  \/ m.joined /\ ~m.dutyOn
             \/ p.bands[b].timeOff <= p.bands[b].sinceTx
  <2>1. \/ m.joined /\ ~m.dutyOn
        \/ p.bands[b].timeOff <= Elapsed(m.joined, m.dutyOn, p.bands[b])
    BY <1>4, Zenon DEF RestsCleared
  <2>2. ~m.joined => p.bands[b].sinceJoin = p.bands[b].sinceTx
    BY Zenon DEF Quiet
  <2>3. Elapsed(m.joined, m.dutyOn, p.bands[b]) = p.bands[b].sinceTx
    <3>1. CASE m.joined
      BY <3>1, Zenon DEF Elapsed
    <3>2. CASE ~m.joined
      <4> DEFINE y == IF m.dutyOn THEN p.bands[b].sinceTx ELSE 0
      <4>1. y \in Int /\ y <= p.bands[b].sinceTx
        BY <1>1
      <4>2. Elapsed(m.joined, m.dutyOn, p.bands[b]) = Max({p.bands[b].sinceJoin, y})
        BY <3>2, Zenon DEF Elapsed
      <4> HIDE DEF y
      <4>3. p.bands[b].sinceJoin \in Int
        BY <1>1
      <4>4. Max({p.bands[b].sinceJoin, y}) = IF p.bands[b].sinceJoin >= y THEN p.bands[b].sinceJoin ELSE y
        BY <4>1, <4>3, MaxOfTwo
      <4> QED BY <1>1, <2>2, <3>2, <4>1, <4>2, <4>3, <4>4
    <3> QED BY <3>1, <3>2
  <2> QED BY <2>1, <2>3
<1>5. ASSUME NEW b \in Bands(r) PROVE Covered(h, q, b)
  <2>1. q.bands[b] \in Nat /\ (m.joined /\ ~m.dutyOn => q.bands[b] = 0)
    BY DEF Quiet
  <2>2. q.bands[b] # 0 => q.bands[b] + p.bands[b].sinceTx <= p.bands[b].timeOff
    BY Zenon DEF AllCovered, Covered
  <2> QED BY <1>1, <1>4, <2>1, <2>2 DEF Covered
<1>6. ASSUME ~m.joined, q.factor # 0
      PROVE  q.factor + h.bands[JoinBand(r)].sinceTx <= h.bands[JoinBand(r)].timeOff
  <2>1. q.factor + p.bands[JoinBand(r)].sinceTx <= p.bands[JoinBand(r)].timeOff
    BY <1>6, Zenon DEF AllCovered
  <2>2. JoinBand(r) \in Bands(r) /\ q.factor \in Nat
    BY ConstantsKept DEF Quiet
  <2> QED BY <1>1, <1>4, <1>6, <2>1, <2>2
<1> QED BY <1>2, <1>5, <1>6, Zenon DEF AllCovered

AsFound(x, n) ==
  /\ Kept(mac, n, {"channel", "aggrOff", "win1", "win2", "dr", "running", "wait"})
  /\ n.channel = x.channel /\ n.aggrOff = x.aggrTimeOff /\ n.dr \in Rate /\ n.wait \in Nat

\* Whatever a search finds, the rests of the code cover what regulations impose.
LEMMA FoundKeeps ==
  ASSUME RegionsKeepContract, IInv, phase = "search", NEW x \in Results, NEW n, AsFound(x, n)
  PROVE  Base(region, x.g, n, quiet) /\ SearchReady(region, x.g, n, quiet)
<1> DEFINE w == SearchParameters
           rested == w.aggrTimeOff <= w.sinceAggr
           S == {"channel", "aggrOff", "win1", "win2", "dr", "running", "wait"}
<1>1. /\ region \in Regions /\ Contract(region) /\ MacTyped(region, mac) /\ Unjoined(region, mac)
      /\ WellFormed(region, g) /\ Quiet(region, g, mac, quiet) /\ OthersCovered(region, g, mac, quiet)
  BY AtHand, Zenon DEF Base
<1>2. /\ w.joined = mac.joined /\ w.dutyCycle = mac.dutyOn /\ w.dr = mac.dr
      /\ w.aggrTimeOff = mac.aggrOff /\ w.sinceAggr = mac.sinceAggr /\ w.channel = mac.channel
  BY Zenon DEF SearchParameters
<1> HIDE DEF w
<1>3. Found(region, g, w, x)
  BY SearchFinds, Zenon DEF w
<1>4. /\ WellFormed(region, x.g) /\ x.g.channels = g.channels
      /\ \A b \in Bands(region) : RestsCleared(w, g.bands[b], x.g.bands[b])
      /\ x.channel \in Ids(region)
      /\ x.aggrTimeOff = IF rested THEN 0 ELSE w.aggrTimeOff
      /\ x.channel = mac.channel \/ Usable(region, x.g, w, x.channel)
  BY <1>2, <1>3, Zenon DEF Found
<1>5. SearchReady(region, g, mac, quiet)
  BY Zenon DEF IInv
<1>6. Quiet(region, x.g, mac, quiet) /\ AllCovered(region, x.g, mac, quiet)
  BY <1>1, <1>2, <1>4, <1>5, RestsOver, Zenon DEF SearchReady
<1>7. /\ n.joined = mac.joined /\ n.frame = mac.frame /\ n.air = mac.air
      /\ n.aggrDc = mac.aggrDc /\ n.sinceAggr = mac.sinceAggr
  BY DEF AsFound, Kept, Fields
<1>8. mac.aggrOff \in Int /\ mac.sinceAggr \in Nat /\ mac.air \in {0, 1} /\ mac.aggrDc \in Int
  BY <1>1, Zenon DEF MacTyped
<1>9. x.aggrTimeOff = IF mac.aggrOff <= mac.sinceAggr THEN 0 ELSE mac.aggrOff
  BY <1>2, <1>4, Zenon
<1>10. MacTyped(region, n)
  <2>1. n.aggrOff \in Int
    BY <1>8, <1>9 DEF AsFound
  <2>2. Kept(mac, n, S) /\ n.channel \in Ids(region) /\ n.dr \in Rate /\ n.wait \in Nat
    BY <1>4, Zenon DEF AsFound
  <2> QED BY <1>1, <2>1, <2>2, Retyped
<1>11. Base(region, x.g, mac, quiet)
  BY <1>1, <1>4, <1>6, Zenon DEF Base, OthersCovered, AllCovered
<1>12. ~n.joined => n.frame \in {"NONE", "JOIN"} /\ n.channel \in RegionJoinChannels(region)
  BY <1>1, <1>2, <1>4, <1>7, Zenon DEF Unjoined, Usable, AsFound
<1>13. Base(region, x.g, n, quiet)
  <2>1. Kept(mac, n, S)
    BY Zenon DEF AsFound
  <2> QED BY <1>7, <1>10, <1>11, <1>12, <2>1, BaseKept
<1>14. Aggregated(n)
  <2>1. n.aggrOff = IF mac.aggrOff <= mac.sinceAggr THEN 0 ELSE mac.aggrOff
    BY <1>9, Zenon DEF AsFound
  <2> DEFINE off == mac.air * (mac.aggrDc - 1)
  <2>2. off \in Int
    BY <1>8
  <2>3. mac.aggrOff = off \/ mac.sinceAggr >= off
    BY <1>5, Zenon DEF SearchReady, Aggregated
  <2> HIDE DEF off
  <2>4. n.aggrOff = off \/ mac.sinceAggr >= off
    BY <1>8, <2>1, <2>2, <2>3
  <2> QED BY <1>7, <2>4, Zenon DEF Aggregated, off
<1>15. AllCovered(region, x.g, n, quiet)
  BY <1>6, <1>7, Zenon DEF AllCovered
<1>16. NeverRests(region, x.g, n)
  <2>1. JoinBand(region) \in Bands(region)
    BY <1>1, ConstantsKept
  <2>2. x.g.bands[JoinBand(region)].timeOff \in {0, g.bands[JoinBand(region)].timeOff}
    BY <1>4, <2>1, Zenon DEF RestsCleared
  <2>3. NeverRests(region, g, mac)
    BY <1>5, Zenon DEF SearchReady
  <2> QED BY <1>7, <2>2, <2>3 DEF NeverRests
<1>17. Joining(n)
  BY <1>5, <1>7, Zenon DEF SearchReady, Joining
<1> QED BY <1>13, <1>14, <1>15, <1>16, <1>17, Zenon DEF SearchReady

PickedBy(x) == IF x.ok /\ x.delay = 0 /\ Picked(x.g, x.channel) THEN {x.channel} ELSE {}

\* What is left of the round of hops is what the round has not used.
LEMMA RoundKept ==
  ASSUME RegionsKeepContract, IInv, NEW x \in Results
  PROVE  /\ Hops(region, x.g, RoundWith(PickedBy(x)))
         /\ \A c \in Narrow : region \in HopRegions /\ c \in PickedBy(x)
                                => c \notin round \/ g.mask \cap Narrow \subseteq round
<1>1. SUFFICES ASSUME region \in HopRegions
               PROVE  /\ x.g.remaining \cap Narrow = (x.g.mask \cap Narrow) \ RoundWith(PickedBy(x))
                      /\ \A c \in Narrow : c \in PickedBy(x)
                           => c \notin round \/ g.mask \cap Narrow \subseteq round
  BY Zenon DEF Hops
<1> DEFINE ready == x.ok /\ x.delay = 0
           picked == ready /\ x.g.bands[x.g.channels[x.channel].band].timeOff = 0
           left == IF g.remaining \cap Narrow = {} THEN g.mask \cap Narrow
                                                   ELSE g.remaining \cap Narrow
           new == PickedBy(x)
           used == IF g.mask \cap Narrow \subseteq round THEN {} ELSE round
<1>2. new = IF picked THEN {x.channel} ELSE {}
  BY Zenon DEF PickedBy, Picked
<1>3. Found(region, g, SearchParameters, x)
  BY SearchFinds
<1>4. /\ x.g.mask = g.mask /\ x.g.remaining \cap Narrow = left \ new
      /\ picked /\ x.channel \in Narrow => x.channel \in left
  BY <1>1, <1>2, <1>3, Zenon DEF Found
<1>5. RoundWith(new) = used \cup (new \cap Narrow)
  BY <1>1, Zenon DEF RoundWith
<1>6. g.remaining \cap Narrow = (g.mask \cap Narrow) \ round
  BY <1>1, AtHand, Zenon DEF Hops
<1> HIDE DEF new, picked
<1>7. left = (g.mask \cap Narrow) \ used
  BY <1>6
<1>8. \A c \in new : c \in Narrow => c \in left
  BY <1>2, <1>4, Zenon
<1>9. x.g.remaining \cap Narrow = (x.g.mask \cap Narrow) \ RoundWith(new)
  BY <1>4, <1>5, <1>7
<1>10. \A c \in Narrow : c \in new => c \notin round \/ g.mask \cap Narrow \subseteq round
  BY <1>7, <1>8
<1> QED BY <1>9, <1>10, Zenon DEF new

\* A search that is ready leaves a channel that may be used now.
LEMMA ReadyToSend ==
  ASSUME RegionsKeepContract, IInv, phase = "search", NEW x \in Results, x.ok, x.delay = 0,
         NEW n, AsFound(x, n), n.dr = mac.dr
  PROVE  /\ Ready(region, x.g, n)
         /\ (region = "AU915" => n.joined) =>
              /\ quiet.bands[x.g.channels[n.channel].band] = 0
              /\ n.frame = "JOIN" => quiet.factor = 0
              /\ n.sinceAggr >= n.air * (n.aggrDc - 1)
<1> DEFINE w == SearchParameters
           band == x.g.channels[x.channel].band
<1>1. /\ Contract(region) /\ Unjoined(region, mac) /\ MacTyped(region, mac)
      /\ w.joined = mac.joined /\ w.dr = mac.dr
      /\ w.aggrTimeOff = mac.aggrOff /\ w.sinceAggr = mac.sinceAggr
  BY AtHand, Zenon DEF SearchParameters
<1> HIDE DEF w
<1>2. Found(region, g, w, x)
  BY SearchFinds, Zenon DEF w
<1>3. /\ WellFormed(region, x.g) /\ x.channel \in Ids(region)
      /\ mac.aggrOff <= mac.sinceAggr /\ mac.dr \in 0 .. TopRate(region)
      /\ x.g.bands[band].timeOff = 0 => Usable(region, x.g, w, x.channel)
      /\ x.g.bands[band].timeOff # 0 => region = "AU915"
  BY <1>1, <1>2, Zenon DEF Found
<1>4. /\ n.joined = mac.joined /\ n.frame = mac.frame /\ n.air = mac.air
      /\ n.aggrDc = mac.aggrDc /\ n.sinceAggr = mac.sinceAggr /\ n.channel = x.channel
  BY DEF AsFound, Kept, Fields
<1>5. Base(region, x.g, n, quiet) /\ SearchReady(region, x.g, n, quiet)
  BY FoundKeeps
<1>6. band \in Bands(region)
  BY <1>3, BandFields
<1>7. ASSUME region = "AU915" => n.joined PROVE x.g.bands[band].timeOff = 0
  <2>1. CASE region # "AU915"
    BY <1>3, <2>1, Zenon
  <2>2. CASE region = "AU915"
    <3>1. Bands(region) = {JoinBand(region)}
      BY <1>1, <2>2, Zenon DEF Contract, Constants
    <3>2. x.g.bands[JoinBand(region)].timeOff = 0
      BY <1>5, <1>7, <2>2, Zenon DEF SearchReady, NeverRests
    <3> QED BY <1>6, <3>1, <3>2, Zenon
  <2> QED BY <2>1, <2>2
<1>8. Ready(region, x.g, n)
  <2>1. n.joined => w.joined
    BY <1>1, <1>4, Zenon
  <2> QED BY <1>1, <1>3, <1>4, <1>7, Zenon DEF Ready, Usable
<1>9. ASSUME region = "AU915" => n.joined
      PROVE  /\ quiet.bands[band] = 0 /\ (n.frame = "JOIN" => quiet.factor = 0)
             /\ n.sinceAggr >= n.air * (n.aggrDc - 1)
  <2>1. x.g.bands[band].timeOff = 0 /\ Usable(region, x.g, w, x.channel)
    BY <1>3, <1>7, <1>9, Zenon
  <2>2. /\ quiet.bands[band] \in Nat /\ x.g.bands[band].sinceTx \in Nat
        /\ quiet.bands[band] # 0 => quiet.bands[band] + x.g.bands[band].sinceTx <= 0
    <3>1. Covered(x.g, quiet, band)
      BY <1>5, <1>6, Zenon DEF SearchReady, AllCovered
    <3>2. quiet.bands[band] \in Nat
      BY <1>5, <1>6 DEF Base, Quiet
    <3>3. x.g.bands[band].sinceTx \in Nat
      BY <1>3, <1>6, BandFields
    <3>4. x.g.bands[band].timeOff = 0
      BY <2>1
    <3> QED BY <3>1, <3>2, <3>3, <3>4, Zenon DEF Covered
  <2>3. quiet.bands[band] = 0
    BY <2>2
  <2>4. ASSUME n.frame = "JOIN" PROVE quiet.factor = 0
    <3>1. ~n.joined
      BY <1>5, <2>4, Zenon DEF SearchReady, Joining
    <3>2. x.channel \in RegionJoinChannels(region)
      BY <1>1, <1>4, <2>1, <3>1, Zenon DEF Usable
    <3>3. band = JoinBand(region)
      BY <1>3, <3>2, Zenon DEF WellFormed
    <3>4. quiet.factor # 0 => quiet.factor + x.g.bands[band].sinceTx <= 0
      BY <1>5, <2>1, <3>1, <3>3, Zenon DEF SearchReady, AllCovered
    <3>5. quiet.factor \in Nat
      BY <1>5 DEF Base, Quiet
    <3>6. x.g.bands[band].sinceTx \in Nat
      BY <2>2
    <3> QED BY <3>4, <3>5, <3>6
  <2>5. n.sinceAggr >= n.air * (n.aggrDc - 1)
    <3> DEFINE off == mac.air * (mac.aggrDc - 1)
    <3>1. mac.aggrOff = off \/ mac.sinceAggr >= off
      BY Zenon DEF IInv, SearchReady, Aggregated
    <3> HIDE DEF off
    <3>2. mac.sinceAggr >= off
      BY <1>3, <3>1
    <3> QED BY <1>4, <3>2, Zenon DEF off
  <2> QED BY <2>3, <2>4, <2>5
<1> QED BY <1>4, <1>8, <1>9, Zenon

LEMMA SearchKeeps == ASSUME RegionsKeepContract, IInv, Search PROVE IInv'
<1>1. PICK x \in Results :
        LET found == [mac EXCEPT !.channel = x.channel, !.aggrOff = x.aggrTimeOff]
            m     == WithWindows(found)
            fits  == m.joined => ValidatePayloadLength(m)
        IN  /\ g' = x.g
            /\ round' = RoundWith(PickedBy(x))
            /\ \/ /\ ~x.ok
                  /\ mac' = LowerRate(found)
                  /\ UNCHANGED <<phase, radio>>
               \/ /\ x.ok /\ ~fits
                  /\ mac' = Refused(m)
                  /\ phase' = "idle" /\ UNCHANGED radio
               \/ /\ x.ok /\ fits /\ x.delay = 0
                  /\ mac' = m
                  /\ phase' = "sense"
                  /\ radio' = RegionTxConfig(region, g', ConfigOf(m))
               \/ /\ x.ok /\ fits /\ x.delay # 0
                  /\ mac' = [m EXCEPT !.wait = x.delay]
                  /\ phase' = "delayed" /\ UNCHANGED radio
  BY Zenon DEF Search, PickedBy
<1> DEFINE found == [mac EXCEPT !.channel = x.channel, !.aggrOff = x.aggrTimeOff]
           m     == WithWindows(found)
<1>2. /\ region \in Regions /\ Contract(region) /\ MacTyped(region, mac) /\ DOMAIN mac = Fields
  BY AtHand, Zenon
<1>3. phase = "search" /\ region' = region /\ quiet' = quiet
  BY Zenon DEF Search
<1>4. Hops(region, g', round')
  BY <1>1, RoundKept, Zenon
<1>5. /\ Kept(mac, found, {"channel", "aggrOff"})
      /\ found.channel = x.channel /\ found.aggrOff = x.aggrTimeOff
  BY <1>2, Zenon DEF Kept, Fields
<1> HIDE DEF found
<1>6. DOMAIN found = Fields /\ found.dr = mac.dr /\ found.minDr = mac.minDr
      /\ found.dr \in Rate /\ found.minDr \in Rate /\ found.wait \in Nat
  <2>1. DOMAIN found = Fields /\ found.dr = mac.dr /\ found.minDr = mac.minDr /\ found.wait = mac.wait
    BY <1>5 DEF Kept, Fields
  <2> QED BY <1>2, <2>1, Zenon DEF MacTyped
<1>7. /\ DOMAIN m = Fields /\ m.win1 = WithWindows(found).win1 /\ m.win2 = WithWindows(found).win2
      /\ \A f \in Fields \ {"win1", "win2"} : m[f] = found[f]
  BY <1>6, Zenon DEF WithWindows, Fields
<1> HIDE DEF m
<1>8. /\ AsFound(x, m) /\ m.dr = mac.dr /\ m.rx1Off = found.rx1Off /\ m.rx2 = found.rx2
      /\ m.downDwell = found.downDwell /\ m.dr = found.dr
  <2>1. Kept(mac, m, {"channel", "aggrOff", "win1", "win2"})
    BY <1>5, <1>7 DEF Kept
  <2>2. /\ m.channel = found.channel /\ m.aggrOff = found.aggrOff /\ m.dr = found.dr
        /\ m.wait = found.wait /\ m.rx1Off = found.rx1Off /\ m.rx2 = found.rx2
        /\ m.downDwell = found.downDwell
    BY <1>7 DEF Fields
  <2>3. Kept(mac, m, {"channel", "aggrOff", "win1", "win2", "dr", "running", "wait"})
    BY <2>1 DEF Kept
  <2> QED BY <1>5, <1>6, <2>2, <2>3, Zenon DEF AsFound
<1>9. CASE ~x.ok
  <2> DEFINE n == LowerRate(found)
             slow == IF found.dr = found.minDr THEN Default(region, "PHY_MAX_TX_DR")
                                               ELSE Int8(found.dr - 1)
  <2>1. slow \in Rate
    <3>1. Default(region, "PHY_MAX_TX_DR") \in 0 .. 127
      BY <1>2, Zenon DEF Contract, Constants, TopRate
    <3>2. Int8(found.dr - 1) \in Rate
      BY <1>6 DEF Int8, Rate
    <3> QED BY <3>1, <3>2 DEF Rate
  <2>2. n = [found EXCEPT !.dr = slow]
    BY Zenon DEF LowerRate
  <2>3. DOMAIN n = Fields /\ n.dr = slow /\ \A f \in Fields \ {"dr"} : n[f] = found[f]
    BY <1>6, <2>2, Zenon DEF Fields
  <2>4. mac' = n /\ phase' = phase
    BY <1>1, <1>9, Zenon DEF found
  <2> HIDE DEF n, slow
  <2>5. AsFound(x, n)
    <3>1. n.channel = found.channel /\ n.aggrOff = found.aggrOff /\ n.wait = found.wait
      BY <2>3 DEF Fields
    <3>2. Kept(mac, n, {"channel", "aggrOff", "win1", "win2", "dr", "running", "wait"})
      BY <1>5, <2>3 DEF Kept
    <3> QED BY <1>5, <1>6, <2>1, <2>3, <3>1, <3>2, Zenon DEF AsFound
  <2>6. Base(region, g', mac', quiet') /\ SearchReady(region, g', mac', quiet')
    BY <1>1, <1>3, <2>4, <2>5, FoundKeeps, Zenon
  <2>7. phase' \in {"idle", "search", "delayed", "check", "wave"} /\ phase' # "delayed"
    BY <1>3, <2>4
  <2> QED BY <1>3, <1>4, <2>6, <2>7, RestKeeps, Zenon
<1>10. CASE mac' = Refused(m) /\ phase' = "idle"
  <2>1. AsFound(x, mac')
    <3> DEFINE n == Refused(m)
    <3>1. DOMAIN n = Fields /\ \A f \in Fields \ {"running"} : n[f] = m[f]
      BY <1>7, Zenon DEF Refused
    <3> HIDE DEF n
    <3>2. n.channel = m.channel /\ n.aggrOff = m.aggrOff /\ n.wait = m.wait /\ n.dr = m.dr
      BY <3>1 DEF Fields
    <3>3. Kept(mac, n, {"channel", "aggrOff", "win1", "win2", "dr", "running", "wait"})
      BY <1>8, <3>1 DEF AsFound, Kept
    <3> QED BY <1>8, <1>10, <3>2, <3>3, Zenon DEF AsFound, n
  <2>2. Base(region, g', mac', quiet')
    BY <1>1, <1>3, <2>1, FoundKeeps, Zenon
  <2>3. phase' \in {"idle", "search", "delayed", "check", "wave"} /\ phase' # "delayed" /\ phase' # "search"
    BY <1>10
  <2> QED BY <1>3, <1>4, <2>2, <2>3, RestKeeps, Zenon
<1>11. CASE x.ok /\ mac' = [m EXCEPT !.wait = x.delay] /\ phase' = "delayed"
  <2> DEFINE n == [m EXCEPT !.wait = x.delay]
  <2>1. x.delay \in Nat
    BY <1>11, SearchFinds, Zenon DEF Found
  <2>2. DOMAIN n = Fields /\ n.wait = x.delay /\ \A f \in Fields \ {"wait"} : n[f] = m[f]
    BY <1>7, Zenon DEF Fields
  <2>3. mac' = n
    BY <1>11
  <2> HIDE DEF n
  <2>4. AsFound(x, n)
    <3>1. n.channel = m.channel /\ n.aggrOff = m.aggrOff /\ n.dr = m.dr
      BY <2>2 DEF Fields
    <3>2. Kept(mac, n, {"channel", "aggrOff", "win1", "win2", "dr", "running", "wait"})
      BY <1>8, <2>2 DEF AsFound, Kept
    <3> QED BY <1>8, <2>1, <2>2, <3>1, <3>2, Zenon DEF AsFound
  <2>5. Base(region, g', mac', quiet') /\ Joining(mac')
    BY <1>1, <1>3, <2>3, <2>4, FoundKeeps, Zenon DEF SearchReady
  <2>6. phase' \in {"idle", "search", "delayed", "check", "wave"} /\ phase' # "search"
    BY <1>11
  <2> QED BY <1>3, <1>4, <2>5, <2>6, RestKeeps, Zenon
<1>12. CASE /\ x.ok /\ x.delay = 0 /\ mac' = m /\ phase' = "sense"
            /\ radio' = RegionTxConfig(region, g', ConfigOf(m))
  <2>1. Base(region, g', mac', quiet') /\ SearchReady(region, g', mac', quiet')
    BY <1>1, <1>3, <1>8, <1>12, FoundKeeps, Zenon
  <2>2. /\ Ready(region, g', mac')
        /\ (region = "AU915" => mac'.joined) =>
             /\ quiet'.bands[g'.channels[mac'.channel].band] = 0
             /\ mac'.frame = "JOIN" => quiet'.factor = 0
             /\ mac'.sinceAggr >= mac'.air * (mac'.aggrDc - 1)
    BY <1>1, <1>3, <1>8, <1>12, ReadyToSend, Zenon
  <2>3. m.win1 = WithWindows(m).win1 /\ m.win2 = WithWindows(m).win2
    BY <1>6, <1>7, <1>8, Zenon DEF WithWindows, Fields
  <2>4. mac'.win1 = WithWindows(mac)'.win1 /\ mac'.win2 = WithWindows(mac)'.win2
    BY <1>3, <1>12, <2>3, Zenon DEF WithWindows
  <2>5. radio' = RegionTxConfig(region', g', ConfigOf(mac)')
    BY <1>3, <1>12, Zenon DEF ConfigOf
  <2>6. TimeOffRespected'
    BY <1>3, <2>2, Zenon DEF TimeOffRespected, Rested
  <2>7. WindowHearsPreamble'
    BY <1>12, Zenon DEF WindowHearsPreamble
  <2>8. AllCovered(region, g', mac', quiet') /\ Joining(mac')
    BY <2>1, Zenon DEF SearchReady
  <2>9. mac'.dr \in 0 .. TopRate(region)
    BY <2>2, Zenon DEF Ready
  <2>10. phase' \in Sending /\ phase' # "search" /\ phase' # "delayed" /\ phase' # "sending"
    BY <1>12 DEF Sending
  <2> QED BY <1>2, <1>3, <1>4, <2>1, <2>2, <2>4, <2>5, <2>6, <2>7, <2>8, <2>9, <2>10, Zenon DEF IInv
<1> QED BY <1>1, <1>9, <1>10, <1>11, <1>12, Zenon DEF m, found

-----------------------------------------------------------------------------
(* A frame, and the windows after it.                                       *)

\* The windows stay right for the rate they were made for.
LEMMA WindowsKept ==
  ASSUME NEW n, DOMAIN mac = Fields, DOMAIN n = Fields,
         mac.win1 = WithWindows(mac).win1, mac.win2 = WithWindows(mac).win2,
         n.win1 = mac.win1, n.win2 = mac.win2, n.dr = mac.dr, n.rx1Off = mac.rx1Off,
         n.rx2 = mac.rx2, n.downDwell = mac.downDwell
  PROVE  n.win1 = WithWindows(n).win1 /\ n.win2 = WithWindows(n).win2
<1>1. /\ WithWindows(mac).win1 = RegionComputeRxWindowParameters(region,
           RegionApplyDrOffset(region, mac.downDwell, mac.dr, mac.rx1Off),
           MinRxSymbols, SystemMaxRxError, WakeUpTime)
      /\ WithWindows(mac).win2 = RegionComputeRxWindowParameters(region, mac.rx2.dr, MinRxSymbols,
                                    SystemMaxRxError, WakeUpTime)
  BY Zenon DEF WithWindows, Fields
<1>2. /\ WithWindows(n).win1 = RegionComputeRxWindowParameters(region,
           RegionApplyDrOffset(region, n.downDwell, n.dr, n.rx1Off),
           MinRxSymbols, SystemMaxRxError, WakeUpTime)
      /\ WithWindows(n).win2 = RegionComputeRxWindowParameters(region, n.rx2.dr, MinRxSymbols,
                                  SystemMaxRxError, WakeUpTime)
  BY Zenon DEF WithWindows, Fields
<1> QED BY <1>1, <1>2, Zenon

\* From the search to the frame, the channel, the rate and the power stay.
LEMMA OnTheWay ==
  ASSUME RegionsKeepContract, IInv, phase \in {"sense", "clear"},
         region' = region, g' = g, quiet' = quiet, round' = round,
         phase' \in {"clear", "sending"}, phase' = "sending" => mac'.air = 1,
         radio' = RegionTxConfig(region, g, ConfigOf(mac')),
         Kept(mac, mac', {"cad", "running", "air", "trials"}),
         mac'.air \in {mac.air, 1}, mac'.trials \in Nat, phase' = "clear" => mac'.air = mac.air
  PROVE  IInv'
<1> DEFINE S == {"cad", "running", "air", "trials"}
<1>1. /\ region \in Regions /\ Contract(region) /\ MacTyped(region, mac) /\ WellFormed(region, g)
      /\ Unjoined(region, mac) /\ Quiet(region, g, mac, quiet)
      /\ OthersCovered(region, g, mac, quiet) /\ Hops(region, g, round)
  BY AtHand, Zenon DEF Base
<1>2. /\ AllCovered(region, g, mac, quiet) /\ Ready(region, g, mac)
      /\ Joining(mac) /\ mac.dr \in 0 .. TopRate(region)
      /\ mac.win1 = WithWindows(mac).win1 /\ mac.win2 = WithWindows(mac).win2
      /\ (region = "AU915" => mac.joined) => Rested
  <2>1. phase \in Sending
    BY DEF Sending
  <2> QED BY <2>1, Zenon DEF IInv, TimeOffRespected
<1>3. /\ mac'.joined = mac.joined /\ mac'.frame = mac.frame /\ mac'.age = mac.age
      /\ mac'.channel = mac.channel /\ mac'.lastTx = mac.lastTx /\ mac'.dr = mac.dr
      /\ mac'.power = mac.power /\ mac'.maxEirp = mac.maxEirp /\ mac'.rx1Off = mac.rx1Off
      /\ mac'.rx2 = mac.rx2 /\ mac'.downDwell = mac.downDwell
      /\ mac'.win1 = mac.win1 /\ mac'.win2 = mac.win2 /\ mac'.dutyOn = mac.dutyOn
      /\ mac'.aggrDc = mac.aggrDc /\ mac'.sinceAggr = mac.sinceAggr
  BY DEF Kept, Fields
<1>4. mac.air \in {0, 1} /\ mac'.air \in {0, 1} /\ (mac'.air = 0 => mac.air = 0)
  BY <1>1 DEF MacTyped
<1>5. MacTyped(region, mac')
  BY <1>1, <1>4, Retyped
<1>6. Quiet(region, g', mac', quiet') /\ OthersCovered(region, g', mac', quiet')
      /\ Unjoined(region, mac') /\ AllCovered(region, g', mac', quiet')
      /\ Ready(region, g', mac') /\ Joining(mac')
  <2>1. Quiet(region, g, mac', quiet)
    BY <1>1, <1>3, <1>4, Zenon DEF Quiet
  <2>2. OthersCovered(region, g, mac', quiet) /\ Unjoined(region, mac')
    BY <1>1, <1>3, Zenon DEF OthersCovered, Unjoined
  <2>3. AllCovered(region, g, mac', quiet) /\ Ready(region, g, mac') /\ Joining(mac')
    BY <1>2, <1>3, Zenon DEF AllCovered, Ready, Joining
  <2> QED BY <2>1, <2>2, <2>3, Zenon
<1>7. Base(region, g', mac', quiet') /\ Hops(region, g', round')
  BY <1>1, <1>5, <1>6, Zenon DEF Base
<1>8. mac'.win1 = WithWindows(mac)'.win1 /\ mac'.win2 = WithWindows(mac)'.win2
  <2>1. DOMAIN mac = Fields /\ DOMAIN mac' = Fields
    BY <1>1, <1>5, Zenon DEF MacTyped
  <2>2. WithWindows(mac)' = WithWindows(mac')
    BY Zenon DEF WithWindows
  <2> QED BY <1>2, <1>3, <2>1, <2>2, WindowsKept, Zenon
<1>9. radio' = RegionTxConfig(region', g', ConfigOf(mac)')
  BY Zenon DEF ConfigOf
<1>10. TimeOffRespected'
  <2>1. SUFFICES ASSUME phase' = "clear", region = "AU915" => mac.joined PROVE Rested'
    <3>1. phase' # "sense"
      OBVIOUS
    <3> QED BY <1>3, <3>1, Zenon DEF TimeOffRespected
  <2> QED BY <1>2, <1>3, <2>1, Zenon DEF Rested
<1>11. WindowHearsPreamble'
  <2>1. phase' # "rx1" /\ phase' # "rx2"
    OBVIOUS
  <2> QED BY <2>1, Zenon DEF WindowHearsPreamble
<1>12. phase' \in Sending /\ phase' # "search" /\ phase' # "delayed" /\ mac'.dr \in 0 .. TopRate(region)
  BY <1>2, <1>3 DEF Sending
<1> QED BY <1>1, <1>6, <1>7, <1>8, <1>9, <1>10, <1>11, <1>12, Zenon DEF IInv

LEMMA CadDoneKeeps ==
  ASSUME RegionsKeepContract, IInv, NEW busy \in BOOLEAN, CadDone(busy)
  PROVE  IInv'
<1>1. /\ region \in Regions /\ Contract(region) /\ Base(region, g, mac, quiet)
      /\ MacTyped(region, mac) /\ DOMAIN mac = Fields /\ Hops(region, g, round)
      /\ Unjoined(region, mac)
  BY AtHand, Zenon
<1>2. /\ phase = "sense" /\ region' = region /\ g' = g /\ quiet' = quiet /\ round' = round
      /\ radio' = radio
  BY Zenon DEF CadDone
<1>3. phase \in Sending
  BY <1>2 DEF Sending
<1>4. CASE mac' = [mac EXCEPT !.cad = @ + 1, !.wait = 0] /\ phase' = "delayed"
  <2>1. Kept(mac, mac', {"cad", "wait"}) /\ mac'.wait = 0
    BY <1>1, <1>4, Zenon DEF Kept, Fields
  <2>2. mac'.joined = mac.joined /\ mac'.frame = mac.frame /\ mac'.channel = mac.channel
    BY <2>1 DEF Kept, Fields
  <2>3. MacTyped(region, mac')
    BY <1>1, <2>1, Retyped
  <2>4. Base(region, g', mac', quiet')
    <3>1. ~mac'.joined => mac'.frame \in {"NONE", "JOIN"} /\ mac'.channel \in RegionJoinChannels(region)
      BY <1>1, <2>2, Zenon DEF Unjoined
    <3>2. Base(region, g, mac', quiet)
      BY <1>1, <2>1, <2>2, <2>3, <3>1, BaseKept
    <3> QED BY <1>2, <3>2, Zenon
  <2>5. Joining(mac')
    BY <1>3, <2>2, Zenon DEF IInv, Joining
  <2>6. phase' \in {"idle", "search", "delayed", "check", "wave"} /\ phase' # "search"
    BY <1>4
  <2> QED BY <1>1, <1>2, <2>4, <2>5, <2>6, RestKeeps, Zenon
<1>5. CASE mac' = [mac EXCEPT !.cad = 1, !.running = TRUE] /\ phase' = "clear"
  <2>1. Kept(mac, mac', {"cad", "running"})
    BY <1>1, <1>5, Zenon DEF Kept, Fields
  <2>2. /\ mac'.channel = mac.channel /\ mac'.dr = mac.dr /\ mac'.power = mac.power
        /\ mac'.maxEirp = mac.maxEirp /\ mac'.air = mac.air /\ mac'.trials = mac.trials
    BY <2>1 DEF Kept, Fields
  <2>3. radio' = RegionTxConfig(region, g, ConfigOf(mac'))
    <3>1. radio = RegionTxConfig(region, g, ConfigOf(mac))
      BY <1>3, Zenon DEF IInv
    <3>2. ConfigOf(mac') = ConfigOf(mac)
      BY <2>2, Zenon DEF ConfigOf
    <3> QED BY <1>2, <3>1, <3>2, Zenon
  <2>4. Kept(mac, mac', {"cad", "running", "air", "trials"})
    BY <2>1 DEF Kept
  <2>5. mac'.trials \in Nat
    BY <1>1, <2>2, Zenon DEF MacTyped
  <2>6. phase \in {"sense", "clear"} /\ phase' \in {"clear", "sending"} /\ phase' # "sending"
    BY <1>2, <1>5
  <2>7. mac'.air \in {mac.air, 1}
    BY <2>2
  <2> QED BY <1>2, <2>2, <2>3, <2>4, <2>5, <2>6, <2>7, OnTheWay, Zenon
<1> QED BY <1>4, <1>5, Zenon DEF CadDone

LEMMA TxImmediateKeeps == ASSUME RegionsKeepContract, IInv, TxImmediate PROVE IInv'
<1>1. MacTyped(region, mac) /\ DOMAIN mac = Fields
  BY AtHand, Zenon
<1>2. /\ phase = "clear" /\ phase' = "sending" /\ region' = region /\ g' = g /\ quiet' = quiet
      /\ round' = round /\ radio' = RegionTxConfig(region, g, ConfigOf(mac))
      /\ mac' = [mac EXCEPT !.air = 1, !.trials = IF mac.joined THEN @ ELSE @ + 1]
  BY Zenon DEF TxImmediate
<1>3. /\ Kept(mac, mac', {"air", "trials"}) /\ mac'.air = 1
      /\ mac'.trials = IF mac.joined THEN mac.trials ELSE mac.trials + 1
  BY <1>1, <1>2, Zenon DEF Kept, Fields
<1>4. /\ mac'.channel = mac.channel /\ mac'.dr = mac.dr /\ mac'.power = mac.power
      /\ mac'.maxEirp = mac.maxEirp
  BY <1>3, Zenon DEF Kept, Fields
<1>5. mac'.trials \in Nat
  <2>1. mac.trials \in Nat
    BY <1>1, Zenon DEF MacTyped
  <2> QED BY <1>3, <2>1
<1>6. radio' = RegionTxConfig(region, g, ConfigOf(mac'))
  <2>1. ConfigOf(mac') = ConfigOf(mac)
    BY <1>4, Zenon DEF ConfigOf
  <2> QED BY <1>2, <2>1, Zenon
<1>7. Kept(mac, mac', {"cad", "running", "air", "trials"})
  <2>1. Kept(mac, mac', {"air", "trials"})
    BY <1>3, Zenon
  <2> QED BY <2>1 DEF Kept
<1>8. mac'.air = 1
  BY <1>3, Zenon
<1> QED BY <1>2, <1>5, <1>6, <1>7, <1>8, OnTheWay

\* A step to a phase in which the device waits for an answer.
LEMMA AwaitKeeps ==
  ASSUME RegionsKeepContract, IInv, region' = region, phase' \in Awaiting,
         Base(region, g', mac', quiet'), Hops(region, g', round'), Joining(mac'),
         mac'.dr \in 0 .. TopRate(region),
         mac'.win1 = WithWindows(mac').win1, mac'.win2 = WithWindows(mac').win2,
         WindowHearsPreamble'
  PROVE  IInv'
<1>1. phase' \notin Sending /\ phase' \notin {"search", "delayed", "sense", "clear", "sending"}
  BY DEF Sending, Awaiting
<1>2. TimeOffRespected'
  BY <1>1, Zenon DEF TimeOffRespected
<1>3. WithWindows(mac)' = WithWindows(mac')
  BY Zenon DEF WithWindows
<1>4. region \in Regions
  BY Zenon DEF IInv
<1> QED BY <1>1, <1>2, <1>3, <1>4, Zenon DEF IInv

\* The frame is sent: its band becomes the one that ScheduleTx has to charge.
LEMMA TxDoneKeeps == ASSUME RegionsKeepContract, IInv, TxDone PROVE IInv'
<1> DEFINE band == g.channels[mac.channel].band
           stamped == SetBandTxDone(mac.joined, g.bands[band])
           bands == [g.bands EXCEPT ![band] = stamped]
           imposed == IF mac.dutyOn THEN RegionBandDCycle(region)[band] - 1 ELSE 0
<1>1. /\ region \in Regions /\ Contract(region) /\ MacTyped(region, mac) /\ WellFormed(region, g)
      /\ Unjoined(region, mac) /\ Quiet(region, g, mac, quiet) /\ DOMAIN mac = Fields
      /\ Hops(region, g, round)
  BY AtHand, Zenon DEF Base
<1>2. /\ phase = "sending" /\ phase' = "sent" /\ region' = region /\ round' = round
      /\ g' = RegionSetBandTxDone(region, g, mac.joined, mac.channel)
      /\ mac' = [mac EXCEPT !.lastTx = mac.channel, !.sinceAggr = 0,
                            !.rep = IF mac.frame = "CONFIRMED" THEN @ ELSE @ + 1]
      /\ quiet' = [bands  |-> [quiet.bands EXCEPT ![band] = imposed],
                   factor |-> IF mac.frame = "JOIN" THEN GetJoinDc(mac.age) - 1 ELSE quiet.factor,
                   join   |-> IF mac.frame = "JOIN" THEN BACKOFF_DC(mac.age) - 1 ELSE quiet.join]
  BY Zenon DEF TxDone, QuietWith
<1>3. /\ AllCovered(region, g, mac, quiet) /\ Joining(mac) /\ mac.dr \in 0 .. TopRate(region)
      /\ mac.win1 = WithWindows(mac).win1 /\ mac.win2 = WithWindows(mac).win2 /\ mac.air = 1
  <2>1. phase \in Sending
    BY <1>2 DEF Sending
  <2> QED BY <1>2, <2>1, Zenon DEF IInv
<1>4. /\ mac.joined \in BOOLEAN /\ mac.channel \in Ids(region) /\ mac.age \in Ages
      /\ mac.dutyOn \in BOOLEAN
  BY <1>1, ConstantsKept, Zenon DEF MacTyped
<1>5. /\ g.bands \in [Bands(region) -> Band] /\ band \in Bands(region)
      /\ \A b \in Bands(region) : /\ g.bands[b].timeOff \in Nat /\ g.bands[b].sinceTx \in Nat
                                  /\ g.bands[b].sinceJoin \in Nat
  BY <1>1, <1>4, BandFields
<1>6. JoinBand(region) \in Bands(region) /\ RegionBandDCycle(region) \in [Bands(region) -> Nat \ {0}]
  BY <1>1, ConstantsKept
<1>7. /\ stamped \in Band /\ stamped.timeOff = g.bands[band].timeOff /\ stamped.sinceTx = 0
      /\ stamped.sinceJoin = IF mac.joined THEN g.bands[band].sinceJoin ELSE 0
  BY <1>5 DEF SetBandTxDone, Band
<1>8. g' = WithBands(g, bands)
  <2>1. BackOff(region, g)
    BY <1>1, Zenon DEF Contract
  <2>2. g' = [g EXCEPT !.bands[band] = SetBandTxDone(mac.joined, @)]
    BY <1>2, <1>4, <2>1, Zenon DEF BackOff
  <2> QED BY <2>2, Zenon DEF WithBands
<1>9. bands \in [Bands(region) -> Band]
  BY <1>5, <1>7
<1>10. \A b \in Bands(region) : bands[b] = IF b = band THEN stamped ELSE g.bands[b]
  BY <1>5
<1> HIDE DEF bands, stamped, band
<1>11. /\ WellFormed(region, g') /\ g'.bands = bands
       /\ g'.channels = g.channels /\ g'.mask = g.mask /\ g'.remaining = g.remaining
  BY <1>1, <1>8, <1>9, BandsReplaced
<1>12. /\ Kept(mac, mac', {"lastTx", "sinceAggr", "rep"}) /\ mac'.lastTx = mac.channel
       /\ mac'.sinceAggr = 0
  BY <1>1, <1>2, Zenon DEF Kept, Fields
<1>13. /\ mac'.joined = mac.joined /\ mac'.frame = mac.frame /\ mac'.age = mac.age
       /\ mac'.channel = mac.channel /\ mac'.dr = mac.dr /\ mac'.rx1Off = mac.rx1Off
       /\ mac'.rx2 = mac.rx2 /\ mac'.downDwell = mac.downDwell /\ mac'.air = mac.air
       /\ mac'.win1 = mac.win1 /\ mac'.win2 = mac.win2 /\ mac'.dutyOn = mac.dutyOn
  BY <1>12 DEF Kept, Fields
<1>14. MacTyped(region, mac') /\ Unjoined(region, mac') /\ Joining(mac')
  <2>1. MacTyped(region, mac')
    BY <1>1, <1>4, <1>12, Retyped
  <2> QED BY <1>1, <1>3, <1>12, <1>13, <2>1, Zenon DEF Unjoined, Joining
<1>15. imposed \in Nat /\ imposed <= RegionBandDCycle(region)[band] - 1 /\ (~mac.dutyOn => imposed = 0)
  BY <1>5, <1>6
<1> HIDE DEF imposed
<1>16. /\ quiet' \in [bands : [Bands(region) -> Nat], factor : Nat, join : Nat]
       /\ \A b \in Bands(region) : quiet'.bands[b] = IF b = band THEN imposed ELSE quiet.bands[b]
       /\ quiet'.factor = IF mac.frame = "JOIN" THEN GetJoinDc(mac.age) - 1 ELSE quiet.factor
  <2>1. GetJoinDc(mac.age) \in Nat /\ GetJoinDc(mac.age) >= 1
    BY <1>4, JoinDuty
  <2>2. GetJoinDc(mac.age) - 1 \in Nat /\ BACKOFF_DC(mac.age) - 1 \in Nat
    BY <1>4, <2>1, JoinRatio
  <2> QED BY <1>1, <1>2, <1>5, <1>15, <2>2 DEF Quiet
<1>17. Quiet(region, g', mac', quiet')
  <2>1. mac'.air = 1 /\ (~mac'.dutyOn => \A b \in Bands(region) : quiet'.bands[b] = 0)
    BY <1>1, <1>3, <1>13, <1>15, <1>16 DEF Quiet
  <2>2. ASSUME NEW b \in Bands(region), quiet'.bands[b] # 0
        PROVE  quiet'.bands[b] + g'.bands[b].sinceTx <= RegionBandDCycle(region)[b] - 1
    <3>1. CASE b = band
      BY <1>5, <1>6, <1>7, <1>10, <1>11, <1>15, <1>16, <3>1
    <3>2. CASE b # band
      BY <1>1, <1>10, <1>11, <1>16, <2>2, <3>2, Zenon DEF Quiet
    <3> QED BY <3>1, <3>2
  <2>3. ASSUME ~mac'.joined, NEW b \in Bands(region)
        PROVE  g'.bands[b].sinceJoin = g'.bands[b].sinceTx
    BY <1>1, <1>7, <1>10, <1>11, <1>13, <2>3, Zenon DEF Quiet
  <2>4. ASSUME ~mac'.joined, quiet'.factor # 0
        PROVE  quiet'.factor + g'.bands[JoinBand(region)].sinceTx <= GetJoinDc(mac'.age) - 1
    <3>1. band = JoinBand(region)
      BY <1>1, <1>13, <2>4, Zenon DEF Unjoined, WellFormed, band
    <3>2. g'.bands[JoinBand(region)].sinceTx = 0
      BY <1>5, <1>7, <1>10, <1>11, <3>1, Zenon
    <3>3. GetJoinDc(mac.age) \in Nat
      BY <1>4, JoinDuty
    <3>4. mac.frame # "JOIN" => quiet.factor + g.bands[JoinBand(region)].sinceTx <= GetJoinDc(mac.age) - 1
      BY <1>1, <1>13, <1>16, <2>4, Zenon DEF Quiet
    <3>5. quiet.factor \in Nat /\ g.bands[JoinBand(region)].sinceTx \in Nat
      BY <1>1, <1>5, <1>6 DEF Quiet
    <3> QED BY <1>13, <1>16, <3>2, <3>3, <3>4, <3>5
  <2>5. mac'.air # 0
    BY <2>1
  <2> QED BY <1>16, <2>1, <2>2, <2>3, <2>4, <2>5, Zenon DEF Quiet
<1>18. OthersCovered(region, g', mac', quiet')
  <2>1. ASSUME NEW b \in Bands(region), b # band PROVE Covered(g', quiet', b)
    BY <1>3, <1>10, <1>11, <1>16, <2>1, Zenon DEF AllCovered, Covered
  <2> QED BY <1>11, <1>12, <2>1, Zenon DEF OthersCovered, band
<1>19. Base(region, g', mac', quiet')
  BY <1>11, <1>14, <1>17, <1>18, Zenon DEF Base
<1>20. Hops(region, g', round')
  BY <1>1, <1>2, <1>11, Zenon DEF Hops
<1>21. mac'.win1 = WithWindows(mac').win1 /\ mac'.win2 = WithWindows(mac').win2
  <2>1. DOMAIN mac' = Fields
    BY <1>12 DEF Kept
  <2> QED BY <1>1, <1>3, <1>13, <2>1, WindowsKept, Zenon
<1>22. phase' \in Awaiting /\ phase' # "rx1" /\ phase' # "rx2"
  BY <1>2 DEF Awaiting
<1>23. WindowHearsPreamble'
  BY <1>22, Zenon DEF WindowHearsPreamble
<1> QED BY <1>2, <1>3, <1>13, <1>14, <1>19, <1>20, <1>21, <1>22, <1>23, AwaitKeeps, Zenon

-----------------------------------------------------------------------------
(* The windows hear the preamble.                                           *)

LEMMA CeilBounds ==
  \A a \in Int, b \in Nat \ {0} :
    Ceil(a, b) \in Int /\ Ceil(a, b) * b >= a /\ Ceil(a, b) * b < a + b
BY DEF Ceil

\* The window that RegionComputeRxWindowParameters asks for, for symbols of
\* t microseconds.
Asked(t) == ComputeRxWindowParameters(t, MinRxSymbols, SystemMaxRxError, WakeUpTime)

\* Its length and its offset, in numbers.
LEMMA AskedWindow ==
  ASSUME NEW t \in Nat \ {0}
  PROVE  /\ Asked(t).timeout = Max({Ceil(4 * t + 20000, t), 6})
         /\ Asked(t).offset = Ceil((8 - Asked(t).timeout) * t - 8000, 2000)
<1> DEFINE s == Max({Ceil(4 * t + 20000, t), 6})
<1>1. (2 * 6 - 8) * t + 2000 * 10 = 4 * t + 20000 /\ 2000 * 4 = 8000
  OBVIOUS
<1>2. Asked(t) = [timeout |-> s, offset |-> Ceil((8 - s) * t - 8000, 2000)]
  BY <1>1, SMT DEF Asked, ComputeRxWindowParameters, MinRxSymbols, SystemMaxRxError, WakeUpTime
<1> QED BY <1>2, SMT

\* The overlap of a window of total microseconds that starts at start with a
\* preamble of eight symbols that starts at error, for an error of up to k and
\* a start that is rounded to m microseconds.
LEMMA Overlap ==
  ASSUME NEW t \in Nat \ {0}, NEW start \in Int, NEW total \in Int, NEW k \in Nat, NEW m \in Nat,
         NEW error \in {-k, k}, total >= 4 * t + 2 * k, total >= 6 * t,
         2 * start >= 8 * t - total, 2 * start < 8 * t - total + 2 * m
  PROVE  Min({start + total, error + 8 * t}) - Max({start, error}) >= 6 * t - m
<1>1. Max({start, error}) = (IF start >= error THEN start ELSE error)
  BY MaxOfTwo
<1>2. Min({start + total, error + 8 * t}) =
        (IF start + total <= error + 8 * t THEN start + total ELSE error + 8 * t)
  BY MinOfTwo
<1> QED BY <1>1, <1>2, SMT

\* A window of the computed length, opened at the computed offset, holds
\* MinRxSymbols symbols of the preamble whichever way the clock is off.
LEMMA PreambleHeard ==
  ASSUME NEW t \in Nat \ {0}, NEW w,
         w.timeout = Asked(t).timeout, w.offset = Asked(t).offset
  PROVE  Hears(w, w.timeout, t)
<1> DEFINE c == Ceil(4 * t + 20000, t)
           s == w.timeout
           total == s * t
           start == Millisecond * (w.offset + WakeUpTime)
           k == Millisecond * SystemMaxRxError
<1>1. c \in Int /\ c * t >= 4 * t + 20000
  <2> DEFINE a == 4 * t + 20000
  <2>1. a \in Int
    OBVIOUS
  <2> HIDE DEF a
  <2>2. Ceil(a, t) \in Int /\ Ceil(a, t) * t >= a
    BY <2>1, CeilBounds, Zenon
  <2> QED BY <2>2, SMT DEF a
<1>2. s = Max({c, 6}) /\ w.offset = Ceil((8 - s) * t - 8000, 2000)
  BY AskedWindow, SMT
<1> HIDE DEF c
<1>3. s \in Int /\ s >= c /\ s >= 6
  <2>1. s = IF c >= 6 THEN c ELSE 6
    BY <1>1, <1>2, MaxOfTwo
  <2> QED BY <1>1, <2>1
<1> HIDE DEF s
<1>4. total \in Int /\ total >= 4 * t + 20000 /\ total >= 6 * t
  <2>1. \A x, y \in Int : x >= y => x * t >= y * t
    OBVIOUS
  <2> QED BY <1>1, <1>3, <2>1
<1>5. (8 - s) * t - 8000 = 8 * t - total - 8000
  BY <1>3
<1> HIDE DEF total
<1>6. /\ w.offset \in Int /\ 2000 * w.offset >= 8 * t - total - 8000
      /\ 2000 * w.offset < 8 * t - total - 6000
  <2> DEFINE a == 8 * t - total - 8000
             two == 2000
  <2>1. w.offset = Ceil(a, 2000)
    BY <1>2, <1>5
  <2>2. a \in Int /\ two \in Nat \ {0}
    BY <1>4
  <2> HIDE DEF a, two
  <2>3. Ceil(a, two) \in Int /\ Ceil(a, two) * two >= a /\ Ceil(a, two) * two < a + two
    BY <2>2, CeilBounds, Zenon
  <2> QED BY <1>4, <2>1, <2>2, <2>3 DEF a, two
<1>7. k \in Nat /\ Millisecond \in Nat
  BY DEF Millisecond, SystemMaxRxError
<1>8. /\ start \in Int /\ total \in Int /\ total >= 4 * t + 2 * k /\ total >= 6 * t
      /\ 2 * start >= 8 * t - total /\ 2 * start < 8 * t - total + 2 * Millisecond
  BY <1>4, <1>6 DEF Millisecond, SystemMaxRxError, WakeUpTime
<1> HIDE DEF k, start
<1>9. \A error \in {-k, k} :
        Min({start + total, error + 8 * t}) - Max({start, error}) >= 6 * t - Millisecond
  BY <1>7, <1>8, Overlap, Zenon
<1>10. MinRxSymbols = 6
  BY DEF MinRxSymbols
<1> QED BY <1>9, <1>10, Zenon DEF Hears, total, s, start, k

\* What the radio is told when a window opens.
LEMMA WindowOpened ==
  ASSUME RegionsKeepContract, IInv, NEW dr \in 0 .. 15, RxRate(region, dr), NEW w,
         w = RegionComputeRxWindowParameters(region, dr, MinRxSymbols, SystemMaxRxError, WakeUpTime),
         NEW q, q.dr = w.dr, q.timeout = w.timeout, NEW conf \in RegionRxConfig(region, g, q)
  PROVE  InLoRa(conf) => Hears(w, conf.timeout, SymbolTime(conf.sf, conf.bandwidth))
<1>1. Listens(region, g)
  BY AtHand, Zenon DEF Contract
<1>2. MinRxSymbols \in Nat /\ SystemMaxRxError \in Nat /\ WakeUpTime \in Nat
  BY DEF MinRxSymbols, SystemMaxRxError, WakeUpTime
<1>3. /\ w.dr = dr
      /\ \A x : x.dr = dr => \A y \in RegionRxConfig(region, g, x) :
           Opened(w, x, y, MinRxSymbols, SystemMaxRxError, WakeUpTime)
  BY <1>1, <1>2, Zenon DEF Listens
<1>4. Opened(w, q, conf, MinRxSymbols, SystemMaxRxError, WakeUpTime)
  BY <1>3, Zenon
<1> DEFINE t == SymbolTime(conf.sf, conf.bandwidth)
<1>5. /\ conf.timeout = w.timeout
      /\ InLoRa(conf) =>
           t \in Nat \ {0} /\ w.timeout = Asked(t).timeout /\ w.offset = Asked(t).offset
  BY <1>4, Zenon DEF Opened, Asked
<1> HIDE DEF t
<1>6. InLoRa(conf) => Hears(w, w.timeout, t)
  BY <1>5, PreambleHeard, Zenon
<1> QED BY <1>5, <1>6, Zenon DEF t

LEMMA RxWindow1Keeps == ASSUME RegionsKeepContract, IInv, RxWindow1 PROVE IInv'
<1> DEFINE dr == RegionApplyDrOffset(region, mac.downDwell, mac.dr, mac.rx1Off)
           q == [radioIdle |-> TRUE, slot |-> "RX_SLOT_WIN_1", channel |-> mac.channel,
                 dr |-> mac.win1.dr, frequency |-> mac.rx2.freq, timeout |-> mac.win1.timeout,
                 continuous |-> FALSE]
<1>1. /\ phase = "sent" /\ phase' = "rx1" /\ radio' \in RegionRxConfig(region, g, q)
      /\ region' = region /\ g' = g /\ mac' = mac /\ quiet' = quiet /\ round' = round
  BY Zenon DEF RxWindow1, Listen
<1>2. /\ Base(region, g, mac, quiet) /\ MacTyped(region, mac) /\ DOMAIN mac = Fields
      /\ Hops(region, g, round)
  BY AtHand, Zenon
<1>3. /\ Joining(mac) /\ mac.dr \in 0 .. TopRate(region)
      /\ mac.win1 = WithWindows(mac).win1 /\ mac.win2 = WithWindows(mac).win2
  <2>1. phase \in Awaiting
    BY <1>1 DEF Awaiting
  <2> QED BY <2>1, Zenon DEF IInv
<1>4. dr \in 0 .. 15 /\ RxRate(region, dr)
  BY <1>2, <1>3, Zenon DEF MacTyped, RxOffset, RxRate
<1>5. mac.win1 = RegionComputeRxWindowParameters(region, dr, MinRxSymbols, SystemMaxRxError, WakeUpTime)
  BY <1>2, <1>3, Zenon DEF WithWindows, Fields
<1>6. q.dr = mac.win1.dr /\ q.timeout = mac.win1.timeout
  BY Zenon
<1> HIDE DEF dr, q
<1>7. InLoRa(radio') => Heard(mac.win1)'
  BY <1>1, <1>4, <1>5, <1>6, WindowOpened, Zenon DEF Heard
<1>8. WindowHearsPreamble'
  <2>1. phase' # "rx2"
    BY <1>1
  <2> QED BY <1>7, <2>1, Zenon DEF WindowHearsPreamble
<1>9. phase' \in Awaiting
  BY <1>1 DEF Awaiting
<1> QED BY <1>1, <1>2, <1>3, <1>8, <1>9, AwaitKeeps, Zenon

LEMMA RxWindow2Keeps == ASSUME RegionsKeepContract, IInv, RxWindow2 PROVE IInv'
<1> DEFINE q == [radioIdle |-> TRUE, slot |-> "RX_SLOT_WIN_2", channel |-> mac.channel,
                 dr |-> mac.win2.dr, frequency |-> mac.rx2.freq, timeout |-> mac.win2.timeout,
                 continuous |-> FALSE]
<1>1. /\ phase = "gap" /\ phase' = "rx2" /\ radio' \in RegionRxConfig(region, g, q)
      /\ region' = region /\ g' = g /\ mac' = mac /\ quiet' = quiet /\ round' = round
  BY Zenon DEF RxWindow2, Listen
<1>2. /\ Base(region, g, mac, quiet) /\ MacTyped(region, mac) /\ DOMAIN mac = Fields
      /\ Hops(region, g, round)
  BY AtHand, Zenon
<1>3. /\ Joining(mac) /\ mac.dr \in 0 .. TopRate(region)
      /\ mac.win1 = WithWindows(mac).win1 /\ mac.win2 = WithWindows(mac).win2
  <2>1. phase \in Awaiting
    BY <1>1 DEF Awaiting
  <2> QED BY <2>1, Zenon DEF IInv
<1>4. mac.rx2.dr \in 0 .. 15 /\ RxRate(region, mac.rx2.dr)
  BY <1>2, Zenon DEF MacTyped, WindowOf, RxRate
<1>5. mac.win2 = RegionComputeRxWindowParameters(region, mac.rx2.dr, MinRxSymbols, SystemMaxRxError, WakeUpTime)
  BY <1>2, <1>3, Zenon DEF WithWindows, Fields
<1>6. q.dr = mac.win2.dr /\ q.timeout = mac.win2.timeout
  BY Zenon
<1> HIDE DEF q
<1>7. InLoRa(radio') => Heard(mac.win2)'
  BY <1>1, <1>4, <1>5, <1>6, WindowOpened, Zenon DEF Heard
<1>8. WindowHearsPreamble'
  <2>1. phase' # "rx1"
    BY <1>1
  <2> QED BY <1>7, <2>1, Zenon DEF WindowHearsPreamble
<1>9. phase' \in Awaiting
  BY <1>1 DEF Awaiting
<1> QED BY <1>1, <1>2, <1>3, <1>8, <1>9, AwaitKeeps, Zenon

LEMMA RxTimeoutKeeps == ASSUME RegionsKeepContract, IInv, RxTimeout PROVE IInv'
<1>1. /\ phase \in {"rx1", "rx2"} /\ phase' = IF phase = "rx1" THEN "gap" ELSE "check"
      /\ region' = region /\ g' = g /\ mac' = mac /\ quiet' = quiet /\ round' = round
  BY Zenon DEF RxTimeout
<1>2. /\ Base(region, g, mac, quiet) /\ Hops(region, g, round)
  BY AtHand, Zenon
<1>3. CASE phase = "rx1"
  <2>1. /\ Joining(mac) /\ mac.dr \in 0 .. TopRate(region)
        /\ mac.win1 = WithWindows(mac).win1 /\ mac.win2 = WithWindows(mac).win2
    <3>1. phase \in Awaiting
      BY <1>3 DEF Awaiting
    <3> QED BY <3>1, Zenon DEF IInv
  <2>2. phase' \in Awaiting /\ phase' # "rx1" /\ phase' # "rx2"
    BY <1>1, <1>3 DEF Awaiting
  <2>3. WindowHearsPreamble'
    BY <2>2, Zenon DEF WindowHearsPreamble
  <2> QED BY <1>1, <1>2, <2>1, <2>2, <2>3, AwaitKeeps, Zenon
<1>4. CASE phase = "rx2"
  <2>1. phase' \in {"idle", "search", "delayed", "check", "wave"} /\ phase' # "search" /\ phase' # "delayed"
    BY <1>1, <1>4
  <2> QED BY <1>1, <1>2, <2>1, RestKeeps, Zenon
<1> QED BY <1>1, <1>3, <1>4, Zenon

-----------------------------------------------------------------------------
(* The initial states.                                                      *)

\* The variables of LoRaMac.c when the device starts.
LEMMA Initialized ==
  ASSUME NEW r, Contract(r), NEW adr \in BOOLEAN, NEW m, m = LoRaMacInitialization(r, adr)
  PROVE  /\ DOMAIN m = Fields /\ MacTyped(r, m) /\ ~m.joined /\ m.frame = "NONE" /\ m.air = 0
         /\ m.channel = 0 /\ m.lastTx = 0
<1>1. /\ 0 \in Ids(r) /\ Default(r, "PHY_DEF_TX_POWER") \in Int /\ Default(r, "PHY_DEF_TX_DR") \in Rate
      /\ Eirp(r, MaxEirp(r)) /\ RxOffset(r, 0) /\ NoRx2(r) \in WindowOf(r)
  <2>1. Constants(r)
    BY Zenon DEF Contract
  <2>2. Eirp(r, MaxEirp(r))
    BY <2>1 DEF Constants, Eirp
  <2>3. NoRx2(r) \in WindowOf(r)
    BY <2>1 DEF Constants, NoRx2, WindowOf, Window, RxRate
  <2> QED BY <2>1, <2>2, <2>3, ConstantsKept, Zenon DEF Constants
<1>2. /\ DOMAIN m = Fields /\ m.adr = adr /\ m.joined = FALSE /\ m.dutyOn = DutyCycleOn(r)
      /\ m.age = "first_hour" /\ m.frame = "NONE" /\ m.dr = Default(r, "PHY_DEF_TX_DR") /\ m.minDr = 0
      /\ m.power = Default(r, "PHY_DEF_TX_POWER") /\ m.maxEirp = MaxEirp(r) /\ m.adrCounter = 0
      /\ m.trials = 0 /\ m.wait = 0 /\ m.sinceAggr = 0 /\ m.air = 0 /\ m.aggrDc = 1 /\ m.aggrOff = 0
      /\ m.rx1Off = 0 /\ m.rx2 = NoRx2(r) /\ m.defRx2 = NoRx2(r) /\ m.upDwell = 0 /\ m.downDwell = 0
      /\ m.channel = 0 /\ m.lastTx = 0
  BY ZenonT(60) DEF LoRaMacInitialization, ResetMacParameters, Fields, MaxEirp, DutyCycleOn
<1>3. /\ 0 \in Nat /\ 0 \in Int /\ 1 \in Int /\ 0 \in {0, 1} /\ 0 \in Rate /\ "first_hour" \in Ages
      /\ "NONE" \in {"NONE", "JOIN", "CONFIRMED", "UNCONFIRMED"} /\ FALSE \in BOOLEAN
  BY DEF Rate, Ages
<1>4. MacTyped(r, m)
  BY <1>1, <1>2, <1>3, Zenon DEF MacTyped
<1> QED BY <1>2, <1>4, Zenon

LEMMA InitEstablishes == ASSUME RegionsKeepContract, Init PROVE IInv
<1>1. /\ region \in Regions /\ g = Start(region) /\ phase = "idle" /\ round = {}
      /\ quiet = [bands |-> [b \in Bands(region) |-> 0], factor |-> 0, join |-> 0]
  BY Zenon DEF Init, Start, Bands
<1>2. PICK adr \in AdrModes(region) : mac = LoRaMacInitialization(region, adr)
  BY Zenon DEF Init
<1>3. Contract(region) /\ adr \in BOOLEAN
  BY <1>1, <1>2, DeviceAssumption DEF RegionsKeepContract
<1>4. /\ DOMAIN mac = Fields /\ MacTyped(region, mac) /\ ~mac.joined /\ mac.frame = "NONE"
      /\ mac.air = 0 /\ mac.channel = 0 /\ mac.lastTx = 0
  BY <1>2, <1>3, Initialized, Zenon
<1>5. /\ WellFormed(region, g)
      /\ g.bands = [b \in Bands(region) |-> [timeOff |-> 0, sinceTx |-> 0, sinceJoin |-> 0]]
      /\ region \in HopRegions => g.remaining \cap Narrow = g.mask \cap Narrow
  BY <1>1, <1>3, Zenon DEF Contract, Started
<1>6. Unjoined(region, mac)
  BY <1>3, <1>4, ConstantsKept DEF Unjoined
<1>7. Quiet(region, g, mac, quiet)
  <2>1. \A b \in Bands(region) : quiet.bands[b] = 0 /\ g.bands[b].sinceJoin = g.bands[b].sinceTx
    BY <1>1, <1>5
  <2>2. quiet \in [bands : [Bands(region) -> Nat], factor : Nat, join : Nat] /\ quiet.factor = 0
    BY <1>1
  <2> QED BY <2>1, <2>2, Zenon DEF Quiet
<1>8. OthersCovered(region, g, mac, quiet)
  BY <1>1 DEF OthersCovered, Covered
<1>9. Hops(region, g, round)
  BY <1>1, <1>5 DEF Hops
<1>10. Base(region, g, mac, quiet)
  BY <1>4, <1>5, <1>6, <1>7, <1>8, Zenon DEF Base
<1>11. /\ phase \notin Sending /\ phase \notin Awaiting
       /\ phase \notin {"search", "delayed", "sense", "clear", "sending", "rx1", "rx2"}
  BY <1>1 DEF Sending, Awaiting
<1>12. TimeOffRespected /\ WindowHearsPreamble
  BY <1>11, Zenon DEF TimeOffRespected, WindowHearsPreamble
<1> QED BY <1>1, <1>9, <1>10, <1>11, <1>12, Zenon DEF IInv

-----------------------------------------------------------------------------
(* The invariant holds.                                                     *)

LEMMA StepKeeps == ASSUME RegionsKeepContract, IInv, [Next]_vars PROVE IInv'
<1>1. CASE JoinRequest
  BY <1>1, JoinRequestKeeps, Zenon
<1>2. CASE TxCw \/ TxCwEnd
  BY <1>2, TxCwKeeps, Zenon
<1>3. CASE \E frame \in FrameTypes(region), dr \in Rates,
              silent \in {mac.adrCounter} \cup SilentUplinks(region) : McpsRequest(frame, dr, silent)
  BY <1>3, McpsRequestKeeps, Zenon
<1>4. CASE \E setting \in Settings(region) : Set(setting)
  BY <1>4, SetKeeps, Zenon
<1>5. CASE Search
  BY <1>5, SearchKeeps, Zenon
<1>6. CASE \E busy \in BOOLEAN : CadDone(busy)
  BY <1>6, CadDoneKeeps, Zenon
<1>7. CASE TxImmediate
  BY <1>7, TxImmediateKeeps, Zenon
<1>8. CASE TxDone
  BY <1>8, TxDoneKeeps, Zenon
<1>9. CASE TxDelayed
  BY <1>9, TxDelayedKeeps, Zenon
<1>10. CASE RxWindow1
  BY <1>10, RxWindow1Keeps, Zenon
<1>11. CASE RxWindow2
  BY <1>11, RxWindow2Keeps, Zenon
<1>12. CASE RxTimeout
  BY <1>12, RxTimeoutKeeps, Zenon
<1>13. CASE \E accept \in Accepts(region) : JoinAccept(accept)
  BY <1>13, JoinAcceptKeeps, Zenon
<1>14. CASE \E c \in Commands(region) : Downlink(c)
  BY <1>14, DownlinkKeeps, Zenon
<1>15. CASE MacStateCheck
  BY <1>15, MacStateCheckKeeps, Zenon
<1>16. CASE \E d \in Durations(region) : Elapse(d)
  BY <1>16, ElapseKeeps, Zenon
<1>17. CASE UNCHANGED vars
  <2>1. /\ region' = region /\ g' = g /\ mac' = mac /\ phase' = phase /\ radio' = radio
        /\ quiet' = quiet /\ round' = round
    BY <1>17, Zenon DEF vars
  <2>2. TimeOffRespected'
    BY <2>1, Zenon DEF IInv, TimeOffRespected, Rested
  <2>3. WindowHearsPreamble'
    BY <2>1, Zenon DEF IInv, WindowHearsPreamble, Heard
  <2>4. (phase \in Sending => radio = RegionTxConfig(region, g, ConfigOf(mac)))'
    BY <2>1, Zenon DEF IInv, ConfigOf
  <2>5. (phase \in Sending \cup Awaiting =>
           mac.win1 = WithWindows(mac).win1 /\ mac.win2 = WithWindows(mac).win2)'
    BY <2>1, Zenon DEF IInv, WithWindows
  <2> QED BY <2>1, <2>2, <2>3, <2>4, <2>5, Zenon DEF IInv
<1> QED BY <1>1, <1>2, <1>3, <1>4, <1>5, <1>6, <1>7, <1>8, <1>9, <1>10, <1>11, <1>12, <1>13, <1>14,
           <1>15, <1>16, <1>17, Zenon DEF Next

LEMMA Invariance == ASSUME RegionsKeepContract PROVE Spec => []IInv
<1>1. Init => IInv
  BY InitEstablishes, Zenon
<1>2. IInv /\ [Next]_vars => IInv'
  BY StepKeeps, Zenon
<1> QED BY <1>1, <1>2, PTL DEF Spec

-----------------------------------------------------------------------------
(* What the invariant says of a frame.                                      *)

\* The radio was set up for the frame.
LEMMA RadioSet ==
  ASSUME RegionsKeepContract, IInv, phase \in Sending
  PROVE  Radiates(region, g, ConfigOf(mac), radio)
<1> DEFINE c == ConfigOf(mac)
<1>1. /\ MacTyped(region, mac) /\ WellFormed(region, g) /\ Contract(region)
      /\ mac.dr \in 0 .. TopRate(region)
  BY AtHand, Zenon DEF IInv, Ready
<1>2. radio = RegionTxConfig(region, g, c)
  BY Zenon DEF IInv
<1>3. mac.maxEirp \in Int
  BY <1>1, Zenon DEF MacTyped, Eirp
<1>4. c \in [channel : Ids(region), dr : 0 .. TopRate(region), power : Int, maxEirp : Int,
             antennaGain : {AntennaGain(region)}]
  BY <1>1, <1>3 DEF MacTyped, ConfigOf, AntennaGain
<1>5. Transmits(region, g)
  BY <1>1, Zenon DEF Contract
<1> HIDE DEF c
<1>6. Radiates(region, g, c, radio)
  BY <1>2, <1>4, <1>5, Zenon DEF Transmits
<1> QED BY <1>6, Zenon DEF c

\* Only the search begins to sense a channel, the one it found.
LEMMA OnlySearchPicks == ASSUME [Next]_vars, phase = "search", phase' = "sense" PROVE Search
<1>1. ~CanRequest /\ phase \notin {"idle", "delayed", "rx1", "rx2"}
  BY DEF CanRequest
<1>2. Next
  BY DEF vars
<1>3. ~JoinRequest /\ ~TxCw /\ ~TxCwEnd /\ \A frame, dr, silent : ~McpsRequest(frame, dr, silent)
  BY <1>1, Zenon DEF JoinRequest, TxCw, TxCwEnd, McpsRequest
<1>4. ~TxImmediate /\ ~TxDone /\ ~TxDelayed /\ ~RxWindow1 /\ ~RxWindow2 /\ ~RxTimeout /\ ~MacStateCheck
  BY DEF TxImmediate, TxDone, TxDelayed, RxWindow1, RxWindow2, Listen, RxTimeout, MacStateCheck
<1>5. /\ \A s : ~Set(s)
      /\ \A busy : ~CadDone(busy)
      /\ \A a : ~JoinAccept(a)
      /\ \A c : ~Downlink(c)
      /\ \A d : ~Elapse(d)
  BY <1>1 DEF Set, CadDone, JoinAccept, Downlink, Elapse
<1> QED BY <1>2, <1>3, <1>4, <1>5, Zenon DEF Next

LEMMA SearchPicks ==
  ASSUME RegionsKeepContract, IInv, Search, phase' = "sense"
  PROVE  \E x \in Results : x.ok /\ x.delay = 0 /\ g' = x.g /\ mac'.channel = x.channel
<1>1. phase = "search" /\ phase' # phase /\ phase' # "idle" /\ phase' # "delayed"
  BY DEF Search
<1>2. PICK x \in Results :
        /\ x.ok /\ x.delay = 0 /\ g' = x.g
        /\ mac' = WithWindows([mac EXCEPT !.channel = x.channel, !.aggrOff = x.aggrTimeOff])
  BY <1>1, Zenon DEF Search
<1>3. DOMAIN mac = Fields
  BY AtHand, Zenon
<1>4. mac'.channel = x.channel
  BY <1>2, <1>3, Zenon DEF WithWindows, Fields
<1> QED BY <1>2, <1>4, Zenon

-----------------------------------------------------------------------------
(* The theorems.                                                            *)

\* Whatever the application and the network ask for, the channel table, the
\* masks and the data rate stay what the code that indexes them expects.
THEOREM TableStaysTyped == ASSUME RegionsKeepContract PROVE Spec => []TypeOK
<1>1. IInv => TypeOK
  <2> SUFFICES ASSUME IInv PROVE TypeOK
    OBVIOUS
  <2>1. /\ WellFormed(region, g) /\ MacTyped(region, mac)
    BY AtHand, Zenon
  <2>2. /\ phase \in {"idle", "search", "sense", "clear", "sending", "delayed", "sent",
                     "rx1", "gap", "rx2", "check", "wave"}
    BY DEF IInv, Sending, Awaiting
  <2>3. mac.dr \in -128 .. 127 /\ mac.lastTx \in Ids(region)
    BY <2>1, Zenon DEF MacTyped, Rate
  <2>4. /\ DOMAIN g.channels = Ids(region) /\ g.mask \subseteq Ids(region)
        /\ g.remaining \subseteq Ids(region) /\ DOMAIN g.bands = Bands(region)
    BY <2>1 DEF WellFormed, Typed
  <2>5. \A c \in Ids(region) : /\ g.channels[c].min <= g.channels[c].max
                               /\ g.channels[c].band \in Bands(region)
    BY <2>1, BandFields, Zenon DEF WellFormed
  <2> QED BY <2>2, <2>3, <2>4, <2>5, Zenon DEF TypeOK
<1> QED BY <1>1, Invariance, PTL

\* A frame goes out on a channel that is enabled, may carry its rate and is
\* open to it, whatever was done to the channels while it waited.
THEOREM FramesSentWhereAllowed == ASSUME RegionsKeepContract PROVE Spec => []SentWhereAllowed
<1>1. IInv => SentWhereAllowed
  <2> SUFFICES ASSUME IInv, phase = "sending", region = "AU915" => mac.joined
               PROVE  /\ mac.channel \in g.mask
                      /\ mac.joined \/ mac.channel \in RegionJoinChannels(region)
                      /\ g.channels[mac.channel].freq = radio.frequency /\ radio.frequency # 0
                      /\ ValueInRange(mac.dr, g.channels[mac.channel].min, g.channels[mac.channel].max)
    BY Zenon DEF SentWhereAllowed
  <2>1. phase \in Sending
    BY DEF Sending
  <2>2. Ready(region, g, mac) /\ radio = RegionTxConfig(region, g, ConfigOf(mac))
    BY <2>1, Zenon DEF IInv
  <2>3. radio.frequency = g.channels[mac.channel].freq
    BY <2>1, RadioSet, Zenon DEF Radiates, ConfigOf
  <2> QED BY <2>2, <2>3, Zenon DEF Ready, Supports
<1> QED BY <1>1, Invariance, PTL

\* No frame is sent before every rest that its predecessors imposed is over.
THEOREM RestsAreKept == ASSUME RegionsKeepContract PROVE Spec => []TimeOffRespected
<1>1. IInv => TimeOffRespected
  BY Zenon DEF IInv
<1> QED BY <1>1, Invariance, PTL

\* A receive window hears enough of the preamble, in whatever way the clock
\* is off and whatever changed since the window was computed.
THEOREM WindowsHear == ASSUME RegionsKeepContract PROVE Spec => []WindowHearsPreamble
<1>1. IInv => WindowHearsPreamble
  BY Zenon DEF IInv
<1> QED BY <1>1, Invariance, PTL

\* No frame is sent with more power than the region and the network allow.
THEOREM PowerStaysLegal == ASSUME RegionsKeepContract PROVE Spec => []PowerLegal
<1>1. IInv => PowerLegal
  <2> SUFFICES ASSUME IInv, phase \in Sending PROVE PowerLegal
    BY Zenon DEF PowerLegal, Sending
  <2>1. /\ MacTyped(region, mac) /\ Contract(region)
    BY AtHand, Zenon
  <2>2. /\ radio.phyPower \in Int /\ 100 * radio.phyPower + AntennaGain(region) <= Radiated(region, mac.maxEirp)
        /\ region \in {"US915", "US915_HYBRID"} =>
             /\ radio.bandwidth = 500 => radio.phyPower <= 26
             /\ radio.bandwidth = 125 /\ Cardinality(g.mask \cap Narrow) < 50 => radio.phyPower <= 21
    <3>1. Radiates(region, g, ConfigOf(mac), radio) /\ Eirp(region, mac.maxEirp)
      BY <2>1, RadioSet, Zenon DEF MacTyped
    <3> QED BY <3>1 DEF Radiates, ConfigOf
  <2>3. /\ mac.maxEirp \in Int /\ mac.maxEirp <= MaxEirp(region) /\ MaxEirp(region) \in Int
        /\ AntennaGain(region) \in Nat
    BY <2>1 DEF MacTyped, Eirp, Contract, Constants
  <2>4. /\ Radiated(region, mac.maxEirp) <= Radiated(region, MaxEirp(region))
        /\ Radiated(region, mac.maxEirp) \in Int /\ Radiated(region, MaxEirp(region)) \in Int
    BY <2>3 DEF Radiated
  <2>5. 100 * radio.phyPower <= Radiated(region, MaxEirp(region))
    BY <2>2, <2>3, <2>4
  <2> QED BY <2>2, <2>5 DEF PowerLegal, MaxEirp, AntennaGain
<1> QED BY <1>1, Invariance, PTL

\* A hopping device uses no narrow channel twice in a round of hops.
THEOREM NoChannelIsFavoured == ASSUME RegionsKeepContract PROVE Spec => NoChannelFavoured
<1> DEFINE Fair == \A c \in Narrow :
                     /\ region \in HopRegions /\ phase = "search" /\ phase' = "sense" /\ mac'.channel = c
                     /\ Picked(g', c)
                     => c \notin round \/ g.mask \cap Narrow \subseteq round
<1>1. IInv /\ [Next]_vars => [Fair]_vars
  <2> SUFFICES ASSUME IInv, [Next]_vars, phase = "search", phase' = "sense", NEW c \in Narrow,
                      region \in HopRegions, mac'.channel = c, Picked(g', c)
               PROVE  c \notin round \/ g.mask \cap Narrow \subseteq round
    BY Zenon
  <2>1. Search
    BY OnlySearchPicks, Zenon
  <2>2. PICK x \in Results : x.ok /\ x.delay = 0 /\ g' = x.g /\ mac'.channel = x.channel
    BY <2>1, SearchPicks, Zenon
  <2>3. c \in PickedBy(x)
    BY <2>2, Zenon DEF PickedBy
  <2> QED BY <2>3, RoundKept, Zenon
<1> HIDE DEF Fair
<1>2. Spec => []IInv
  BY Invariance, Zenon
<1>3. Spec => [][Fair]_vars
  BY <1>1, <1>2, PTL DEF Spec
<1> QED BY <1>3 DEF NoChannelFavoured, Fair
=============================================================================
