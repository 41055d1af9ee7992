---------------------------- MODULE RegionCommon ----------------------------
(***************************************************************************)
(* RegionCommon.c: what the regional files share.  A channel mask is the    *)
(* set of the numbers of its enabled channels; word k of the C array holds  *)
(* channels 16k .. 16k + 15.  Frequencies are in units of 100 Hz, as MAC    *)
(* commands carry them, powers in hundredths of a dB, and times in units of *)
(* the time on air of one frame.                                            *)
(***************************************************************************)
EXTENDS Integers, Sequences, SequencesExt

CONSTANT Draws(_)   \* of a set of channels, those that randr may pick

(* A value of a delay that no band asks for: ( TimerTime_t )( -1 ) in C. *)
NoDelay == -1

Channel(freq, min, max, band) ==
  [freq |-> freq, rx1 |-> 0, min |-> min, max |-> max, band |-> band]
NoChannel == Channel(0, 0, 0, 0)

(* A C array, which counts from 0.                                          *)
Table(values) == [i \in 0 .. Len(values) - 1 |-> values[i + 1]]

(* Data rates are of type int8_t.                                           *)
Int8(n) == ((n + 128) % 256) - 128

ValueInRange(value, min, max) == min <= value /\ value <= max

(* The bits a status byte clears: the names of the checks that failed; {} is *)
(* the answer that accepts the request.                                     *)
Cleared(checks) == {bit \in DOMAIN checks : ~checks[bit]}

Word(k) == (16 * k) .. (16 * k + 15)

CountChannels(mask, startIdx, stopIdx) ==
  Cardinality({c \in mask : 16 * startIdx <= c /\ c < 16 * stopIdx})

\* Faulty: one side of the range only.
SupportsUpTo(channel, dr) == dr <= channel.max

Supports(channel, dr) == ValueInRange(dr, channel.min, channel.max)

(* The age of the device picks the factor by which a join request stretches *)
(* its own time on air (BACKOFF_DC_1_HOUR and so on of RegionCommon.c).     *)
GetJoinDc(age) == CASE age = "first_hour" -> 1 [] age = "ten_hours" -> 2 [] age = "later" -> 3

(* The rate of a join attempt, by its number: the slow ones now and then.   *)
JoinRate(nbTrials) ==
  Min({5} \cup {dr \in 0 .. 4 : nbTrials % <<48, 32, 24, 16, 8>>[dr + 1] = 0})

(* A word of the mask that is empty ends the search with success.           *)
ChanVerifyDr(nbChannels, mask, dr, minDr, maxDr, channels) ==
  /\ ValueInRange(dr, minDr, maxDr)
  /\ \E k \in 0 .. (nbChannels - 1) \div 16 :
       LET word == mask \cap Word(k)
       IN  word = {} \/ \E c \in word : Supports(channels[c], dr)

\* Faulty: the last channel stays enabled.
ChanDisableButLast(mask, id, maxChannels) == IF id < maxChannels - 1 THEN mask \ {id} ELSE mask

ChanDisable(mask, id, maxChannels) == IF id < maxChannels THEN mask \ {id} ELSE mask

\* Faulty: the stamp of the join requests follows every frame only when joined.
SetBandTxDoneJoinOnly(joined, band) ==
  [band EXCEPT !.sinceJoin = 0, !.sinceTx = IF joined THEN 0 ELSE @]

SetBandTxDone(joined, band) ==
  [band EXCEPT !.sinceTx = 0, !.sinceJoin = IF joined THEN @ ELSE 0]

Elapsed(joined, dutyCycle, band) ==
  IF joined THEN band.sinceTx
  ELSE Max({band.sinceJoin, IF dutyCycle THEN band.sinceTx ELSE 0})

(* Clears the rests that are over; delay is the shortest one left.          *)
UpdateBandTimeOff(joined, dutyCycle, bands) ==
  LET free(b) == \/ joined /\ ~dutyCycle
                 \/ b.timeOff <= Elapsed(joined, dutyCycle, b)
      resting == {i \in DOMAIN bands : ~free(bands[i])}
  IN  [bands |-> [i \in DOMAIN bands |->
                    [bands[i] EXCEPT !.timeOff = IF i \in resting THEN @ ELSE 0]],
       delay |-> IF joined /\ ~dutyCycle THEN 0
                 ELSE IF resting = {} THEN NoDelay
                 ELSE Min({bands[i].timeOff - Elapsed(joined, dutyCycle, bands[i])
                             : i \in resting})]

(* The time of a symbol in microseconds; sf is the spreading factor, or 50  *)
(* for the 50 kbit/s of FSK, whose symbols are bytes; bandwidth in kHz.  A   *)
(* symbol of LoRa has 2 ^ sf chips.                                         *)
Chips(sf) == <<128, 256, 512, 1024, 2048, 4096>>[sf - 6]
SymbolTime(sf, bandwidth) == IF sf = 50 THEN 160 ELSE (Chips(sf) * 1000) \div bandwidth

Ceil(a, b) == -((-a) \div b)

\* Faulty: allows for a clock that is slow, not for one that is fast.
ComputeRxWindowOneSided(tSymbol, minRxSymbols, rxError, wakeUpTime) ==
  LET symbols == Max({Ceil((2 * minRxSymbols - 8) * tSymbol + 1000 * rxError, tSymbol),
                      minRxSymbols})
  IN  [timeout |-> symbols,
       offset  |-> Ceil((8 - symbols) * tSymbol - 2000 * wakeUpTime, 2000)]

(* The number of symbols a receive window lasts and the milliseconds by     *)
(* which it opens after (before, when negative) the delay of the protocol.  *)
ComputeRxWindowParameters(tSymbol, minRxSymbols, rxError, wakeUpTime) ==
  LET symbols == Max({Ceil((2 * minRxSymbols - 8) * tSymbol + 2000 * rxError, tSymbol),
                      minRxSymbols})
  IN  [timeout |-> symbols,
       offset  |-> Ceil((8 - symbols) * tSymbol - 2000 * wakeUpTime, 2000)]

(* Each power index is two dB below the one before; budget is the radiated  *)
(* power less the gain of the antenna.                                      *)
ComputeTxPower(txPowerIndex, budget) == (budget - 200 * txPowerIndex) \div 100

(* A block of consecutive LinkADRReq makes one mask.  Written(req) tells of  *)
(* the channels a request writes whether it enables them; the last request  *)
(* to write a channel decides, and a channel that none writes stays.        *)
MaskOfBlock(mask, reqs, Written(_)) ==
  LET writers(c) == {i \in DOMAIN reqs : c \in DOMAIN Written(reqs[i])}
      written    == UNION {DOMAIN Written(reqs[i]) : i \in DOMAIN reqs}
  IN  {c \in mask : writers(c) = {}}
        \cup {c \in written : Written(reqs[Max(writers(c))])[c]}
=============================================================================
