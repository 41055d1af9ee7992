# TLA+ models of the LoRaWAN node

This directory holds the formal models of the Linux LoRaWAN node in this
repository: a port of Semtech's LoRaMAC-node (4.4 line) with an SX1262 radio
on SPI, two I2C sensors, and a small application that joins a network and sends
readings. It contains TLA+ modules, TLC configurations that check them on small
instances, and proofs checked by TLAPS. `PROJECT.json` is the machine-readable
index (runs, mutants, map from definitions to source lines, hazards, findings,
theorems).

    tlc -workers 2 -config MCLoRaMacRequests.cfg MCLoRaMac.tla
    tlc -workers 2 -config MCChannelPlan.cfg MCChannelPlan.tla
    tlapm ConfirmQueue_proofs.tla

## 1. Inventory

Paths are relative to `src/`; `lora/` is `functional_module/lora/`.

| Component | State it keeps | Operations | Talks to |
|---|---|---|---|
| Confirm queue (`lora/loramac/LoRaMacConfirmQueue.c`) | ring of 5 slots, two pointers, a count, a common status | add, remove first/last, answer by name or all, look up, `HandleCb` | called by the MAC; calls the application's MLME confirm |
| MAC transmission procedure (`lora/loramac/LoRaMac.c`) | `LoRaMacState` bits, `LoRaMacFlags` bits, six timers, retry and repetition counters, the prepared frame, `McpsConfirm`/`MlmeConfirm` | requests, six timer callbacks, six radio callbacks, the MAC state check | application (requests, confirms, indications), region, radio, timers |
| MAC commands (same file) | command buffer, commands to repeat, sticky answers | add, process, parse for repetition | region, confirm queue |
| Downlink counter (same file) | 32-bit counters, duplicate detection | receive | - |
| Region layer (`lora/loramac/region/`): `Region.c` dispatches to ten files, which share `RegionCommon.c` | channel table, channel masks, duty-cycle bands | next channel, LinkADR and the other channel commands, ADR back-off, join data rates, masks and channels of the application, window and transmission settings, verify | called by the MAC; the radio's carrier sense |
| Radio driver (`lora/radio/radio.c`, `sx126x.c`, `sx1262-board.c`) | operating mode, IRQ flags, three time-outs | send, receive, CAD, sleep, interrupt processing | SPI, GPIO thread, MAC callbacks |
| Application layer (`lora/ESP32_sx1262_LoRaWAN.c`) | `deviceState`, `nextTx`, next-packet timer | join, send, cycle, MAC callbacks | MAC |
| Main program (`project/main/main.c`) | `deviceState` loop, configuration | loop, prepare a payload | application layer, sensors |
| Drivers (`hardware_driver/`) | bus descriptors, I2C mutex, GPIO poll thread | read, write, interrupt callback | kernel |
| Sensors, conversion, named pipe, utilities | none to speak of | straight-line I/O | I2C |
| Timer library | external: `lib/liblora_timer.a` without source | start, stop, callback | - |

Class B is compiled out: `LORAMAC_CLASSB_ENABLED` is not defined and its functions
are empty. AES, CMAC, iniparser and kconfiglib are vendored.

**Threads.** Three threads share all of this without a lock: the main thread
(requests), the timer thread (MAC timers, application timer, radio time-outs) and
the GPIO interrupt thread (radio events).

**What is hard.** Confirming exactly once, with the truth, an uplink that passes
through a duty-cycle delay, channel sensing (CAD) with its own retries, two reception
windows, an acknowledgement time-out and retransmissions, each on a timer of its
own; frames that arrive outside the expected windows; radio calls that time out;
the `LoRaMacState` word written by three threads; lookups in a ring whose removed
elements remain readable; application wake-ups overwritten by the main loop.

**What makes each component correct.**

* Confirm queue: a bounded first-in first-out list; nothing lost or confirmed
  twice; lookups agree with the contents; `HandleCb` ends.
* MAC procedure: as long as it is busy something drives it; idle means idle;
  every accepted request is confirmed once, after its windows, with a true
  result; no counter value is sent twice in a session; no more transmissions
  than allowed.
* MAC commands: the buffer never overflows; sticky answers are announced, and
  repeated until a downlink arrives. Downlink counter: it follows the network's,
  and no data is delivered twice or out of order.
* Region: a search for a channel ends; a frame goes out on an enabled channel
  that may carry its rate, after the rest its band owes, no louder than allowed;
  a hopping device treats its channels evenly; windows hear the answer.
* Radio: the whole frame is sent, every operation is reported by one callback,
  from the interrupt or from a time-out. Application: the device asks again and
  again, payloads stay in their buffer, the configured channels are enabled.

## 2. Plan

Most important behaviour first.

1. **Confirm queue** (done): `ConfirmElements`, `ConfirmQueueSpec` (abstract),
   `ConfirmQueue` (ring, refinement of the abstract list) and its proofs.
2. **MAC procedure** (done): `LoRaMac`, built on the abstract queue's operators.
3. **Downlinks and MAC commands** (done): `MacCommands`, the counter with a small
   word, the command buffers, and the network at the other end.
4. **Region** (done): the regional files as modules, and `ChannelPlan`, the part of
   the MAC that works on them, composed with `Region`.
5. **Application** (done): `AppLoop`, main loop and callbacks on two threads over
   what the MAC promises.
6. **Radio** (done): `Radio`, interrupt thread, timer thread and caller on the
   radio's mode word. A module for the mutex of the sensor bus was planned and
   dropped: every caller ends the program on an error, so that the mutex which
   a failed transfer leaves locked is never met again.
7. **Proofs** (section 6; done): every safety property and every action property that
   a passing run checks, the refinement of the confirm queue, and the contract between
   the MAC and the regional files.
8. Left: `LoRaMac` for requests made during channel sensing and class C frames at
   any time; handlers cut at the accesses to `LoRaMacState`.

None of the modules declares a RECURSIVE operator, so that each can be proved about.

## 3. Modules

### Confirm queue

`ConfirmElements` defines an element of the queue (`MlmeConfirmQueue_t`) and what
answering does to a sequence of elements; `Unanswered` is what `HandleCb` leaves of it.
`Subsequences` has the one operator (`Those`) for loops that copy some elements of a
sequence, here and in `ParseMacCommandsToRepeat`. `ConfirmQueueSpec` is the promise: a
bounded first-in first-out list with `Add`, `TakeBack`, `Answer`, `AnswerEvery`,
`Deliver`, `Keep`. `ConfirmQueue` is the code: `slot`, `BufferStart`, `BufferEnd`,
`Cnt`, `CommonStatus`, one action per function, pointers moved by
`IncreaseBufferPointer`/`DecreaseBufferPointer`, lookups that walk the ring as the
do-while loop does (so they visit a full ring, and one stale slot of an empty
one). `HandleCb` runs the application's callback before it removes the element;
it is therefore cut there (`HandleBegin`, `HandleReady`, `HandleReturn`, `HandleStore`,
`HandleEnd`), and a callback may queue a request (`Add`, then `Accept` or
`RemoveLast` as `LoRaMacMlmeRequest` does). Answers come at any moment.
`owed` is a history variable: requests accepted and not yet confirmed.

The refinement mapping to `ConfirmQueueSpec` is `Contents`: the `Cnt` slots from
`BufferStart` on, without the front element while it is being delivered.

### MAC procedure

`LoRaMac` keeps the procedure's state in one record `mac`, so that a handler can be
written as the composition of the functions it calls, in the code's order:

| Field | Code |
|---|---|
| `state`, `flags` | bits of `LoRaMacState`, `LoRaMacFlags` |
| `timers` | started MAC timers and the radio driver's time-outs |
| `radio`, `rxSlot` | operating mode (`RXC`: continuous), `RxSlot` |
| `nodeAck`, `ackRetry`, `ackMax`, `ackCnt` | `NodeAckRequested`, `AckTimeoutRetry`, `AckTimeoutRetries`, its counter |
| `nbRep`, `joinTrials`, `joinMax`, `cadCnt` | `ChannelsNbRepCounter`, `JoinRequestTrials`, `MaxJoinRequestTrials`, `g_lora_cad_cnt` |
| `mcps`, `mlmeRequest`, `common`, `queue` | `McpsConfirm`, `MlmeConfirm.MlmeRequest`, `CommonStatus`, the confirm queue |
| `frame`, `counterUsed`, `sent`, `heardAck` | history: whether the prepared frame carries a counter value already sent, transmissions of the request, an ACK heard for it |

Actions: `McpsRequest`, `Join`, `LinkCheck`, `SwitchClass` (application);
`MacStateCheck`, `TxDelayed`, `TxImmediate`, `RxWindow1`, `RxWindow2`, `AckTimeout`
(timers); `CadDone`, `TxDone`, `TxTimeout`, `RxDone`, `RxError`, `RxTimeout` (radio). A
handler is one action; `MacStateCheck` is the composition of the paragraphs of
`OnMacStateCheckTimerEvent` (`EndAbort`, `EndTimedOut`, `EndJoin`, `EndUnconfirmed`,
`EndReceived`, `Retry`, `GiveUp`, `Deliver`, `Indicate`). The order of events is free,
except that the second window's timer does not expire before the first one's,
nor the acknowledgement timer before both (their durations are nested).
`ScheduleTx` ends in one of three outcomes (channel sensing, duty-cycle delay,
refusal); a received frame is one of the kinds `OnRadioRxDone` branches on.

Assumptions about the environment are constants, so that a run states them:

* `OneRequest`: the application waits for the confirm of its uplink, and changes
  the class only while the MAC is idle.
* `ServerAcks`: a frame received for a confirmed uplink carries the ACK.
* `QuietChannel`: no frame that could be received precedes the first window, and
  in class C only the device's own data frames are heard.
* `ShortAnswers`: in class C the acknowledgement time-out finds the reception of the
  first window over, that is, downlinks take less than about two seconds. The code
  tests nothing of the kind: `OnAckTimeoutTimerEvent` runs 3 s or more after the
  transmission, and a reception that began after 1 s may last 3 s (`MaxRxWindow`).
* `TxMayTimeOut`: the radio may fail to report the end of a transmission.

Without `OneRequest`, or in class C without `QuietChannel` or `ShortAnswers`, most
properties fail: a request during channel sensing replaces the frame; a class C frame
between an uplink and its window, or the time-out while the ACK is being received, marks
the procedure done. Those interleavings are listed under "hazards" and are step 8 of
the plan. `ShortAnswers` matters in class C alone; in class A the time-out may fall into
a reception, and the runs follow it.

### Downlinks and MAC commands

`MacCommands` is the same procedure seen from the data: which frame is accepted,
what is answered, and in which uplinks the answers travel. Its `mac` holds the
variables of `LoRaMac.c` concerned (`down`, `mdown`: the two 32-bit counters; `buffer`,
`repeat`: `MacCommandsBuffer` and `MacCommandsBufferToRepeat`, as sequences of commands
that stand for their bytes; `srvAck`, `inNextTx`, `nodeAck`; the flags `done`, `ind`, `skip`,
`retry`). `phase` stands for the radio part: idle, listening, or not listening any
more. `net` and `air` are external: a network that counts its frames, and an air
that keeps every frame and may deliver it at any time, any number of times, or
never. A frame carries its whole counter and the device sees its low half; it is
authentic if the device rebuilds the same counter (the MIC covers it).

| Action or operator | Code |
|---|---|
| `Receive` (`RxUnicast`, `RxMulticast`, `Accept`), `Foreign` | `OnRadioRxDone`, `PrepareRxDoneAbort` |
| `AddMacCommand`, `ProcessMacCommands`, `ParseMacCommandsToRepeat` | the functions of these names |
| `McpsRequest`, `PrepareFrame`, `MlmeRequest` | request and frame preparation; `refused`: `ScheduleTx` returned an error |
| `EndUnconfirmed`, `EndConfirmed`, `EndIdle`, `PeriodicCheck` | paragraphs of `OnMacStateCheckTimerEvent` |
| `NothingHeard` | windows and acknowledgement time-out pass |

`owed` (sticky answers sent since the last downlink), `given` (counter of the last
data given to the application) and `told` (since its last uplink the application had an
MLME_SCHEDULE_UPLINK or the error of a refused request) are history.

### Region layer and channel choice

The ten regional files are one text with other constants. `RegionCommon` is
`RegionCommon.c`; `PlanCommon` holds what all ten share, `DynamicPlan` what the six
regions with an editable channel table share (EU868, EU433, CN779, IN865, KR920,
AS923), `FixedTable` what the four without share: of these `FixedPlan` is the three hopping
ones (US915, its hybrid form, AU915), `FlatPlan` CN470. Each `RegionXX` instantiates its
plan with the header's constants and defines the functions in which its file differs.
`Region` is `Region.c`: it dispatches by the active region. The static variables of a file
(`Channels`, `ChannelsMask`, `ChannelsDefaultMask`, `ChannelsMaskRemaining`, `Bands`) are
one record `g` which every operator takes and returns. At the end of a plan module stands
what it expects of a header (`Header`, a conjunction of `Tables`, `DataRates`, `Defaults`
and `Functions`).

The MAC knows the regional layer by `Region.h` alone. `RegionInterface` declares its functions
as constant operators, and `RegionContract` states what the MAC relies on (`Contract`), clause by
clause: a search finds a channel that is enabled, carries the rate and has rested; a command or a
setting leaves the table sound and the rests alone; a power stays within the region;
a window is computed for the rate it listens at. `ChannelPlan` is built on these
constants, and `MCChannelPlan.cfg` gives them the functions of `Region`. `Draws` is the set of
channels that `randr` may pick from the usable ones.

`ChannelPlan` is `LoRaMac.c` at work on them: requests, `ScheduleTx` with one step
(`Search`) for each turn of its loop, channel sensing, transmission, duty-cycle
delay, both windows, join-accept, the channel commands of `ProcessMacCommands`, the
retries of `OnMacStateCheckTimerEvent` and the settings of `LoRaMacMibSetRequestConfirm`.
`quiet` (rests to be kept) and `round` (channels used in this round of hops) are history
and are computed without the code's own bookkeeping. `quiet.bands` has what the duty cycle
of each band imposes; for join requests there are two accounts, `quiet.factor` with the
factors that `RegionCommon.c` defines (1, 2, 3) and `quiet.join` with the duty cycles that
`LoRaMac.c` documents (1/100, 1/1000, 1/10000).

`LoRaMac`, `MacCommands` and `ChannelPlan` are three views of one procedure, with the
handlers' names in common: `LoRaMac` has every timer and event and abstracts frames
and channels; the others have one phase variable for the timers.

### Application and main program

`AppLoop` has the main thread and the timer thread on `deviceState` and `nextTx`. The
main thread reads `deviceState` at the top of `loop()` and writes it at the end of the
case, so both are steps (`Enter`, `WriteState`), and callbacks fall between them;
likewise `send()` and the assignment of its result (`WriteNextTx`), and a callback and
its last statement (`SetNextTx`). The MAC is what its confirms promise: it may
refuse a request, ends a join, and may never end an uplink. `read_hannel` builds
the channel mask of the configured range; `Frames` is `prepareTxFrame` with the sizes
that each source of data leads to. `missed` notes that SLEEP overwrote a callback's
SEND.

### Radio driver

`Radio` has the thread that starts an operation (`Configure`, `Command`, `Arm`: settings,
command to the chip, `TimerStart`), the GPIO thread (`RadioOnDioIrq`, `GetIrqStatus`,
`ClearIrqStatus`, and one action for each branch of `RadioIrqProcess`) and the timer
thread (three time-outs), on `OperatingMode` and the chip. The chip is external: it
may answer or not, sleeps when told to, and loses a command while it sleeps unless
the driver wakes it up. `edge` is the pending edge of DIO1. `owed`, `surplus` and `raced`
are history: the operation not yet reported, a report of nothing started, and
whether two threads met on one operation.

## 4. Runs

| Run | Shows | States |
|---|---|---|
| `confirm_queue` | type, `RingConsistent`, `NothingLost`, `LookupsFindOldest`, `HandleTerminates`, refinement `ImplementsPromise` | 85 thousand |
| `mac_requests` | class A with joins, both uplinks, link checks, every kind of frame and transmission time-outs: `ProcedureIsDriven`, `IdleIsQuiet`, `ConfirmedAfterWindows`, `JoinIsReported`, `TransmissionNotCut`, `JoinConfirmed` | 13 thousand |
| `mac_uplinks` | classes A and C, joins and uplinks: `ProcedureIsDriven`, `TransmissionsBounded`, `CounterNotReused`, `AckIsReported`, `UplinkConfirmed` | 2 thousand |
| `mac_no_ack` (violation) | class A, a downlink without ACK for a confirmed uplink: the procedure never completes | - |
| `mac_link_check` (violation) | an uplink with a pending link check is taken for a join; a counter value is sent twice | - |
| `mac_tx_timeout` (violation) | an unconfirmed repetition that times out leaves its counter uncounted | - |
| `channel_plan` | ten regions, joins and uplinks under settings, commands, ADR back-off and missing answers: `SentWhereAllowed`, `TimeOffRespected`, `WindowHearsPreamble`, `PowerLegal`, `SearchEnds`, `NoChannelFavoured` | 476 thousand |
| `channel_plan_join` (violation) | in US915 join requests follow each other without the documented back-off: `JoinBackOffKept` | - |
| `mac_commands` | classes A and C, frames lost, repeated and reordered: `BufferHolds`, `AnswersAnnounced`, `StickyRepeated`, `CounterFollowsNetwork`, `DeliveredOnceInOrder` | 1.09 million |
| `mac_sticky_once` (violation) | after a window that heard a foreign frame, an uplink carries a sticky answer twice | - |
| `app_loop` | two threads on the application's state: `ChannelsAsConfigured`, `PayloadInBounds`, `KeepsSending`, `NextTxRecovers` | 46 thousand |
| `radio` | three threads on the driver, a chip that may not answer: `PayloadWhole`, `ReportsBelong`, `OperationsReported` | 572 thousand |

What the properties say is written above each of them in the modules. Every
property of a passing run has a mutant: a one-definition change of the model, the
kind of slip the code could contain (a missing wrap, a missing bit, an
off-by-one), which makes TLC report that very property. The mutated forms are
the definitions marked "Faulty".

**Bounds.** The ring has 3 slots and 2 kinds of request, one of them restricted:
enough for a full, an empty and a wrapped ring, two elements of one kind, and an
element stored again behind another. The MAC runs use at most 3 trials of a confirmed uplink, 2 join
trials, 2 repetitions of an unconfirmed uplink, 2 or 3 sensing attempts and a
queue of 2: each counter has a first, a middle or a last value, and
the procedure only compares them with their limits. `SentCap` (4) bounds the history of transmissions above
every limit; `nbRep` saturates at its limit, where the code compares with `>=`.
`MAX_ACK_RETRIES`, 8 in the code, is never below the trials asked for except in `mac_requests`,
where it is 1.

* `channel_plan`: per region and behaviour one edit of the plan (a command or a
  setting: `MAX_EDITS`) and three requests; commands come in the first window,
  settings while the device is idle or waits; between two frames one wait, long or
  short; clocks stop at `FOREVER`, which no rest exceeds; of the join attempts
  the first and the last are followed; `AdrAckCounter` may jump to 97, beyond the
  limit of the first back-off step; class A; the carrier sense and the random pick among the
  usable channels return the lowest or the highest one; a frame takes one unit of time on
  air. `channel_plan_join` has US915 alone and follows the second join attempt; that windows take
  no time in the model does not matter there, because they last some 7 s where 37 are owed. Each region's commands are chosen to reach the branches of its file. The first window's
  offset 6 of AU915 is not enumerated, nor a rejoin of a joined device.
* `mac_commands`: a half word of 8 values and a gap of 3, sessions from 0 and from just below an
  overflow of the lower half; buffers of 8 and options of 4 bytes, which two to four commands
  fill; two uplinks of two trials, three downlinks in class A and two in class C, one request,
  one foreign frame. Of each kind of frame and command there is one.
* `app_loop`: what `read` returns is an error, nothing, one byte, sixteen bytes or a full
  buffer, with texts as long; ranges of channels inside a word, over a border,
  up to a border, and in the wrong order.
* `radio`: frames of 253 and 254 bytes, below and above the wrap of the transfer's
  length. The state is finite without other bounds.

`app_loop` does not check deadlock, since the program may exit; nor does
`mac_commands`, because of finding 2, nor `radio`: a continuous wave
whose timer a stray reception stopped waits for ever.

**Fairness.** Weak fairness of each timer callback and of each radio operation: a
started timer expires unless it is stopped, and the radio ends a transmission, a
channel sensing and a timed reception (its driver has a time-out for each).
Strong fairness of `TxDelayed("CAD")`: the duty cycle of a channel does not deny
it for ever. No fairness of requests or received frames. In the confirm queue,
`HandleCb` is a loop on one thread, and callbacks return.

In `ChannelPlan` the loop of `ScheduleTx` goes on, and a region that listens before
it talks finds a channel free again and again (written as `[]<>` formulas over the
one action of the phase, `FairSpec`). In `AppLoop` both threads run on, a started timer expires and
a join ends; an uplink need not end, and the network need not send. In `Radio` the
starting thread, the three time-outs and the report of a reception that was read
run on; the chip need not answer and the GPIO thread need not see an edge.

## 5. Findings

1. `LoRaMac.c:64-77` documents the duty cycle of the back-off between join requests as
   1/100 in the first hour, then 1/1000 and 1/10000, and nothing uses those numbers.
   `RegionCommon.c:36-38` defines the factors in use as 1, 2, 3. The rest is the time
   on air times the factor less the time on air: a device joins without any rest in its first
   hour (`channel_plan_join`; a region whose bands have a duty cycle still keeps that).
2. `OnRadioRxDone` states that the procedure is completed when the acknowledgement
   timer is not running (`LoRaMac.c:1224`); in class A the time-out itself never
   marks it done. A downlink without ACK during a confirmed uplink leaves the MAC
   in TX_RUNNING for ever.
3. The test for a join (`LoRaMac.c:1486`, `1700`) uses the kind of the last delivered
   confirm. A link check requested after the join makes the next uplink look like
   a join: the counter is not incremented, or is reset with the keys unchanged.
4. The branch for a transmission time-out (`LoRaMac.c:1463`) ends the uplink
   without counting it, also if a repetition had been transmitted before.
5. `OnRadioRxDone` leaves resetting the command buffer in error cases to
   `OnMacStateCheckTimerEvent` (`LoRaMac.c:1115`), which does not do it when a window
   ended with a refused frame (`LoRaMac.c:1511`): the next uplink carries a
   sticky answer twice.

Behaviour met while modelling that no text of the repository contradicts, and
which properties therefore leave out by a condition of their own:

* `LoRaMacConfirmQueueIsCmdActive` does not test the count (`LoRaMacConfirmQueue.c:232-239`):
  on an empty queue it looks at one slot and can find a removed element. `OnRadioRxDone` asks it for
  a pending join (`LoRaMac.c:908`); in class A no window is open for a join accept
  while the queue is empty, so `LoRaMac` may write `IsQueued` there (`LookupsFindOldest`).
* A device of AU915 that joins and has to rest, which is the case from its second hour on, finds
  no channel, is told to wait for zero milliseconds and sends at once on the channel of the previous
  frame (`TimeOffRespected`). The request that follows would go out at DR_6 on that narrow channel,
  which `SentWhereAllowed` leaves out as well.
* In class C the acknowledgement time-out may fall into the reception of the answer, and marks the
  procedure done (`ShortAnswers`; section 3).
* LinkADR may disable every channel of a hopping region, after which `ScheduleTx` searches for
  ever (`SearchEnds`).
* Frames of 254 and 255 bytes wrap the transfer length and are not written
  (`PayloadWhole`). A payload of 242 bytes, which several data rates allow, makes a frame of 255;
  the application's own buffer of 128 bytes keeps frames short.
* A repeated frame with counter 0 is delivered again (`DeliveredOnceInOrder`).
* `DlChannelAns` may exceed the command buffer by a byte, also when it is repeated, and the
  device time request ignores the commands to repeat (`BufferHolds`).
* When `ScheduleTx` refuses an uplink, its sticky answers have already moved to the commands to
  repeat and no MLME_SCHEDULE_UPLINK is issued for them: only the error returned tells the
  application that it has to send again (`AnswersAnnounced`, `told`). The attempt to prove
  `AnswersAnnounced` without the error showed this; the run reaches the case.
* A wake-up is lost when the main loop writes SLEEP over it (`KeepsSending`, `NextTxRecovers`). A
  call of `send()` with `nextTx` false requests nothing, and `KeepsSending` does not count it.

## 6. Proofs

Eight modules hold proofs. They hold for every value of the constants that satisfies
the named assumptions, where the runs of section 4 check one small instance.

| Module | Theorem | What is proved |
|---|---|---|
| `ConfirmQueue_proofs` | `RingAlwaysConsistent`, `TypesKept` | pointers, count and loop describe one segment of the ring |
| | `LookupsAlwaysRight` | lookups find the oldest element of a request, and only while one is stored |
| | `RingImplementsList` | the ring implements the list of `ConfirmQueueSpec` |
| | `NoRequestLost` | every accepted request is confirmed once or still pending |
| `AppLoop_proofs` | `TypesKept`, `ChannelsEnabled`, `FramesInBuffer` | the configured channels and no others are enabled; frames lie in `appData` |
| `LoRaMac_proofs` | `TypesKept`, `IdleMeansQuiet`, `AlwaysDriven` | types and limits; idle means idle; a busy MAC is driven by a timer or the radio |
| | `JoinsReported`, `TransmissionsWhole`, `ConfirmsAwaitWindows` | joins are reported truly; no transmission is cut; uplinks are confirmed after their windows |
| | `TrialsKept`, `CountersFresh`, `AcksReported` | no more transmissions than allowed; no counter twice; confirms tell the truth about the ACK |
| `MacCommands_proofs` | `TypesKept`, `BuffersHold`, `AnswersAlwaysAnnounced`, `StickyAlwaysRepeated` | answers fit their buffer, are announced and repeated |
| | `CountersFollow`, `DeliveredOnce` | the counter follows the network's; data arrives once and in order |
| `ChannelPlan_proofs` | `TableStaysTyped`, `FramesSentWhereAllowed`, `RestsAreKept` | the table stays sound; frames go out on an enabled channel that carries their rate and whose band has rested |
| | `WindowsHear`, `PowerStaysLegal`, `NoChannelIsFavoured` | windows hear the preamble; no frame is louder than allowed; hops are even |
| `DynamicPlan_proofs` | `DynamicPlansKeepContract` | the files with an editable table keep the contract, whatever their header |
| `Region_proofs` | `HoppingPlansKeepContract`, `FlatPlanKeepsContract` | so do those of the hopping regions and of CN470 |
| | `DynamicHeadersFit`, `FixedHeadersFit` | the headers of the ten regions are what these proofs ask of them |
| `Radio_proofs` | `TypesKept`, `FramesSentWhole`, `NoSurplusReport` | a frame of up to 253 bytes is on the air whole; no operation is reported twice |

**The ring** (any length above zero, any requests and statuses; `QueueLenAssumption`,
`StatusAssumption`, `RequestAssumption`, `ZeroAssumption`). Neither conjunct of
`TypeOK /\ RingConsistent` is inductive alone: that `BufferEnd` stays in the array
needs the relation between the pointers and the count, and that the count stays in
range when `HandleReturn` or `RemoveLast` decrements it needs the bound of the loop
(`left <= Cnt`, and a request under way lies beyond it). `IInv` is their
conjunction. `PointerSteps` is the arithmetic of the ring, `ElementTypes` the typing
of elements; `StepPreserves` has one step per action.

**The ring as a list.** What the queue holds is always a segment of the ring
(`ContentsIsSegment`): from `BufferStart`, or from the slot after it while the
callback runs. `SegmentPushed`, `SegmentShortened` and `SegmentAdvanced` say what
writing the slot after a segment, shortening it and starting it one slot later are as
operations on its sequence (`Append`, `SubSeq`, `Tail`); from them follows one lemma
per operation (`AddAppends` to `StoreMovesHeadBack`) and the step simulation
`StepImplements`. `HandleReturn` and the bookkeeping steps stutter, and so does an
answer by name that hits the element being delivered. `VisitedSlots` is the full-ring
case: with at least one element the `do ... while` between equal pointers visits
exactly the elements. That a request which is stored has an oldest element
(`OldestExists`) rests on the well-foundedness of finite sets in the library.

**No loss.** `NothingLost` needs one fact more, `YoungestIsRequested`: what
`RemoveLast` takes back is the request being made. Counting elements goes through
`CountAppend`, `CountDropLast` and `CountTail`.

**The application.** The assumptions are what the configuration must satisfy and the
code does not test: the ends of a range lie below 96 (`RangeAssumption`), the fixed
frame fits `appData` (`SizeAssumption`). What the pipe returns is any integer, the
error -1 included. The arithmetic of `read_hannel` is `WordsOfTheMask` and
`BitsOfTheMask`; `MaskIsRange` puts the words together.

**The radio** (frames of 0 to 255 bytes, `SizeAssumption`). `Loaded`: the bytes
written are a function of the length the chip holds, so a frame is whole
whatever was interrupted before. `InOrder`: as long as no two threads have met
(`raced`), timers, interrupt flags and the handler's copy of them all belong to the
operation that is owed a report; this is what makes `ReportsBelong` inductive, with
one lemma per stretch of a thread.

**The MAC procedure** (any numbers of trials, repetitions, sensing attempts and
queue elements). The code keeps its place in the procedure in no variable of its own: it
is spread over `LoRaMacState`, the flags, the timers that run and the radio. None of the
properties is inductive, since each handler relies on being called at the right place.
`IInv` is `Sound(mac)`, of six parts:

* `Phase`: the MAC is in one of the places `Idle`, `Sensing`, `Delayed`, `Imminent`, `OnAir`,
  `Listening`, `Over`, each of which says which state bits, timers and radio mode belong
  together; `MacDone` is set only in the last.
* `Acks`: the counter of trials, and when a retry may be ordered or an ACK have been heard.
* `Uplink`, `Joins`: for what the MAC is busy; a join request is alone in the queue, and
  its element tells whether it was accepted.
* `Queue`: when the state check runs, every element has its answer.

Handlers are compositions of operators on `mac`. One lemma per operator says which fields
it keeps (`Kept`) and what it makes of the others; one lemma per handler cites those; and
`StepKeeps` has one step per action. The theorems assume `OrderlyUse`: the application
waits for its confirms (`OneRequest`), and if class C is used, the channel is quiet
(`QuietChannel`) and no reception of the first window lasts until the acknowledgement time-out
(`ShortAnswers`): what is proved of class C is proved of short downlinks only. Section 3
says what happens otherwise. Both passing runs of `LoRaMac` satisfy it.
`AlwaysDriven` also assumes `ServerAcks`; without it `mac_no_ack` shows the MAC
stuck.

A second part of `LoRaMac_proofs` adds `Counted`: `Alone` (nothing but a join in the queue),
`Tried` (transmissions so far against `ackCnt` and `nbRep`, place by place, with the one a
radio time-out leaves uncounted), `Heeded` (what the confirm knows of the ACK) and `Fresh`
(the counter of the prepared frame). These theorems assume that the application requests
joins only (`OnlyJoins`), as the one in this repository does, and `CountersFresh` also that
the radio reports its transmissions (`~TxMayTimeOut`). The runs `mac_link_check` and
`mac_tx_timeout` violate `CounterNotReused` when one of the two is dropped.
`TrialsKept` and `AcksReported` allow radio time-outs, which the run `mac_uplinks` does not
have.

**MAC commands** (any buffer lengths, trials, repetitions, contents of frames and numbers of
messages). The commands of a frame are processed by a function on sequences; what the proofs
need of it is an invariant of its steps (`CommandsProcessed`), not its value. Three inductive
invariants rest on the same lemmas (`CommandAdded`, `CommandsProcessed`, `FrameHandled`,
`FramePrepared`):

* `IInv` for types, announcements and repetition: what is repeated is sticky, nothing sticky is kept
  unless the next uplink carries it (`Kept`), what is owed is among the commands to
  repeat, and answers not sent yet have been announced, or will be when the procedure ends
  (`Announced`). Theorems from it have no hypotheses but the assumptions on the constants.
* `RInv` for the buffers: the bytes of the commands whose room was asked for, with those
  to repeat, fit the buffer (`Room`). A refused uplink moves them from one buffer to the
  other, so the sum is what is kept, and `ParseMacCommandsToRepeat` only drops commands
  (`Subsequences`). `BuffersHold` assumes that the network sends no DlChannelReq
  (`NoDlChannel`), because its answer is repeated although a byte of it was not asked for.
  The class A frames of the run contain that command.
* `NInv` for the counters: those of the network, its frames in the air, the device and the
  application are in this order (`Ahead`, `Followed`, `Pended`). `CountersAgree` is the
  arithmetic: a counter rebuilt from the lower half is authentic exactly for frames
  less than the gap ahead. The theorems assume `ShortSessions`: the network does
  not send as many frames as would exhaust the 32-bit counter. The run satisfies it.

**Channels, rests and windows** (any regions that keep the contract, any commands, settings,
numbers of requests and durations that satisfy the assumptions of `ChannelPlan`). The rests that
the code computes and those that regulations impose are two accounts of one thing, kept apart in
the model: `quiet` is charged when a frame ends, `timeOff` only when `ScheduleTx` runs the next
time, from clocks that may by then have run on. `IInv` relates them:

* `Quiet`: what is still imposed on a band, with the time since its last frame, is at most what
  its duty cycle asks of a frame, and before the join what the code's factor for the device's age
  asks (1, 2 or 3; the documented duty cycle is not kept).
* `Covered`: the rest in the code's table covers the imposed one. Before a search it does so
  for every band but the one used last (`OthersCovered`), within a search for all
  (`AllCovered`); `UpdateBandTimeOff` may clear a rest only when the clock has passed it. The
  aggregated duty cycle is charged on top and never in place of a band's rest.
* `WellFormed`, `Unjoined`, `Hops`: the table is sound, a device that has not joined uses join channels
  (all in one band, whose rest is therefore the one to wait for), and the channels used in this
  round of hops are those missing from the remaining ones.
* the windows and the power of the frame under way are those computed for it.

Each handler leaves a plan, a state of the MAC and a phase (`Leave`). What it leaves is a lemma
per handler, and `LeaveKeeps` carries all of them to `IInv'`, so that the argument about rests is made once.
`PowerLegal` measures US915 and its hybrid form against the 30 dBm of their files, the others
against the EIRP the region starts with (`Radiated`).
`TimeOffRespected`, `SentWhereAllowed` leave out a device of AU915 that joins (section 5).

**The contract** is the hypothesis `RegionsKeepContract` of those theorems. It is proved
of the plan modules, for any headers that satisfy `Header` and any `randr` that picks one of the
channels it is given (`RandrPicks`); that the headers of all ten regions satisfy it is proved
from their tables. The hypotheses `Served`, `HopServed` and `FlatServed` say that the functions of a region are those
of its plan module: this is how `RegionXX` and `Region` define them, by forwarding, and is not proved
again. Of the functions in which AS923 and IN865 differ (the rate of a join request, that of
the first window) the proofs ask only what the clauses name. What they rest on:

* LinkADR, a join attempt and the fall-back of ADR change the mask of a hopping region in three
  ways. The round of hops survives a join attempt only if that disables no channel (`Kept`),
  which the hybrid form owes to its other two ways: every mask they install fits in the one its
  join attempt would choose.
* The removal of a channel must leave the join channels where they are, or `Unjoined` fails;
  so must a channel list from the network (`JOIN_CHANNELS` is part of `Header`).
* A block of LinkADR requests is a fold over the requests (`MaskOfBlock`). The theorems need only
  that its value is a mask of the table's channels, which is an invariant of the fold.

Only model-checked: every liveness property (`HandleTerminates`, `JoinConfirmed`,
`UplinkConfirmed`, `SearchEnds`, `KeepsSending`, `NextTxRecovers`, `OperationsReported`):
fairness and ENABLED are out of the prover's reach. The loops of a `ScheduleTx` that searches
again are in `ChannelPlan` steps of their own, so the theorems cover each turn, and `SearchEnds`
that there is a last one. The findings of section 5 are counterexamples of runs.

## 7. Not modelled

* Class B: compiled out. Cryptography: a received frame either passes its checks
  or does not. The contents of frames beyond their commands.
* Time: in `LoRaMac` only the order of events, in `ChannelPlan` the rests in units of
  a frame, in `RegionCommon` the windows to the microsecond. The computation of the time on air is a
  constant of one unit.
* The attributes of the MIB other than the channel masks and the second window, the query of the
  possible payload, linking of multicast channels, the test modes (second form of the
  continuous wave, disabled reception windows, fixed counter).
* Modem and register settings of the radio, its initialization and random numbers; the
  logic of `sysfs` and `ioctl` calls.
* Numbers of the sensors; the vendored ini parser and Kconfig front end; byte copies and the
  unused byte FIFO of the utilities.
* The timer library has no source: a started timer is a callback that runs at some later
  moment unless it is stopped.
* Handlers are atomic in `LoRaMac`, `MacCommands` and `ChannelPlan`: races on the
  shared `LoRaMacState` word inside a handler, and settings that change the channel between its
  choice and its use, are not covered (hazards without a property in
  `PROJECT.json`). `Radio` and `AppLoop` have the threads' steps apart.
* Range ends of 96 and more in the configuration, which write beyond `userChannelsMask`, and
  the arithmetic of the sending period.
