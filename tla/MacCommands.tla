---------------------------- MODULE MacCommands ----------------------------
(***************************************************************************)
(* Downlinks and MAC commands of a device that has joined: which frames it  *)
(* accepts, what it answers, and in which uplinks the answers travel        *)
(* (OnRadioRxDone, AddMacCommand, ProcessMacCommands, PrepareFrame and the  *)
(* end of a procedure in OnMacStateCheckTimerEvent).  The network may send  *)
(* at any time; the air loses, delays, repeats and reorders its frames, and *)
(* carries frames that are none of this device's.                           *)
(*                                                                          *)
(* A frame is authentic when its MIC fits the 32 bit counter that the       *)
(* device rebuilds: the model keeps the whole counter in the frame, and the *)
(* device sees it modulo 2^16, here FCNT_MOD.                               *)
(***************************************************************************)
EXTENDS Integers, Sequences, FiniteSets, Subsequences, SequencesExt

CONSTANTS
  Classes,          \* of the devices looked at (LoRaMacDeviceClass), "A" or "C"
  FCNT_MOD,         \* 2^16
  MAX_FCNT_GAP,     \* of the region
  LORA_MAC_COMMAND_MAX_LENGTH, LORA_MAC_COMMAND_MAX_FOPTS_LENGTH,
  NbTrials,         \* of a confirmed uplink
  NbRep,            \* of an unconfirmed one (ChannelsNbRep)
  TxParamSupported, \* the region has a TxParamSetupReq
  Contents(_),      \* what the network may put into a frame for the device
  Starts(_),        \* downlink counters a session is looked at from
  Requests,         \* the requests of the application that are commands
  Refusals,         \* whether ScheduleTx may refuse a frame: BOOLEAN or {FALSE}
  MAX_DOWNLINKS(_), MAX_UPLINKS, MAX_REQUESTS, MAX_FOREIGN  \* bounds

ASSUME FcntAssumption == FCNT_MOD \in Nat /\ MAX_FCNT_GAP \in 1 .. FCNT_MOD \div 2
ASSUME TrialsAssumption == NbTrials \in Nat \ {0} /\ NbRep \in Nat \ {0}
ASSUME LengthAssumption ==
  /\ LORA_MAC_COMMAND_MAX_LENGTH \in Nat \ {0} /\ LORA_MAC_COMMAND_MAX_FOPTS_LENGTH \in Nat
  /\ 2 * LORA_MAC_COMMAND_MAX_FOPTS_LENGTH <= LORA_MAC_COMMAND_MAX_LENGTH
ASSUME RequestAssumption ==
  Requests \subseteq {"LINK_CHECK_REQ", "DEVICE_TIME_REQ"} /\ Refusals \subseteq BOOLEAN
ASSUME NetworkAssumption ==
  /\ Classes \subseteq {"A", "C"}
  /\ \A class \in Classes :
       /\ Contents(class) \subseteq
            [to : {"unicast", "multicast"}, type : {"CONFIRMED", "UNCONFIRMED"}, ack : BOOLEAN,
             fopts : Seq(STRING), port : {"zero", "app", "none"}, payload : Seq(STRING)]
       /\ Starts(class) \subseteq Nat /\ MAX_DOWNLINKS(class) \in Nat

VARIABLES
  mac,              \* the variables of LoRaMac.c
  phase,            \* "idle", listening ("window") or not any more ("closed")
  sent,             \* the uplink in LoRaMacBuffer
  net,              \* the network: its counters
  air,              \* its frames, any of which may arrive, again and again
  owed,             \* history: sticky answers sent since the last downlink
  given,            \* history: the last counter given to the application
  count             \* bounds
vars == <<mac, phase, sent, net, air, owed, given, count>>

-----------------------------------------------------------------------------
(* The buffers of commands: a sequence of commands stands for its bytes.    *)

Sizes ==
  [LINK_CHECK_REQ |-> 1, DEVICE_TIME_REQ |-> 1, LINK_ADR_ANS |-> 2, DUTY_CYCLE_ANS |-> 1,
   RX_PARAM_SETUP_ANS |-> 2, DEV_STATUS_ANS |-> 3, NEW_CHANNEL_ANS |-> 2,
   RX_TIMING_SETUP_ANS |-> 1, TX_PARAM_SETUP_ANS |-> 1, DL_CHANNEL_ANS |-> 2,
   PING_SLOT_FREQ_ANS |-> 2, BEACON_FREQ_ANS |-> 2]

\* A byte is a command and a place in it; no command has more than three.
Bytes(commands) ==
  Cardinality({b \in (DOMAIN commands) \X (1 .. 3) : b[2] <= Sizes[commands[b[1]].cmd]})

(* Commands for which AddMacCommand asks for less room than they take, or   *)
(* that it adds without regard to the commands to repeat.                   *)
Careless == {"DL_CHANNEL_ANS", "DEVICE_TIME_REQ", "PING_SLOT_FREQ_ANS", "BEACON_FREQ_ANS"}

Sticky == {"RX_PARAM_SETUP_ANS", "RX_TIMING_SETUP_ANS", "DL_CHANNEL_ANS"}

(* The room AddMacCommand sees: bufLen is a uint8_t.                        *)
BufLen(m, cmd) ==
  IF cmd \in Careless \ {"DL_CHANNEL_ANS"} THEN LORA_MAC_COMMAND_MAX_LENGTH
  ELSE (LORA_MAC_COMMAND_MAX_LENGTH - Bytes(m.repeat)) % (2 * LORA_MAC_COMMAND_MAX_LENGTH)

\* Faulty: asks for the room of one byte, whatever the command.
FitsOneByte(m, cmd) == Bytes(m.buffer) < BufLen(m, cmd)

Fits(m, cmd) ==
  Bytes(m.buffer) < BufLen(m, cmd) - (IF cmd \in Careless THEN 0 ELSE Sizes[cmd] - 1)

(* SetMlmeScheduleUplinkIndication tells the application to send.           *)
AddMacCommand(m, cmd, request) ==
  LET urgent == \/ cmd \in Sticky \cup {"DEV_STATUS_ANS", "PING_SLOT_FREQ_ANS", "BEACON_FREQ_ANS"}
                \/ m.srvAck
  IN  IF ~Fits(m, cmd) THEN m
      ELSE [m EXCEPT !.buffer = Append(@, [cmd |-> cmd, request |-> request]),
                     !.inNextTx = TRUE, !.mlmeInd = @ \/ urgent]

\* Faulty: knows of no sticky answer without a payload.
CommandsWithPayload(commands) ==
  Those(commands, {i \in DOMAIN commands : commands[i].cmd \in Sticky \ {"RX_TIMING_SETUP_ANS"}})

ParseMacCommandsToRepeat(commands) ==
  Those(commands, {i \in DOMAIN commands : commands[i].cmd \in Sticky})

-----------------------------------------------------------------------------
(* ProcessMacCommands.                                                      *)

Answers ==
  [LINK_ADR_REQ |-> "LINK_ADR_ANS", DUTY_CYCLE_REQ |-> "DUTY_CYCLE_ANS",
   RX_PARAM_SETUP_REQ |-> "RX_PARAM_SETUP_ANS", DEV_STATUS_REQ |-> "DEV_STATUS_ANS",
   NEW_CHANNEL_REQ |-> "NEW_CHANNEL_ANS", RX_TIMING_SETUP_REQ |-> "RX_TIMING_SETUP_ANS",
   DL_CHANNEL_REQ |-> "DL_CHANNEL_ANS", PING_SLOT_CHANNEL_REQ |-> "PING_SLOT_FREQ_ANS",
   BEACON_FREQ_REQ |-> "BEACON_FREQ_ANS"]
Silent == {"DEVICE_TIME_ANS", "PING_SLOT_INFO_ANS", "BEACON_TIMING_ANS"}

(* Commands after an unknown one are not looked at.  An answer to a link    *)
(* check concerns the confirm queue only and is left to module LoRaMac.     *)
Stops(cmd) == cmd \notin DOMAIN Answers \cup Silent \cup {"TX_PARAM_SETUP_REQ"}

ProcessOne(m, cmd, request) ==
  CASE cmd \in DOMAIN Answers -> AddMacCommand(m, Answers[cmd], request)
    [] cmd = "TX_PARAM_SETUP_REQ" ->
         IF TxParamSupported THEN AddMacCommand(m, "TX_PARAM_SETUP_ANS", request) ELSE m
    [] OTHER -> m

ProcessMacCommands(m, commands, fcnt) ==
  LET known == {i \in 1 .. Len(commands) : \A j \in 1 .. i : ~Stops(commands[j])}
      after[i \in 0 .. Cardinality(known)] ==
        IF i = 0 THEN m ELSE ProcessOne(after[i - 1], commands[i], <<fcnt, i>>)
  IN  after[Cardinality(known)]

-----------------------------------------------------------------------------
(* OnRadioRxDone.                                                           *)

\* Faulty: the counter has more than 32 bits.
UnsignedWide(counter) == counter

Unsigned(counter) == counter % (FCNT_MOD * FCNT_MOD)

(* The counter rebuilt from the bits in the frame: a difference of half the *)
(* range or more is a frame of the past, or of the next round.              *)
Difference(counter, fcnt) == (fcnt - counter) % FCNT_MOD
Rebuilt(counter, fcnt) ==
  LET diff == Difference(counter, fcnt)
  IN  IF diff < FCNT_MOD \div 2 THEN Unsigned(counter + diff)
      ELSE Unsigned(counter + FCNT_MOD + (diff - FCNT_MOD))

\* Faulty: the bits of the counter are compared without their overflow.
AuthenticInRound(counter, fcnt) ==
  /\ (fcnt % FCNT_MOD) - (counter % FCNT_MOD) \in 0 .. MAX_FCNT_GAP - 1
  /\ Rebuilt(counter, fcnt) = fcnt

Authentic(counter, fcnt) ==
  Difference(counter, fcnt) < MAX_FCNT_GAP /\ Rebuilt(counter, fcnt) = fcnt

\* Faulty: a frame that comes twice is new.
RepeatedNever(counter, fcnt) == FALSE

(* A counter of 0 never counts as repeated.                                 *)
Repeated(counter, fcnt) == counter = fcnt /\ counter # 0

(* PrepareRxDoneAbort: the frame is reported, as an error.                  *)
PrepareRxDoneAbort(m) ==
  [m EXCEPT !.ind = TRUE, !.done = TRUE, !.ok = FALSE, !.retry = @ \/ m.nodeAck]

(* CheckToDisableAckTimeout: a confirmed uplink waits on for its answer.    *)
FinishRxDone(m) == IF m.nodeAck /\ ~m.ackReceived THEN m ELSE [m EXCEPT !.done = TRUE]

(* What OnRadioRxDone resets before it looks at a frame.                    *)
Reset(m) == [m EXCEPT !.ackReceived = FALSE, !.ok = TRUE, !.data = FALSE]
Fresh(m, f) == [Reset(m) EXCEPT !.from = f.to, !.fcnt = f.fcnt]

(* An accepted frame is an answer: it ends the repetition of commands, and  *)
(* unless the uplink still waits for its acknowledgement, their sending.    *)
Accept(m, f) ==
  LET m1 == [m EXCEPT
               !.buffer = IF m.type = "CONFIRMED" /\ ~f.ack THEN @ ELSE <<>>,
               !.ackReceived = m.type = "CONFIRMED" /\ f.ack]
      m2 == CASE f.port = "zero" /\ f.fopts = <<>> /\ f.to = "unicast" ->
                   ProcessMacCommands(m1, f.payload, f.fcnt)
              [] f.port = "zero" /\ ~(f.fopts = <<>> /\ f.to = "unicast") ->
                   [m1 EXCEPT !.skip = TRUE, !.ackReceived = FALSE]
              [] f.port = "app" /\ f.to = "unicast" ->
                   [ProcessMacCommands(m1, f.fopts, f.fcnt) EXCEPT !.data = TRUE]
              [] f.port = "app" /\ f.to # "unicast" -> [m1 EXCEPT !.data = TRUE]
              [] f.port = "none" -> ProcessMacCommands(m1, f.fopts, f.fcnt)
  IN  FinishRxDone([m2 EXCEPT !.ind = TRUE])

RxMulticast(m, f) ==
  IF ~Authentic(m.mdown, f.fcnt) THEN PrepareRxDoneAbort(Fresh(m, f))
  ELSE LET m1 == [Fresh(m, f) EXCEPT !.repeat = <<>>]
       IN  IF Repeated(m.mdown, f.fcnt) THEN PrepareRxDoneAbort(m1)
           ELSE Accept([m1 EXCEPT !.mdown = f.fcnt], f)

(* Commands of a repeated confirmed frame are executed again.               *)
RxUnicast(m, f) ==
  LET again == Repeated(m.down, f.fcnt)
      m1    == [Fresh(m, f) EXCEPT !.repeat = <<>>, !.srvAck = f.type = "CONFIRMED"]
  IN  CASE ~Authentic(m.down, f.fcnt) -> PrepareRxDoneAbort(Fresh(m, f))
        [] Authentic(m.down, f.fcnt) /\ f.type = "CONFIRMED" ->
             Accept([m1 EXCEPT !.skip = @ \/ again, !.down = f.fcnt], f)
        [] Authentic(m.down, f.fcnt) /\ f.type # "CONFIRMED" ->
             IF again THEN PrepareRxDoneAbort(m1) ELSE Accept([m1 EXCEPT !.down = f.fcnt], f)

RxDone(m, f) == IF f.to = "unicast" THEN RxUnicast(m, f) ELSE RxMulticast(m, f)

(* A class A device listens for one frame, a class C device all the time;   *)
(* the end of a procedure follows a frame at once, the end of the wait for  *)
(* an acknowledgement within a second, in which a frame may still come.     *)
Listening == /\ phase = "window" \/ (phase = "idle" /\ mac.class = "C")
             /\ mac.done => mac.class = "C" /\ ~mac.ind
AfterFrame == IF phase = "window" /\ mac.class = "A" THEN "closed" ELSE phase

Counter(m, f) == IF f.to = "unicast" THEN m.down ELSE m.mdown

Receive(f) ==
  /\ Listening
  /\ mac' = RxDone(mac, f)
  /\ phase' = AfterFrame
  /\ owed' = IF Authentic(Counter(mac, f), f.fcnt) THEN {} ELSE owed
  /\ UNCHANGED <<sent, net, air, given, count>>

(* A frame for another device, or damaged.                                  *)
Foreign ==
  /\ Listening /\ count.foreign < MAX_FOREIGN
  /\ mac' = PrepareRxDoneAbort(Reset(mac))
  /\ phase' = AfterFrame
  /\ count' = [count EXCEPT !.foreign = @ + 1]
  /\ UNCHANGED <<sent, net, air, owed, given>>

(* The windows of the uplink pass, and with them the wait for an            *)
(* acknowledgement.  A class A device that heard a frame without one is     *)
(* told to send again, but not that its procedure is done.                  *)
NothingHeard ==
  /\ phase \in {"window", "closed"} /\ ~mac.done
  /\ phase = "closed" => mac.nodeAck /\ ~mac.retry
  /\ mac' = [mac EXCEPT !.retry = mac.nodeAck, !.done = phase = "window"]
  /\ UNCHANGED <<phase, sent, net, air, owed, given, count>>

-----------------------------------------------------------------------------
(* Sending.                                                                 *)

(* PrepareFrame: the commands go into the options of a frame or, if they    *)
(* are too long or there is no payload, replace its payload.                *)
PrepareFrame(m, payload) ==
  LET all == m.buffer \o m.repeat
      in  == CASE ~m.inNextTx \/ all = <<>> -> "none"
               [] m.inNextTx /\ all # <<>> ->
                    IF payload /\ Bytes(all) <= LORA_MAC_COMMAND_MAX_FOPTS_LENGTH
                    THEN "fopts" ELSE "zero"
  IN  [mac   |-> [m EXCEPT !.buffer = IF in = "zero" THEN <<>> ELSE all,
                           !.repeat = ParseMacCommandsToRepeat(all),
                           !.inNextTx = ParseMacCommandsToRepeat(all) # <<>>,
                           !.srvAck = FALSE],
       frame |-> [ack |-> m.srvAck, in |-> in, commands |-> IF in = "none" THEN <<>> ELSE all]]

StickyIn(commands) == {c \in ToSet(commands) : c.cmd \in Sticky}

OnAir(frame) == /\ sent' = frame
                /\ owed' = owed \cup StickyIn(frame.commands)

(* LoRaMacMcpsRequest.  ScheduleTx may refuse the frame (module             *)
(* ChannelPlan), which has been prepared by then: the error that is         *)
(* returned tells the application to send again, as an announcement does.   *)
McpsRequest(type, payload, refused) ==
  LET m == [mac EXCEPT !.type = "UNCONFIRMED", !.ackReceived = FALSE,
                       !.nodeAck = type = "CONFIRMED", !.tries = 1]
      p == PrepareFrame(m, payload)
  IN  /\ phase = "idle" /\ ~mac.done /\ count.uplinks < MAX_UPLINKS
      /\ type = "CONFIRMED" => payload
      /\ count' = [count EXCEPT !.uplinks = @ + 1]
      /\ IF refused
         THEN /\ mac' = [p.mac EXCEPT !.nodeAck = FALSE, !.told = TRUE]
              /\ UNCHANGED <<phase, sent, owed>>
         ELSE /\ mac' = [p.mac EXCEPT !.type = type, !.reps = 1, !.told = FALSE]
              /\ phase' = "window"
              /\ OnAir(p.frame)
      /\ UNCHANGED <<net, air, given>>

(* LoRaMacMlmeRequest for a command that waits for the next uplink.         *)
MlmeRequest(cmd) ==
  LET m == AddMacCommand(mac, cmd, <<"own", count.requests>>)
  IN  /\ phase = "idle" /\ ~mac.done /\ count.requests < MAX_REQUESTS
      /\ mac' = m
      /\ count' = [count EXCEPT !.requests = @ + 1]
      /\ UNCHANGED <<phase, sent, net, air, owed, given>>

-----------------------------------------------------------------------------
(* OnMacStateCheckTimerEvent: it ends a procedure, or sends the frame once  *)
(* more.  A retry that ScheduleTx refuses is the last one.                  *)

\* Faulty: the application is told of the commands of a downlink only.
ToldOfDownlink(m) == m.mlmeInd

Told(m) == m.mlmeInd \/ m.repeat # <<>>

Idle(m) == [m EXCEPT !.done = FALSE, !.retry = FALSE, !.nodeAck = FALSE, !.reps = 0,
                     !.tries = 1, !.told = @ \/ Told(m), !.mlmeInd = FALSE]

(* The indication is given in any case, while the procedure goes on too.    *)
Indication == mac.ind /\ ~mac.skip /\ mac.ok /\ mac.data
Indicate(m) == [m EXCEPT !.ind = FALSE, !.skip = FALSE, !.ok = FALSE, !.data = FALSE,
                         !.from = "unicast", !.fcnt = 0]
Indicated == given' = IF Indication THEN [given EXCEPT ![mac.from] = mac.fcnt] ELSE given

EndsWith(m) == /\ phase' = "idle"
               /\ mac' = Indicate(Idle(m))
GoesOn(m) == /\ phase' = "window"
             /\ mac' = Indicate([m EXCEPT !.done = FALSE])

EndUnconfirmed ==
  /\ phase # "idle" /\ mac.done /\ ~mac.nodeAck
  /\ \/ /\ mac.reps >= NbRep \/ mac.ind
        /\ EndsWith([mac EXCEPT !.buffer = IF mac.ind THEN @ ELSE <<>>])
     \/ /\ mac.reps < NbRep /\ ~mac.ind
        /\ GoesOn([mac EXCEPT !.reps = @ + 1])
  /\ Indicated
  /\ UNCHANGED <<sent, net, air, owed, count>>

EndConfirmed(refused) ==
  LET acknowledged == mac.ind /\ mac.ackReceived
  IN  /\ phase # "idle" /\ mac.done /\ mac.nodeAck
      /\ \/ /\ acknowledged /\ ~refused
            /\ EndsWith(mac)
         \/ /\ ~acknowledged /\ mac.retry /\ mac.tries < NbTrials /\ ~refused
            /\ GoesOn([mac EXCEPT !.tries = @ + 1, !.retry = FALSE])
         \/ /\ ~acknowledged /\ mac.retry /\ ((mac.tries < NbTrials) <=> refused)
            /\ EndsWith([mac EXCEPT !.buffer = <<>>])
      /\ Indicated
      /\ UNCHANGED <<sent, net, air, owed, count>>

(* A class C device that heard a frame between two uplinks.                 *)
EndIdle ==
  /\ phase = "idle" /\ mac.done
  /\ EndsWith(mac)
  /\ Indicated
  /\ UNCHANGED <<sent, net, air, owed, count>>

(* Nor does the indication wait for the end of a procedure.                 *)
PeriodicCheck ==
  /\ phase # "idle" /\ ~mac.done /\ mac.ind
  /\ mac' = Indicate(mac)
  /\ Indicated
  /\ UNCHANGED <<phase, sent, net, air, owed, count>>

-----------------------------------------------------------------------------
(* The network: it counts its frames, which may all get lost or come twice. *)

Downlink(c) ==
  /\ count.downlinks < MAX_DOWNLINKS(mac.class)
  /\ air' = air \cup {[to |-> c.to, fcnt |-> net[c.to], type |-> c.type, ack |-> c.ack,
                       fopts |-> c.fopts, port |-> c.port, payload |-> c.payload]}
  /\ net' = [net EXCEPT ![c.to] = @ + 1]
  /\ count' = [count EXCEPT !.downlinks = @ + 1]
  /\ UNCHANGED <<mac, phase, sent, owed, given>>

(* ResetMacParameters of a join, after which the counters go on from start  *)
(* (MIB_DOWNLINK_COUNTER restores one).                                     *)
ResetMacParameters(class, start) ==
  [class |-> class, down |-> Unsigned(start - 1), mdown |-> 0, srvAck |-> FALSE, inNextTx |-> FALSE,
   buffer |-> <<>>, repeat |-> <<>>, type |-> "UNCONFIRMED", nodeAck |-> FALSE,
   tries |-> 1, reps |-> 0, done |-> FALSE, retry |-> FALSE, ind |-> FALSE, skip |-> FALSE,
   ok |-> FALSE, data |-> FALSE, from |-> "unicast", fcnt |-> 0, ackReceived |-> FALSE,
   mlmeInd |-> FALSE, told |-> FALSE]

Init ==
  \E class \in Classes : \E start \in Starts(class) :
    /\ mac = ResetMacParameters(class, start)
    /\ phase = "idle"
    /\ sent = [ack |-> FALSE, in |-> "none", commands |-> <<>>]
    /\ net = [unicast |-> start, multicast |-> 0]
    /\ air = {}
    /\ owed = {}
    /\ given = [unicast |-> start - 1, multicast |-> -1]
    /\ count = [uplinks |-> 0, requests |-> 0, downlinks |-> 0, foreign |-> 0]

Next ==
  \/ \E type \in {"UNCONFIRMED", "CONFIRMED"}, payload \in BOOLEAN, refused \in Refusals :
       McpsRequest(type, payload, refused)
  \/ \E cmd \in Requests : MlmeRequest(cmd)
  \/ \E f \in air : Receive(f)
  \/ Foreign
  \/ NothingHeard
  \/ EndUnconfirmed
  \/ \E refused \in Refusals : EndConfirmed(refused)
  \/ EndIdle
  \/ PeriodicCheck
  \/ \E c \in Contents(mac.class) : Downlink(c)

Spec == Init /\ [][Next]_vars

-----------------------------------------------------------------------------
(* The counters have 32 bits, the buffers hold answers and requests, and    *)
(* only sticky answers are kept to be repeated.                             *)
TypeOK ==
  /\ phase \in {"idle", "window", "closed"}
  /\ mac.down \in 0 .. FCNT_MOD * FCNT_MOD - 1 /\ mac.mdown \in 0 .. FCNT_MOD * FCNT_MOD - 1
  /\ \A c \in ToSet(mac.buffer \o mac.repeat) : c.cmd \in DOMAIN Sizes
  /\ \A c \in ToSet(mac.repeat) : c.cmd \in Sticky
  /\ mac.tries \in 1 .. NbTrials /\ mac.reps \in 0 .. NbRep
  /\ sent.in \in {"none", "fopts", "zero"}
  /\ DOMAIN given = {"unicast", "multicast"}

(* PrepareFrame copies the commands to repeat behind the commands in        *)
(* MacCommandsBuffer: together they never exceed the buffer, whatever the   *)
(* network asks, in how many frames, and however often an uplink is         *)
(* refused.  Commands added without regard to their length or to the        *)
(* commands to repeat are excluded.                                         *)
BufferHolds ==
  (\A c \in ToSet(mac.buffer \o mac.repeat) : c.cmd \notin Careless) =>
    Bytes(mac.buffer) + Bytes(mac.repeat) <= LORA_MAC_COMMAND_MAX_LENGTH

(* When a procedure is over, sticky answers that were never sent, or whose  *)
(* sending has to be repeated, have been announced to the application       *)
(* (MLME_SCHEDULE_UPLINK) since its last uplink, or its last request was    *)
(* refused with an error: without an uplink of its own nothing would carry  *)
(* them.                                                                    *)
AnswersAnnounced ==
  LET waiting == StickyIn(mac.repeat) \cup (StickyIn(mac.buffer) \ StickyIn(sent.commands))
  IN  phase = "idle" /\ ~mac.done /\ waiting # {} => mac.told

(* A sticky answer that was sent is in every later uplink, until a downlink *)
(* shows that the network may have heard it (the comment at the end of      *)
(* PrepareFrame), whatever is refused, lost or foreign in between.          *)
StickyRepeated ==
  [][\A type \in {"UNCONFIRMED", "CONFIRMED"}, payload \in BOOLEAN :
       McpsRequest(type, payload, FALSE) => owed \subseteq StickyIn(sent'.commands)]_vars

(* The 32 bit counter follows that of the network across the overflow of    *)
(* its lower half: a frame at most the gap ahead of the last one is         *)
(* accepted and sets it, and a frame that is older or further ahead         *)
(* changes nothing.                                                         *)
CounterFollowsNetwork ==
  [][\A f \in air :
       Receive(f) /\ f.to = "unicast" =>
         LET last == IF mac.down = Unsigned(-1) THEN -1 ELSE mac.down
         IN  mac'.down = IF f.fcnt - last \in 1 .. MAX_FCNT_GAP - 1 THEN f.fcnt ELSE mac.down]_vars

(* The application is given the data of no frame twice and of none out of   *)
(* order, although the air may repeat and reorder frames.  The frame with   *)
(* counter 0, which the test for repetition excludes, may come twice.       *)
DeliveredOnceInOrder ==
  [][Indication /\ ~mac'.ind => mac.fcnt > given[mac.from] \/ mac.fcnt = 0]_vars

(* No uplink carries the same sticky answer twice: the buffer is emptied    *)
(* when an uplink ends, with or without a downlink (the comments in         *)
(* OnRadioRxDone and OnMacStateCheckTimerEvent).                            *)
StickyOnce ==
  \A i, j \in 1 .. Len(sent.commands) :
    i # j /\ sent.commands[i].cmd \in Sticky => sent.commands[i] # sent.commands[j]

=============================================================================
