------------------------------ MODULE AppLoop ------------------------------
(***************************************************************************)
(* The application: main.c's loop over deviceState, and the callbacks that  *)
(* change deviceState and nextTx from the timer thread                      *)
(* (ESP32_sx1262_LoRaWAN.c).  No lock protects the two variables, so every  *)
(* write of theirs is a step of its own.  The timer thread runs one         *)
(* callback at a time: those of the MAC, which is here what its confirms    *)
(* promise (module LoRaMac), and the one of TxNextPacketTimer.              *)
(***************************************************************************)
EXTENDS Integers

CONSTANTS
  Sources,                    \* values of data_selection
  Reads,                      \* what read() of the pipe may return, -1 for an error
  Texts,                      \* and the length of the text up to its first NUL
  Ranges,                     \* pairs of channel_start and channel_end
  fixed_data_len,
  LORAWAN_APP_DATA_MAX_SIZE

(* The configuration fits: the buffer holds what half of a uint8_t counts   *)
(* and the fixed frame, and the channels have a place in userChannelsMask.  *)
ASSUME SizeAssumption ==
  /\ LORAWAN_APP_DATA_MAX_SIZE \in Nat /\ LORAWAN_APP_DATA_MAX_SIZE >= 127
  /\ fixed_data_len \in 0 .. LORAWAN_APP_DATA_MAX_SIZE
ASSUME PipeAssumption == Reads \subseteq Int /\ Texts \subseteq Nat
ASSUME SourceAssumption ==
  Sources \subseteq {"fixed_data", "mkfifo_data", "hdc1080_data", "bmp180_data"}
ASSUME RangeAssumption == Ranges \subseteq (0 .. 95) \X (0 .. 95)

States == {"INIT", "JOIN", "SEND", "CYCLE", "SLEEP"}

VARIABLES
  config,                     \* what read_config found
  deviceState, nextTx,
  main,                       \* the main thread: its place, and what it will write
  callback,                   \* the timer thread: what it will write to nextTx
  timer,                      \* TxNextPacketTimer is running
  mac,                        \* joined, and busy with a request
  frame,                      \* appData: its size, and how much of it is of this round
  missed                      \* history: a callback's deviceState was overwritten by SLEEP
vars == <<config, deviceState, nextTx, main, callback, timer, mac, frame, missed>>

-----------------------------------------------------------------------------
(* read_hannel: bit i of word w is channel 16w + i.                         *)

userChannelsMask == [w \in 0 .. 5 |-> IF w = 0 THEN 0 .. 7 ELSE {}]

\* Faulty: the words between the first and the last are left out.
read_hannel_ends(start, end) ==
  [w \in 0 .. 5 |-> IF w \in {start \div 16, end \div 16}
                    THEN {i \in 0 .. 15 : 16 * w + i \in start .. end} ELSE {}]

read_hannel(start, end) ==
  LET first == start \div 16
      last  == end \div 16
  IN  IF start > end THEN userChannelsMask
      ELSE [w \in 0 .. 5 |->
              CASE w = first /\ first = last  -> start % 16 .. end % 16
                [] w = first /\ first # last  -> start % 16 .. 15
                [] w = last /\ first # last   -> 0 .. end % 16
                [] w > first /\ w < last      -> 0 .. 15
                [] w < first \/ w > last      -> {}]

-----------------------------------------------------------------------------
(* prepareTxFrame.  The length read from the pipe is kept in a uint8_t, its *)
(* text is written to appData only if it has an even length.                *)

\* Faulty: a byte of the frame for each character.
SizeOfText(n) == n % 256

SizeOfRead(n) == (n % 256) \div 2

Written(text) == IF text % 2 = 0 THEN text \div 2 ELSE 0

FromPipe(n, text) ==
  IF n = 0 THEN [size |-> 4, written |-> 4]
  ELSE [size |-> SizeOfRead(n), written |-> Written(text)]

Frames(source) ==
  CASE source = "fixed_data"   -> {[size |-> fixed_data_len, written |-> fixed_data_len]}
    [] source = "mkfifo_data"  -> {FromPipe(n, t) : n \in Reads, t \in Texts}
    [] source = "hdc1080_data" -> {[size |-> 4, written |-> 4]}
    [] source = "bmp180_data"  -> {[size |-> 8, written |-> 8]}

OnBus(source) == source \in {"hdc1080_data", "bmp180_data"}

-----------------------------------------------------------------------------
(* The main thread.  It writes deviceState some time after it has read it.  *)

At(pc) == main.pc = pc
Goto(pc, next) == main' = [pc |-> pc, next |-> next, touched |-> main.touched]

(* The switch of loop(), which forgets what it has seen before.             *)
Enter(state, pc, next) ==
  /\ At("loop") /\ deviceState = state
  /\ main' = [pc |-> pc, next |-> next, touched |-> FALSE]

ReadConfig ==
  /\ At("config")
  /\ \E range \in Ranges, source \in Sources, otaa \in BOOLEAN :
       config' = [range |-> range, mask |-> read_hannel(range[1], range[2]),
                  source |-> source, overTheAirActivation |-> otaa]
  /\ deviceState' = "INIT"
  /\ Goto("loop", "none")
  /\ UNCHANGED <<nextTx, callback, timer, mac, frame, missed>>

(* A missing or malformed entry of the file, or a sensor that does not      *)
(* answer on its bus, ends the program.                                     *)
Fails ==
  /\ At("config") \/ (At("prepare") /\ OnBus(config.source))
  /\ Goto("exited", "none")
  /\ UNCHANGED <<config, deviceState, nextTx, callback, timer, mac, frame, missed>>

init ==
  /\ Enter("INIT", "write", "JOIN")
  /\ timer' = FALSE
  /\ UNCHANGED <<config, deviceState, nextTx, callback, mac, frame, missed>>

(* LoRaMacMlmeRequest refuses a request while the MAC is not idle, and may  *)
(* refuse one for other reasons; LoRaMacMcpsRequest takes an uplink also    *)
(* while the channel of another is being sensed.                            *)
Request(what, accepted) ==
  /\ accepted => mac.busy = "none" \/ (what = "data" /\ mac.busy = "data")
  /\ mac' = IF accepted THEN [mac EXCEPT !.busy = what] ELSE mac

\* Faulty: a refused join leaves deviceState as it was, which main does not know.
AfterJoinUnset(accepted) == IF accepted THEN "SLEEP" ELSE "none"

AfterJoin(accepted) == IF accepted THEN "SLEEP" ELSE "CYCLE"

join ==
  /\ \E accepted \in BOOLEAN :
       \/ /\ config.overTheAirActivation
          /\ Enter("JOIN", "write", AfterJoin(accepted))
          /\ Request("join", accepted)
       \/ /\ ~config.overTheAirActivation /\ accepted
          /\ Enter("JOIN", "write", "SEND")
          /\ mac' = [mac EXCEPT !.joined = TRUE]
  /\ UNCHANGED <<config, deviceState, nextTx, callback, timer, frame, missed>>

StartSending ==
  /\ Enter("SEND", "prepare", "none")
  /\ UNCHANGED <<config, deviceState, nextTx, callback, timer, mac, frame, missed>>

prepareTxFrame ==
  /\ At("prepare")
  /\ frame' \in Frames(config.source)
  /\ Goto("send", "none")
  /\ UNCHANGED <<config, deviceState, nextTx, callback, timer, mac, missed>>

(* send() and SendFrame: nextTx is written when the request has returned.   *)
send ==
  /\ At("send")
  /\ \/ /\ ~nextTx
        /\ Goto("write", "CYCLE")
        /\ UNCHANGED mac
     \/ /\ nextTx
        /\ \E accepted \in BOOLEAN :
             /\ Request("data", accepted)
             /\ Goto(IF accepted THEN "answered" ELSE "refused", "none")
  /\ UNCHANGED <<config, deviceState, nextTx, callback, timer, frame, missed>>

WriteNextTx ==
  /\ At("answered") \/ At("refused")
  /\ nextTx' = At("refused")
  /\ Goto("write", "CYCLE")
  /\ UNCHANGED <<config, deviceState, callback, timer, mac, frame, missed>>

cycle ==
  /\ Enter("CYCLE", "write", "SLEEP")
  /\ timer' = TRUE
  /\ UNCHANGED <<config, deviceState, nextTx, callback, mac, frame, missed>>

(* The assignment that ends a state's case.                                 *)
WriteState ==
  /\ At("write")
  /\ deviceState' = main.next
  /\ missed' = (missed \/ (main.next = "SLEEP" /\ main.touched))
  /\ Goto("loop", "none")
  /\ UNCHANGED <<config, nextTx, callback, timer, mac, frame>>

Main == \/ ReadConfig \/ Fails \/ init \/ join \/ StartSending \/ prepareTxFrame
        \/ send \/ WriteNextTx \/ cycle \/ WriteState

-----------------------------------------------------------------------------
(* The timer thread.                                                        *)

(* A callback writes deviceState; main.touched notes that there is          *)
(* something to lose.                                                       *)
Wake(state) ==
  /\ deviceState' = state
  /\ main' = [main EXCEPT !.touched = @ \/ state # "SLEEP"]

\* Faulty: a join that fails is not tried again.
MlmeConfirmQuiet(joined) ==
  /\ callback = "none" /\ mac.busy = "join"
  /\ mac' = [joined |-> mac.joined \/ joined, busy |-> "none"]
  /\ IF joined THEN Wake("SEND") ELSE UNCHANGED <<deviceState, main>>
  /\ callback' = "nextTx"
  /\ UNCHANGED <<config, nextTx, timer, frame, missed>>

(* The MAC answers a join: the application sends, or tries again in 30 s.   *)
MlmeConfirm(joined) ==
  /\ callback = "none" /\ mac.busy = "join"
  /\ mac' = [joined |-> mac.joined \/ joined, busy |-> "none"]
  /\ IF joined THEN Wake("SEND") /\ UNCHANGED timer
     ELSE timer' = TRUE /\ UNCHANGED <<deviceState, main>>
  /\ callback' = "nextTx"
  /\ UNCHANGED <<config, nextTx, frame, missed>>

(* The MAC answers an uplink, unless its procedure hangs (module LoRaMac).  *)
McpsConfirm ==
  /\ callback = "none" /\ mac.busy = "data"
  /\ mac' = [mac EXCEPT !.busy = "none"]
  /\ callback' = "nextTx"
  /\ UNCHANGED <<config, deviceState, nextTx, main, timer, frame, missed>>

\* Faulty: a callback leaves the flag to the confirm.
LeaveNextTx ==
  /\ callback = "nextTx"
  /\ callback' = "none"
  /\ UNCHANGED <<config, deviceState, nextTx, main, timer, mac, frame, missed>>

(* The last statement of a callback.                                        *)
SetNextTx ==
  /\ callback = "nextTx"
  /\ nextTx' = TRUE
  /\ callback' = "none"
  /\ UNCHANGED <<config, deviceState, main, timer, mac, frame, missed>>

(* OnTxNextPacketTimerEvent: the time to send has come, or to join again.   *)
SendAgain ==
  /\ callback = "none" /\ mac.joined
  /\ timer' = FALSE
  /\ Wake("SEND")
  /\ callback' = "nextTx"
  /\ UNCHANGED <<config, nextTx, mac, frame, missed>>

JoinAgain ==
  /\ callback = "none" /\ ~mac.joined
  /\ timer' = FALSE
  /\ \E accepted \in BOOLEAN : Request("join", accepted) /\ Wake(AfterJoin(accepted))
  /\ UNCHANGED <<config, nextTx, callback, frame, missed>>

OnTxNextPacketTimerEvent == timer /\ (SendAgain \/ JoinAgain)

(* McpsIndication of a confirmed frame or of one with more to come, and     *)
(* MlmeIndication of MLME_SCHEDULE_UPLINK call the same function.           *)
Indication == SendAgain

Callbacks == \/ \E joined \in BOOLEAN : MlmeConfirm(joined)
             \/ McpsConfirm \/ SetNextTx
             \/ OnTxNextPacketTimerEvent \/ Indication

-----------------------------------------------------------------------------
Init ==
  /\ config = [range |-> <<0, 7>>, mask |-> userChannelsMask, source |-> "fixed_data",
               overTheAirActivation |-> TRUE]
  /\ deviceState = "INIT"
  /\ nextTx = TRUE
  /\ main = [pc |-> "config", next |-> "none", touched |-> FALSE]
  /\ callback = "none"
  /\ timer = FALSE
  /\ mac = [joined |-> FALSE, busy |-> "none"]
  /\ frame = [size |-> 4, written |-> 0]
  /\ missed = FALSE

Next == Main \/ Callbacks

(* The threads run on, a started timer fires, a join ends; an uplink need   *)
(* not (finding LoRaMacNoAck), and the network need not send.               *)
Fairness == /\ WF_vars(Main)
            /\ WF_vars(SetNextTx)
            /\ WF_vars(OnTxNextPacketTimerEvent)
            /\ WF_vars(\E joined \in BOOLEAN : MlmeConfirm(joined))

Spec == Init /\ [][Next]_vars /\ Fairness

-----------------------------------------------------------------------------
TypeOK ==
  /\ deviceState \in States /\ nextTx \in BOOLEAN /\ timer \in BOOLEAN
  /\ main.pc \in {"config", "loop", "prepare", "send", "answered", "refused", "write", "exited"}
  /\ main.next \in States \cup {"none"} /\ (At("write") => main.next # "none")
  /\ callback \in {"none", "nextTx"}
  /\ mac.busy \in {"none", "join", "data"}
  /\ frame.size \in Nat /\ frame.written \in Nat

(* The channels enabled are those from channel_start to channel_end, over   *)
(* any number of words of the mask (read_hannel).                           *)
ChannelsAsConfigured ==
  config.range[1] <= config.range[2] =>
    {16 * w + i : w \in 0 .. 5, i \in 0 .. 15} \cap
      UNION {{16 * w + i : i \in config.mask[w]} : w \in 0 .. 5} =
        config.range[1] .. config.range[2]

(* Whatever the pipe returns, an error and a full buffer included, the      *)
(* frame that is sent lies within appData (prepareTxFrame).                 *)
PayloadInBounds == frame.size <= LORAWAN_APP_DATA_MAX_SIZE

(* The application asks for an uplink or a join again and again, although   *)
(* the MAC may refuse every request and never answer an uplink, and the     *)
(* callbacks write deviceState at any moment: it stops only if it exits, or *)
(* if main writes SLEEP over what a callback wrote since main had read      *)
(* deviceState (loop, join and cycle).                                      *)
Asks == \/ nextTx /\ send
        \/ config.overTheAirActivation /\ join
        \/ timer /\ JoinAgain
KeepsSending == \/ <>(missed \/ At("exited"))
                \/ []<><<Asks>>_vars

(* nextTx = false, which send() may write after the confirm that sets it,   *)
(* does not last: the next timer event or confirm sets it again.            *)
NextTxRecovers == \/ <>(missed \/ At("exited"))
                  \/ []<>nextTx

=============================================================================
