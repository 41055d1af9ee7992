------------------------------ MODULE LoRaMac ------------------------------
(***************************************************************************)
(* The transmission procedure of LoRaMac.c: a request of the application   *)
(* is prepared, waits for its duty cycle and for a clear channel (CAD), is *)
(* sent, opens its reception windows, may be repeated, and is confirmed by *)
(* the MAC state check.  Handlers run on three threads: the application's  *)
(* (requests), the timer thread (timer callbacks) and the GPIO interrupt   *)
(* thread (radio events); a handler is one action.  The order in which     *)
(* they run is free, except where one timer cannot expire before another.  *)
(*                                                                         *)
(* The state of the MAC and of the radio is one record, so that a handler  *)
(* is written as the composition of what it calls, in the code's order.    *)
(* Class B is compiled out and has no part here; frames, channels, data    *)
(* rates and times are abstracted to what the procedure branches on.       *)
(***************************************************************************)
EXTENDS ConfirmElements, Integers

CONSTANTS Classes,          \* device classes the application selects
          Uplinks,          \* {"CONFIRMED", "UNCONFIRMED"}: requests it makes
          Commands,         \* {"JOIN", "LINK_CHECK"}: MLME requests it makes
          Downlinks,        \* the frames that may be received
          NbTrials,         \* of a confirmed uplink (AckTimeoutRetries)
          MAX_ACK_RETRIES,  \* the MAC's own limit of retries
          MaxJoinTrials,    \* MaxJoinRequestTrials
          ChannelsNbRep,    \* transmissions of an unconfirmed uplink
          CadMax,           \* LORA_CAD_CNT_MAX
          StartJoined,      \* activated by personalisation
          OneRequest,       \* the application waits for its confirm
          ServerAcks,       \* the server answers a confirmed uplink by an ACK
          QuietChannel,     \* class C hears its own downlinks only
          ShortAnswers,     \* in class C the ACK time-out finds RX1 over
          TxMayTimeOut,     \* the radio may fail to report TxDone
          QueueLen,         \* LORA_MAC_MLME_CONFIRM_QUEUE_LEN
          SentCap           \* where the history of transmissions saturates

ASSUME BoundsAssumption ==
  /\ NbTrials \in Nat \ {0} /\ MAX_ACK_RETRIES \in Nat
  /\ MaxJoinTrials \in Nat \ {0}
  /\ ChannelsNbRep \in Nat \ {0} /\ CadMax \in Nat \ {0}
  /\ QueueLen \in Nat \ {0} /\ SentCap \in Nat

VARIABLE mac

StateBits == {"TX_RUNNING", "TX_DELAYED", "CAD_RUNNING", "RX_ABORT"}
FlagBits  == {"McpsReq", "McpsInd", "McpsIndSkip", "MlmeReq", "MacDone"}
MacTimers == {"MacStateCheck", "TxDelayed", "TxImmediate",
              "RxWindow1", "RxWindow2", "AckTimeout"}
RadioTimers == {"TxTimeout", "RxTimeout", "CadTimeout"}

\* A frame on the air.  "data" carries an ACK or not, is or is not one the
\* application must not see (skip), and does or does not hold a LinkCheckAns;
\* "abort" stands for every frame the checks of OnRadioRxDone reject (length,
\* address, counter, MIC), "repeated" for a repeated unconfirmed downlink.
Frames ==
  [kind : {"data"}, ack : BOOLEAN, skip : BOOLEAN, answer : BOOLEAN]
  \cup [kind : {"accept", "badAccept", "abort", "repeated",
                 "proprietary", "unknown"}]

\* Of the results only those the procedure tests are told apart; RX_FAIL
\* stands for the time-outs and errors of both reception windows.
Results == {"OK", "ERROR", "TX_TIMEOUT", "RX_FAIL", "JOIN_FAIL", "SIZE"}

MlmeElement == [Request : {"JOIN", "LINK_CHECK"}, Status : Results,
                ReadyToHandle : BOOLEAN, RestrictCommon : BOOLEAN]

ASSUME ConfigurationAssumption ==
  /\ Classes \subseteq {"A", "C"} /\ Commands \subseteq {"JOIN", "LINK_CHECK"}
  /\ Uplinks \subseteq {"CONFIRMED", "UNCONFIRMED"} /\ Downlinks \subseteq Frames
  /\ StartJoined \in BOOLEAN /\ OneRequest \in BOOLEAN /\ ServerAcks \in BOOLEAN
  /\ QuietChannel \in BOOLEAN /\ ShortAnswers \in BOOLEAN
  /\ TxMayTimeOut \in BOOLEAN

TypeOK ==
  /\ mac.class \in {"A", "C"}                 \* LoRaMacDeviceClass
  /\ mac.state \subseteq StateBits            \* LoRaMacState
  /\ mac.flags \subseteq FlagBits             \* LoRaMacFlags
  /\ mac.timers \subseteq MacTimers \cup RadioTimers
  /\ mac.radio \in {"SLEEP", "CAD", "TX", "RX", "RXC"}
  /\ mac.rxSlot \in {"WIN_1", "WIN_2", "CLASS_C"}
  /\ mac.joined \in BOOLEAN                   \* IsLoRaMacNetworkJoined
  /\ mac.nodeAck \in BOOLEAN                  \* NodeAckRequested
  /\ mac.ackRetry \in BOOLEAN                 \* AckTimeoutRetry
  /\ mac.ackMax \in {1, NbTrials}             \* AckTimeoutRetries
  /\ mac.ackCnt \in 1 .. mac.ackMax           \* AckTimeoutRetriesCounter
  /\ mac.nbRep \in 0 .. ChannelsNbRep         \* ChannelsNbRepCounter
  /\ mac.joinTrials \in 0 .. MaxJoinTrials    \* JoinRequestTrials
  /\ mac.joinMax \in {1, MaxJoinTrials}       \* MaxJoinRequestTrials
  /\ mac.cadCnt \in 1 .. CadMax               \* g_lora_cad_cnt
  /\ mac.mcps \in [Request : {"CONFIRMED", "UNCONFIRMED"},
                   Status : Results, AckReceived : BOOLEAN]
  /\ mac.mlmeRequest \in {"JOIN", "LINK_CHECK"} \* MlmeConfirm.MlmeRequest
  /\ mac.common \in Results                   \* CommonStatus
  /\ Len(mac.queue) <= QueueLen
  /\ \A i \in DOMAIN mac.queue : mac.queue[i] \in MlmeElement
  \* What LoRaMacBuffer holds: a join request, or a data frame prepared with
  \* a counter value not yet used with the session's keys, or used before.
  /\ mac.frame \in {"NONE", "JOIN", "FRESH", "REUSED"}
  \* History: has the present UpLinkCounter been on the air in this session;
  \* transmissions of the present request; was an ACK heard for it.
  /\ mac.counterUsed \in BOOLEAN
  /\ mac.sent \in 0 .. SentCap
  /\ mac.heardAck \in BOOLEAN

-----------------------------------------------------------------------------
(* Bits, flags and timers. *)

Clear(m, bits)   == [m EXCEPT !.state = @ \ bits]
Raise(m, bits)   == [m EXCEPT !.state = @ \cup bits]
Mark(m, flags)   == [m EXCEPT !.flags = @ \cup flags]
Unmark(m, flags) == [m EXCEPT !.flags = @ \ flags]
TimerStart(m, t) == [m EXCEPT !.timers = @ \cup {t}]
TimerStop(m, t)  == [m EXCEPT !.timers = @ \ {t}]
Least(a, b)      == IF a < b THEN a ELSE b

Sleep(m) == [m EXCEPT !.radio = "SLEEP"]

\* RadioGetStatus compares the operating mode with RF_CAD, which is not the
\* value of the CAD mode: a radio in CAD is reported idle.
RadioIdle(m) == m.radio \in {"SLEEP", "CAD"}

SetStatusCmn(m, st) == [m EXCEPT !.common = st, !.queue = AnswerAll(@, st)]

\* The test by which the procedure recognises a join request: a request is
\* pending, and JOIN was the last request copied to the MlmeConfirm.
JoinProcedure(m) == "MlmeReq" \in m.flags /\ m.mlmeRequest = "JOIN"

\* Faulty: the counter stays.
CountNothing(m) == m

\* UpLinkCounter++
CountUplink(m) == [m EXCEPT !.counterUsed = FALSE]

\* All counters start again.  If a session goes on, with the same keys, its
\* first counter values have been used before.
ResetMacParameters(m) ==
  [m EXCEPT !.counterUsed = m.joined,
            !.nbRep = 0, !.ackMax = 1, !.ackCnt = 1,
            !.ackRetry = FALSE, !.nodeAck = FALSE]

-----------------------------------------------------------------------------
(* Transmission. *)

\* What ScheduleTx can find: the channel is free of its duty cycle ("CAD"),
\* is not ("DELAY"), or the frame is refused, being too long for the data rate
\* or the device being switched off by the network ("LENGTH").
Outcomes == {"CAD", "DELAY", "LENGTH"}

\* Faulty: the procedure looks idle while it listens.
StartCADUnseen(m) == TimerStart([m EXCEPT !.radio = "CAD"], "CadTimeout")

StartCAD(m) ==
  Raise(TimerStart([m EXCEPT !.radio = "CAD"], "CadTimeout"), {"CAD_RUNNING"})

ScheduleTx(m, out) ==
  CASE out = "CAD"    -> StartCAD(m)
    [] out = "DELAY"  -> TimerStart(Raise(m, {"TX_DELAYED"}), "TxDelayed")
    [] out = "LENGTH" -> m

\* OnTxDelayedTimerEvent; it ignores what ScheduleTx returns.
SendDelayed(m, out) ==
  LET m1 == Clear(TimerStop(m, "TxDelayed"), {"TX_DELAYED"})
      m2 == IF JoinProcedure(m1)
              THEN [ResetMacParameters(m1) EXCEPT !.frame = "JOIN"]
              ELSE m1
  IN  ScheduleTx(m2, out)

SendFrameOnChannel(m) ==
  LET m1 == SetStatusCmn(m, "ERROR")
      m2 == [m1 EXCEPT !.mcps.Status = "ERROR", !.radio = "TX",
                       !.timers = @ \cup {"MacStateCheck", "TxTimeout"},
                       !.joinTrials = IF m.joined THEN @ ELSE @ + 1,
                       !.counterUsed = @ \/ m.frame \in {"FRESH", "REUSED"},
                       !.sent = Least(@ + 1, SentCap)]
  IN  Raise(m2, {"TX_RUNNING"})

-----------------------------------------------------------------------------
(* Reception windows and the acknowledgement time-out. *)

OpenRx2(m) ==
  LET m1 == TimerStop(m, "RxWindow2")
  IN  IF ~RadioIdle(m) THEN m1
      ELSE IF m.class = "C" THEN [m1 EXCEPT !.radio = "RXC", !.rxSlot = "WIN_2"]
      ELSE [m1 EXCEPT !.radio = "RX", !.rxSlot = "WIN_2",
                      !.timers = @ \cup {"RxTimeout"}]

OpenContinuousRx2Window(m) == [OpenRx2(m) EXCEPT !.rxSlot = "CLASS_C"]

\* Faulty: the procedure does not learn of the time-out.
AckTimeoutUnnoticed(m) == TimerStop(m, "AckTimeout")

OnAckTimeout(m) ==
  LET m1 == TimerStop(m, "AckTimeout")
      m2 == IF m.nodeAck THEN [m1 EXCEPT !.ackRetry = TRUE] ELSE m1
  IN  IF m.class = "C" THEN Mark(m2, {"MacDone"}) ELSE m2

\* Faulty: keeps waiting for an ACK that has come.
KeepAckTimeout(m) == m

CheckToDisableAckTimeout(m) ==
  LET stop == IF m.nodeAck
                THEN m.mcps.AckReceived \/ m.ackCnt > m.ackMax
                ELSE m.class = "C"
  IN  IF stop THEN TimerStop(m, "AckTimeout") ELSE m

PrepareRxDoneAbort(m) ==
  LET m1 == Raise(m, {"RX_ABORT"})
      m2 == IF m.nodeAck THEN OnAckTimeout(m1) ELSE m1
  IN  TimerStart(Mark(m2, {"McpsInd", "MacDone"}), "MacStateCheck")

\* Faulty: leaves it to the next time-out to end the procedure.
FinishRxDoneQuietly(m) == CheckToDisableAckTimeout(m)

\* The end of OnRadioRxDone.
FinishRxDone(m) ==
  LET m1 == CheckToDisableAckTimeout(m)
  IN  IF "AckTimeout" \in m1.timers THEN m1
      ELSE TimerStart(Mark(m1, {"MacDone"}), "MacStateCheck")

\* Faulty: reports success to the application only.
AcceptJoinUnstored(m) == [m EXCEPT !.queue = AnswerFirst(@, "JOIN", "OK")]

\* The code asks IsCmdActive, which agrees with IsQueued unless the queue is
\* empty; no window is open for an accept then, except in class C.
AcceptJoin(m) ==
  IF IsQueued(m.queue, "JOIN")
    THEN [m EXCEPT !.queue = AnswerFirst(@, "JOIN", "OK"), !.joined = TRUE,
                   !.counterUsed = FALSE]
    ELSE m

RefuseJoin(m) == [m EXCEPT !.queue = AnswerFirst(@, "JOIN", "JOIN_FAIL")]

\* Faulty: takes no ACK of a retransmission.
AcknowledgedAtOnce(m, f) ==
  f.ack /\ m.mcps.Request = "CONFIRMED" /\ m.ackCnt = 1

Acknowledged(m, f) == f.ack /\ m.mcps.Request = "CONFIRMED"

\* A data frame that passed all checks.
ReceiveData(m, f) ==
  LET m1 == [m EXCEPT !.mcps.Status = "OK",
                      !.mcps.AckReceived = Acknowledged(m, f),
                      !.heardAck = @ \/ f.ack,
                      !.queue = IF f.answer
                                  THEN AnswerFirst(@, "LINK_CHECK", "OK")
                                  ELSE @]
  IN  Mark(m1, {"McpsInd"} \cup (IF f.skip THEN {"McpsIndSkip"} ELSE {}))

ReceiveFrame(m, f) ==
  LET m1 == TimerStop(Sleep([m EXCEPT !.mcps.AckReceived = FALSE]), "RxWindow2")
  IN  CASE f.kind = "data"    -> FinishRxDone(ReceiveData(m1, f))
        [] f.kind = "proprietary" -> FinishRxDone(Mark(m1, {"McpsInd"}))
        [] f.kind = "unknown" -> FinishRxDone(PrepareRxDoneAbort(m1))
        [] f.kind = "repeated" ->
             PrepareRxDoneAbort([m1 EXCEPT !.mcps.Status = "OK"])
        [] f.kind = "abort" -> PrepareRxDoneAbort(m1)
        [] f.kind = "accept" ->
             IF m.joined THEN PrepareRxDoneAbort(m1)
                         ELSE FinishRxDone(AcceptJoin(m1))
        [] f.kind = "badAccept" ->
             IF m.joined THEN PrepareRxDoneAbort(m1)
                         ELSE FinishRxDone(RefuseJoin(m1))

WindowFailed(m) ==
  LET m1 == Sleep(TimerStop(m, "RxTimeout"))
      m2 == IF m.nodeAck THEN [m1 EXCEPT !.mcps.Status = "RX_FAIL"] ELSE m1
  IN  SetStatusCmn(m2, "RX_FAIL")

\* Faulty: does not wait for the second window.
EndFirstWindow(m, late) == Mark(WindowFailed(m), {"MacDone"})

\* What OnRadioRxError and OnRadioRxTimeout do; the radio driver has already
\* marked the radio asleep.  late: the time of the second window has come.
EndWindow(m, late) ==
  LET m1 == WindowFailed(m)
  IN  IF m.class = "C" THEN OpenContinuousRx2Window(m1)
      ELSE IF m.rxSlot # "WIN_1" THEN Mark(m1, {"MacDone"})
      ELSE IF late THEN Mark(TimerStop(m1, "RxWindow2"), {"MacDone"})
      ELSE m1

-----------------------------------------------------------------------------
(* OnMacStateCheckTimerEvent, in the order of its paragraphs. *)

RequestPending(m) == m.flags \cap {"McpsReq", "MlmeReq"} # {}

EndAbort(m) ==
  IF "RX_ABORT" \in m.state THEN Clear(m, {"RX_ABORT", "TX_RUNNING"}) ELSE m

TxTimedOut(m) ==
  /\ RequestPending(m)
  /\ m.mcps.Status = "TX_TIMEOUT" \/ m.common = "TX_TIMEOUT"

\* Faulty: the procedure is not left.
EndTimedOutHalf(m) == [m EXCEPT !.mcps.AckReceived = FALSE]

EndTimedOut(m) ==
  Clear([m EXCEPT !.mcps.AckReceived = FALSE], {"TX_RUNNING"})

\* Faulty: one join request more than asked for.
PastLastJoinTrial(m) == m.joinTrials > m.joinMax

LastJoinTrial(m) == m.joinTrials >= m.joinMax

EndJoin(m, out) ==
  IF \E i \in DOMAIN m.queue :
       IsFirst(m.queue, i, "JOIN") /\ m.queue[i].Status = "OK"
    THEN Clear([m EXCEPT !.counterUsed = FALSE, !.nbRep = 0], {"TX_RUNNING"})
  ELSE IF LastJoinTrial(m) THEN Clear(m, {"TX_RUNNING"})
  ELSE SendDelayed(Unmark(m, {"MacDone"}), out)

\* Faulty: MacDone is still set when the frame is sent again.
RepeatWhileDone(m, out) ==
  IF m.nbRep >= ChannelsNbRep \/ "McpsInd" \in m.flags
    THEN Clear(CountUplink([m EXCEPT !.nbRep = 0]), {"TX_RUNNING"})
    ELSE SendDelayed(m, out)

EndUnconfirmed(m, out) ==
  IF m.nbRep >= ChannelsNbRep \/ "McpsInd" \in m.flags
    THEN Clear(CountUplink([m EXCEPT !.nbRep = 0]), {"TX_RUNNING"})
    ELSE SendDelayed(Unmark(m, {"MacDone"}), out)

EndWithoutAck(m, out) ==
  IF m.nodeAck \/ ~RequestPending(m) \/ TxTimedOut(m) THEN m
  ELSE IF JoinProcedure(m) THEN EndJoin(m, out)
  ELSE EndUnconfirmed(m, out)

EndReceived(m) ==
  IF "McpsInd" \in m.flags /\ (m.mcps.AckReceived \/ m.ackCnt > m.ackMax)
    THEN Clear(CountUplink([m EXCEPT !.ackRetry = FALSE, !.nodeAck = FALSE]),
               {"TX_RUNNING"})
    ELSE m

GiveUp(m) ==
  Clear(CountUplink([m EXCEPT !.nodeAck = FALSE, !.mcps.AckReceived = FALSE]),
        {"TX_RUNNING"})

\* Faulty: one transmission more than asked for.
PastLastTrial(m) == m.ackCnt > m.ackMax

LastTrial(m) == m.ackCnt >= m.ackMax \/ m.ackCnt > MAX_ACK_RETRIES

Retry(m, out) ==
  LET m1 == [m EXCEPT !.ackRetry = FALSE]
      m2 == [m1 EXCEPT !.ackCnt = @ + 1]
  IN  IF ~m.ackRetry \/ "TX_DELAYED" \in m.state THEN m
      ELSE IF LastTrial(m) THEN GiveUp(m1)
      ELSE IF out = "LENGTH" THEN GiveUp([m2 EXCEPT !.mcps.Status = "SIZE"])
      ELSE Unmark(ScheduleTx(m2, out), {"MacDone"})

\* Every element that has its answer is delivered and removed; the others are
\* queued again, in their order.  MlmeConfirm keeps the last one looked at.
DeliverMlme(m) ==
  LET left == Unanswered(m.queue)
  IN  [m EXCEPT
         !.queue = left,
         !.mlmeRequest = IF m.queue = <<>> THEN @
                         ELSE m.queue[Len(m.queue)].Request,
         !.flags = IF left = <<>> THEN @ \ {"MlmeReq"} ELSE @]

Deliver(m) ==
  LET m1 == Unmark(m, {"McpsReq"})
      m2 == IF "MlmeReq" \in m1.flags THEN DeliverMlme(m1) ELSE m1
  IN  Unmark(m2, {"MacDone"})

Indicate(m) ==
  LET m1 == Unmark(m, {"McpsInd", "McpsIndSkip"})
  IN  IF "McpsInd" \notin m.flags THEN m
      ELSE IF m.class = "C" THEN OpenContinuousRx2Window(m1) ELSE m1

Finish(m, out) ==
  LET m1 == EndAbort(m)
      m2 == IF TxTimedOut(m1) THEN EndTimedOut(m1) ELSE m1
  IN  Retry(EndReceived(EndWithoutAck(m2, out)), out)

-----------------------------------------------------------------------------
(* The application's requests. *)

Init ==
  mac = [class |-> "A", state |-> {}, flags |-> {}, timers |-> {},
         radio |-> "SLEEP", rxSlot |-> "WIN_1", joined |-> StartJoined,
         nodeAck |-> FALSE, ackRetry |-> FALSE, ackMax |-> 1, ackCnt |-> 1,
         nbRep |-> 0, joinTrials |-> 0, joinMax |-> 1, cadCnt |-> 1,
         mcps |-> [Request |-> "UNCONFIRMED", Status |-> "OK",
                   AckReceived |-> FALSE],
         mlmeRequest |-> "JOIN", common |-> "OK", queue |-> <<>>,
         frame |-> "NONE", counterUsed |-> FALSE, sent |-> 0,
         heardAck |-> FALSE]

\* A confirmed or unconfirmed uplink.  Send fails when the device has not
\* joined or the payload is too long; PrepareFrame has then changed the frame.
McpsRequest(type, out) ==
  LET m1 == [mac EXCEPT
               !.ackCnt = 1,
               !.ackMax = IF type = "CONFIRMED" THEN NbTrials ELSE 1,
               !.mcps = [Request |-> "UNCONFIRMED", Status |-> "ERROR",
                         AckReceived |-> FALSE],
               !.nodeAck = FALSE,
               !.frame = IF ~mac.joined THEN "NONE"
                         ELSE IF mac.counterUsed THEN "REUSED" ELSE "FRESH"]
      m2 == [m1 EXCEPT !.nodeAck = type = "CONFIRMED",
                       !.sent = 0, !.heardAck = FALSE]
      m3 == [ScheduleTx(m2, out) EXCEPT !.mcps.Request = type]
  IN
  /\ mac.state \cap {"TX_RUNNING", "TX_DELAYED"} = {}
  /\ OneRequest => "McpsReq" \notin mac.flags
  /\ mac' = IF mac.joined /\ out # "LENGTH" THEN Mark(m3, {"McpsReq"}) ELSE m1

\* A request for which LoRaMacMlmeRequest accepts a new queue element.
MlmeRequest(r) ==
  /\ mac.state = {}
  /\ Len(mac.queue) < QueueLen
  /\ r \in Commands

\* MLME_JOIN; the application asks for it only until it has joined.
Join(out) ==
  LET m1 == [ResetMacParameters(mac) EXCEPT
               !.queue = Append(@, Queued("JOIN", "JOIN_FAIL", FALSE)),
               !.joinTrials = 0, !.joinMax = MaxJoinTrials,
               !.frame = "JOIN",
               !.mcps.AckReceived = FALSE, !.sent = 0]
  IN
  /\ MlmeRequest("JOIN")
  /\ ~mac.joined
  /\ mac' = ScheduleTx(Mark(m1, {"MlmeReq"}), out)

\* MLME_LINK_CHECK: the command travels with the next uplink.  If the buffer
\* of MAC commands is full, the queue element is taken back.
LinkCheck(fits) ==
  LET m1 == [mac EXCEPT !.queue =
               Append(@, Queued("LINK_CHECK", "ERROR", FALSE))]
      m2 == [mac EXCEPT !.nodeAck = FALSE]
  IN
  /\ MlmeRequest("LINK_CHECK")
  /\ mac.joined
  /\ mac' = CASE fits -> Mark(m1, {"MlmeReq"})
              [] ~fits /\ mac.queue = <<>> -> Unmark(m2, {"MlmeReq"})
              [] OTHER -> Mark(m2, {"MlmeReq"})

\* The application changes the device class (MIB_DEVICE_CLASS).
SwitchClass(class) ==
  LET m1 == Sleep([mac EXCEPT !.class = class])
  IN
  /\ "TX_RUNNING" \notin mac.state
  /\ OneRequest => mac.state = {}
  /\ class # mac.class
  /\ mac' = IF class = "C"
              THEN OpenContinuousRx2Window([m1 EXCEPT !.nodeAck = FALSE])
              ELSE m1

-----------------------------------------------------------------------------
(* Timer callbacks. *)

\* A downlink may change the data rate between two attempts of one uplink.
DataRateMayChange == mac.joined /\ mac.class = "C" /\ ~QuietChannel

\* A frame can be too long at its retransmission, for which the code may lower
\* the data rate.
MacStateCheck(out) ==
  LET m1 == TimerStop(mac, "MacStateCheck")
      m2 == IF "MacDone" \in m1.flags THEN Finish(m1, out) ELSE m1
      m3 == IF m2.state = {} THEN Deliver(m2)
                             ELSE TimerStart(m2, "MacStateCheck")
  IN
  /\ "MacStateCheck" \in mac.timers
  /\ out = "LENGTH" => mac.nodeAck \/ DataRateMayChange
  /\ mac' = Indicate(m3)

TxDelayed(out) ==
  /\ "TxDelayed" \in mac.timers
  /\ out = "LENGTH" => DataRateMayChange
  /\ mac' = SendDelayed(mac, out)

TxImmediate ==
  /\ "TxImmediate" \in mac.timers
  /\ mac' = SendFrameOnChannel(TimerStop(mac, "TxImmediate"))

RxWindow1 ==
  /\ "RxWindow1" \in mac.timers
  /\ mac' = [mac EXCEPT !.timers = (@ \ {"RxWindow1"}) \cup {"RxTimeout"},
                        !.rxSlot = "WIN_1", !.radio = "RX"]

\* The second window is timed after the first.
RxWindow2 ==
  /\ "RxWindow2" \in mac.timers /\ "RxWindow1" \notin mac.timers
  /\ mac' = OpenRx2(mac)

\* The ACK is timed after both windows have opened.  The handler looks at no
\* reception: a frame of more than about two seconds that began in the first
\* window is still being received when the time-out elapses in class C.
\* ShortAnswers assumes that there is none (in class A the time-out may fall
\* into a reception here, and only asks for another trial).
AckTimeout ==
  /\ "AckTimeout" \in mac.timers
  /\ mac.timers \cap {"RxWindow1", "RxWindow2"} = {}
  /\ ShortAnswers /\ mac.class = "C" => mac.radio # "RX"
  /\ mac' = OnAckTimeout(mac)

-----------------------------------------------------------------------------
(* Radio events: the interrupt, or the time-out of the radio driver. *)

CadDone(busy) ==
  LET m1 == Sleep(Clear(TimerStop(mac, "CadTimeout"), {"CAD_RUNNING"}))
  IN
  /\ mac.radio = "CAD" \/ ("CadTimeout" \in mac.timers /\ ~busy)
  /\ mac' = IF busy /\ mac.cadCnt < CadMax
              THEN TimerStart(Raise([m1 EXCEPT !.cadCnt = @ + 1],
                                    {"TX_DELAYED"}), "TxDelayed")
              ELSE TimerStart(Raise([m1 EXCEPT !.cadCnt = 1],
                                    {"TX_RUNNING"}), "TxImmediate")

TxDone ==
  LET m1 == [Sleep(TimerStop(mac, "TxTimeout")) EXCEPT
               !.timers = @ \cup {"RxWindow1"}
                            \cup (IF mac.class = "C" THEN {}
                                  ELSE {"RxWindow2"})
                            \cup (IF mac.class = "C" \/ mac.nodeAck
                                  THEN {"AckTimeout"} ELSE {})]
      m2 == IF mac.class = "C" THEN OpenContinuousRx2Window(m1) ELSE m1
  IN
  /\ mac.radio = "TX"
  /\ mac' = IF mac.nodeAck THEN m2
            ELSE [m2 EXCEPT !.mcps.Status = "OK",
                            !.nbRep = Least(@ + 1, ChannelsNbRep)]

TxTimeout ==
  LET m1 == Sleep(TimerStop(mac, "TxTimeout"))
      m2 == IF mac.class = "C" THEN OpenContinuousRx2Window(m1) ELSE m1
      m3 == SetStatusCmn([m2 EXCEPT !.mcps.Status = "TX_TIMEOUT"],
                         "TX_TIMEOUT")
  IN
  /\ "TxTimeout" \in mac.timers
  /\ TxMayTimeOut \/ mac.radio # "TX"
  /\ mac' = Mark(m3, {"MacDone"})

\* A response to an uplink comes when the first window opens, or later.
Expecting ==
  /\ "RxWindow1" \notin mac.timers
  /\ mac.timers \cap {"RxWindow2", "RxTimeout", "AckTimeout"} # {}

Receiving == mac.radio \in {"RX", "RXC"}

\* Data frames come from a session; an ACK answers a confirmed uplink that was
\* sent, and with ServerAcks every data frame of the windows answers it (and
\* no proprietary frame takes its place).
RxDone(f) ==
  /\ Receiving
  /\ QuietChannel => Expecting /\ (mac.class = "C" => f.kind = "data")
  /\ f.kind = "data" =>
       /\ mac.joined
       /\ f.ack => mac.mcps.Request = "CONFIRMED" /\ mac.sent > 0
       /\ ServerAcks /\ mac.nodeAck => f.ack
  /\ f.kind = "proprietary" => ~(ServerAcks /\ mac.nodeAck)
  /\ mac' = ReceiveFrame(TimerStop(mac, "RxTimeout"), f)

\* The time of the second window has come if its timer has expired, and may
\* have although the timer's callback has not run yet.
RxError(late) ==
  /\ Receiving
  /\ late \/ "RxWindow2" \in mac.timers
  /\ mac' = EndWindow(mac, late)

RxTimeout(late) ==
  /\ mac.radio = "RX" \/ "RxTimeout" \in mac.timers
  /\ late \/ "RxWindow2" \in mac.timers
  /\ mac' = EndWindow(mac, late)

-----------------------------------------------------------------------------
Request ==
  \/ \E type \in Uplinks, out \in Outcomes : McpsRequest(type, out)
  \/ \E out \in Outcomes \ {"LENGTH"} : Join(out)
  \/ \E fits \in BOOLEAN : LinkCheck(fits)
  \/ \E class \in Classes : SwitchClass(class)

Timer ==
  \/ \E out \in Outcomes : MacStateCheck(out) \/ TxDelayed(out)
  \/ TxImmediate \/ RxWindow1 \/ RxWindow2 \/ AckTimeout

RadioEvent ==
  \/ \E busy \in BOOLEAN : CadDone(busy)
  \/ TxDone \/ TxTimeout
  \/ \E f \in Downlinks : RxDone(f)
  \/ \E late \in BOOLEAN : RxError(late) \/ RxTimeout(late)

Next == Request \/ Timer \/ RadioEvent

Spec == Init /\ [][Next]_mac

\* Timers expire and the radio completes what it was asked; a channel is not
\* denied by its duty cycle for ever.  Requests and frames are not owed.
FairSpec ==
  /\ Spec
  /\ WF_mac(\E out \in Outcomes : MacStateCheck(out))
  /\ WF_mac(\E out \in Outcomes : TxDelayed(out))
  /\ SF_mac(TxDelayed("CAD"))
  /\ WF_mac(TxImmediate)
  /\ WF_mac(RxWindow1) /\ WF_mac(RxWindow2) /\ WF_mac(AckTimeout)
  /\ WF_mac(\E busy \in BOOLEAN : CadDone(busy))
  /\ WF_mac(TxDone \/ TxTimeout)
  /\ WF_mac(\E late \in BOOLEAN : RxTimeout(late))

-----------------------------------------------------------------------------
(* Properties. *)

McpsConfirmed == "McpsReq" \in mac.flags /\ "McpsReq" \notin mac'.flags

\* As long as the MAC is busy or owes a confirm, something will call it: the
\* radio is at work, a timer of the procedure runs, or the procedure is done
\* and the state check is about to see it.
ProcedureIsDriven ==
  mac.state # {} \/ "McpsReq" \in mac.flags =>
    \/ mac.radio \in {"CAD", "TX", "RX"}
    \/ mac.timers \ {"MacStateCheck"} # {}
    \/ "MacDone" \in mac.flags /\ "MacStateCheck" \in mac.timers

\* "Procedure is completed when the AckTimeoutTimer is not running anymore"
\* (OnRadioRxDone): when the windows of an uplink in the air are over and that
\* timer has stopped, the state check finds the procedure done.
CompletedAfterAckTimeout ==
  "TX_RUNNING" \in mac.state /\ mac.radio = "SLEEP"
    /\ mac.timers \subseteq {"MacStateCheck"} => "MacDone" \in mac.flags

\* When LoRaMacState is idle, nothing of an uplink is left over: no frame is
\* on its way to the radio.
IdleIsQuiet ==
  mac.state = {} =>
    /\ mac.radio \notin {"CAD", "TX"}
    /\ mac.timers \cap {"TxDelayed", "TxImmediate", "CadTimeout"} = {}

\* The uplink is confirmed only after its reception windows.
ConfirmedAfterWindows ==
  [][McpsConfirmed =>
       /\ mac.radio \notin {"CAD", "TX", "RX"}
       /\ mac.timers \cap {"RxWindow1", "RxWindow2", "TxDelayed"} = {}]_mac

\* An uplink is sent at most as often as its request and the network allow.
TransmissionsBounded ==
  "McpsReq" \in mac.flags =>
    mac.sent <= IF mac.mcps.Request = "CONFIRMED" THEN mac.ackMax
                                                  ELSE ChannelsNbRep

\* No two data frames of a session are sent with the same UpLinkCounter.
CounterNotReused == mac.radio = "TX" => mac.frame # "REUSED"

\* The confirm tells whether the ACK was heard.
AckIsReported ==
  [][McpsConfirmed /\ mac.mcps.Request = "CONFIRMED" =>
       mac'.mcps.AckReceived = mac.heardAck]_mac

\* The confirm of a join request tells whether the device has joined.
JoinIsReported ==
  [][\A i \in DOMAIN mac.queue :
       mac.queue[i].Request = "JOIN" /\ ~IsQueued(mac'.queue, "JOIN") =>
         (mac.queue[i].Status = "OK" <=> mac.joined)]_mac

\* The radio is not put to CAD while it transmits.
TransmissionNotCut == [][mac.radio = "TX" => mac'.radio # "CAD"]_mac

\* Every uplink that was accepted is confirmed.
UplinkConfirmed == "McpsReq" \in mac.flags ~> "McpsReq" \notin mac.flags

\* Every join request that was accepted is confirmed.
JoinConfirmed == IsQueued(mac.queue, "JOIN") ~> ~IsQueued(mac.queue, "JOIN")
=============================================================================
