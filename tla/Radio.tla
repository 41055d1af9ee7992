------------------------------- MODULE Radio -------------------------------
(***************************************************************************)
(* The radio driver: radio.c over sx126x.c, sx1262-board.c and spi.c.       *)
(* Three threads enter it without a lock: the one that starts an operation  *)
(* (main, or a timer callback of the MAC), the GPIO thread that serves DIO1 *)
(* (RadioIrqProcess), and the timer thread with the driver's own timeouts.  *)
(* The chip is external: it may answer an operation or never answer.  The   *)
(* MAC starts an operation when it is owed no report (module LoRaMac).      *)
(***************************************************************************)
EXTENDS Integers

CONSTANTS
  Sizes                       \* of frames handed to RadioSend

(* The size is a uint8_t.                                                   *)
ASSUME SizeAssumption == Sizes \subseteq 0 .. 255

IRQ_TX_DONE == "TX_DONE"
IRQ_RX_DONE == "RX_DONE"
IRQ_CRC_ERROR == "CRC_ERROR"
IRQ_CAD_DONE == "CAD_DONE"
IRQ_RX_TX_TIMEOUT == "RX_TX_TIMEOUT"

Modes == {"MODE_SLEEP", "MODE_STDBY_RC", "MODE_TX", "MODE_RX", "MODE_CAD"}

(* Operations, by what the MAC is owed.  "listen" is a reception without    *)
(* timer: class C, or the carrier sense of RadioIsChannelFree.              *)
Reported == {"tx", "rx", "cad", "cw"}
Operations == Reported \cup {"listen"}

VARIABLES
  OperatingMode,              \* what the driver believes
  chip,                       \* what the chip does, its interrupts, its buffer
  edge,                       \* the GPIO thread has an edge of DIO1 to look at
  timers,                     \* TxTimeoutTimer, RxTimeoutTimer, CadTimeoutTimer
  starting,                   \* the operation being started, and how far
  handler,                    \* RadioIrqProcess: its place, and irqRegs
  owed,                       \* history: the operation not yet reported
  surplus,                    \* history: a report of nothing started, by no race
  raced                       \* history: two threads met on one operation
vars == <<OperatingMode, chip, edge, timers, starting, handler, owed, surplus, raced>>

-----------------------------------------------------------------------------
(* sx126x.c.                                                                *)

(* SX126xCheckDeviceReady wakes the chip up if the driver believes that it  *)
(* sleeps.  A command to a chip that sleeps otherwise is lost.              *)
Heard == chip.mode = "sleep" => OperatingMode = "MODE_SLEEP"

\* Faulty: the length does not wrap.
BytesWrittenAll(size) == size + 2

\* Faulty: the two bytes of the command are not counted.
BytesWrittenShort(size) == IF size > 2 THEN size - 2 ELSE 0

(* SX126xWriteBuffer sends two bytes and the frame; spi_write takes the     *)
(* length in a uint8_t.                                                     *)
BytesWritten(size) ==
  LET length == (size + 2) % 256 IN IF length > 2 THEN length - 2 ELSE 0

(* RadioGetStatus: MODE_CAD is none of its cases.                           *)
RadioGetStatus ==
  CASE OperatingMode = "MODE_TX" -> "RF_TX_RUNNING"
    [] OperatingMode = "MODE_RX" -> "RF_RX_RUNNING"
    [] OperatingMode \notin {"MODE_TX", "MODE_RX"} -> "RF_IDLE"

TimerOf(op) == CASE op = "tx" -> {"TxTimeoutTimer"}
                 [] op \in {"rx", "cw"} -> {"RxTimeoutTimer"}
                 [] op = "cad" -> {"CadTimeoutTimer"}
                 [] op = "listen" -> {}

-----------------------------------------------------------------------------
(* Reports: the callbacks of RadioEvents.                                   *)

Answers(report, op) ==
  CASE report \in {"TxDone", "TxTimeout"} -> op = "tx"
    [] report \in {"RxDone", "RxError"}   -> op \in {"rx", "listen"}
    [] report = "RxTimeout"               -> op \in {"rx", "cw"}
    [] report = "CadDone"                 -> op = "cad"

Report(report) ==
  /\ owed' = IF Answers(report, owed) THEN "none" ELSE owed
  /\ surplus' = (surplus \/ ~(raced' \/ Answers(report, owed)))

Quiet == starting.op = "none" /\ handler.at = "epoll_wait" /\ chip.irq = {} /\ ~edge

-----------------------------------------------------------------------------
(* Starting an operation.                                                   *)

NotStarting == [op |-> "none", step |-> "none"]

Interrupts(op) == IF op = "listen" THEN "rx" ELSE op

(* RadioSetTxConfig puts the chip in standby, RadioSetRxConfig only wakes   *)
(* it up, SX126xSetCadParams says that it senses.  A window is not opened   *)
(* while the radio is not idle (RegionRxConfig).                            *)
Configure(op) ==
  /\ starting.op = "none" /\ owed \in {"none", "listen"}
  /\ op \in {"rx", "listen"} => RadioGetStatus = "RF_IDLE"
  /\ starting' = [op |-> op, step |-> "command"]
  /\ owed' = "none"
  /\ raced' = (raced \/ ~Quiet)
  /\ OperatingMode' = CASE op = "tx"  -> "MODE_STDBY_RC"
                        [] op = "cad" -> "MODE_CAD"
                        [] op \notin {"tx", "cad"} -> OperatingMode
  /\ \E size \in Sizes :
       chip' = [chip EXCEPT !.mode = IF op \in {"tx", "cad"} \/ @ = "sleep" THEN "standby" ELSE @,
                            !.mask = Interrupts(op),
                            !.length = IF op = "tx" THEN size ELSE 0,
                            !.written = IF op = "tx" THEN BytesWritten(size) ELSE 0]
  /\ UNCHANGED <<edge, timers, handler, surplus>>

(* The command.  SX126xSetTx and SX126xSetRx set the mode before they look  *)
(* whether the chip sleeps; only RadioRx starts the timer before.           *)
Mode(op) == CASE op = "tx" -> "MODE_TX"
              [] op \in {"rx", "listen"} -> "MODE_RX"
              [] op = "cad" -> "MODE_CAD"
              [] op = "cw" -> OperatingMode

LostInSleep(op) == chip.mode = "sleep" /\ (op \notin {"cad", "cw"} \/ ~Heard)

Command(op) ==
  /\ starting = [op |-> op, step |-> "command"]
  /\ starting' = IF op \in {"rx", "listen"} THEN NotStarting ELSE [op |-> op, step |-> "arm"]
  /\ OperatingMode' = Mode(op)
  /\ chip' = [chip EXCEPT !.mode = IF LostInSleep(op) THEN "standby" ELSE op]
  /\ timers' = IF op = "rx" THEN timers \cup TimerOf(op) ELSE timers
  /\ owed' = op
  /\ UNCHANGED <<edge, handler, surplus, raced>>

\* Faulty: RadioSend leaves the timer to the chip.
ArmUnlessSending(op) ==
  /\ starting = [op |-> op, step |-> "arm"]
  /\ starting' = NotStarting
  /\ timers' = IF op = "tx" THEN timers ELSE timers \cup TimerOf(op)
  /\ UNCHANGED <<OperatingMode, chip, edge, handler, owed, surplus, raced>>

(* TimerStart, once the command has been sent.                              *)
Arm(op) ==
  /\ starting = [op |-> op, step |-> "arm"]
  /\ starting' = NotStarting
  /\ timers' = timers \cup TimerOf(op)
  /\ UNCHANGED <<OperatingMode, chip, edge, handler, owed, surplus, raced>>

Start(op) == Configure(op) \/ Command(op) \/ Arm(op)

(* RadioSleep and RadioStandby, between two operations or to end a          *)
(* reception without timer.                                                 *)
Rest(mode, chipMode) ==
  /\ starting.op = "none" /\ owed \in {"none", "listen"}
  /\ owed' = "none"
  /\ raced' = (raced \/ ~Quiet)
  /\ OperatingMode' = mode
  /\ chip' = [chip EXCEPT !.mode = chipMode]
  /\ UNCHANGED <<edge, timers, starting, handler, surplus>>

RadioSleep == Rest("MODE_SLEEP", "sleep")
RadioStandby == Rest("MODE_STDBY_RC", "standby")

-----------------------------------------------------------------------------
(* The chip raises the interrupts of its mask; DIO1 rises with the first.   *)

Outcomes(op) == CASE op = "tx"     -> {{IRQ_TX_DONE}}
                  [] op = "rx"     -> {{IRQ_RX_DONE}, {IRQ_RX_DONE, IRQ_CRC_ERROR}, {IRQ_RX_TX_TIMEOUT}}
                  [] op = "listen" -> {{IRQ_RX_DONE}, {IRQ_RX_DONE, IRQ_CRC_ERROR}}
                  [] op = "cad"    -> {{IRQ_CAD_DONE}}

ChipAnswers ==
  /\ chip.mode \in {"tx", "rx", "listen", "cad"} /\ chip.mask = Interrupts(chip.mode)
  /\ \E irqs \in Outcomes(chip.mode) :
       chip' = [chip EXCEPT !.irq = @ \cup irqs,
                            !.mode = IF @ = "listen" THEN @ ELSE "standby"]
  /\ edge' = (edge \/ chip.irq = {})
  /\ raced' = (raced \/ owed # chip.mode \/ ~(chip.irq = {} /\ handler.at = "epoll_wait"))
  /\ UNCHANGED <<OperatingMode, timers, starting, handler, owed, surplus>>

-----------------------------------------------------------------------------
(* The GPIO thread: Call_interrupt_handler and RadioIrqProcess.             *)

(* An edge is served if the line is still high when it is read.             *)
RadioOnDioIrq ==
  /\ handler.at = "epoll_wait" /\ edge
  /\ edge' = FALSE
  /\ handler' = IF chip.irq = {} THEN handler ELSE [at |-> "status", irq |-> {}]
  /\ raced' = (raced \/ starting.op # "none")
  /\ UNCHANGED <<OperatingMode, chip, timers, starting, owed, surplus>>

(* SX126xGetIrqStatus reads nothing from a chip that does not hear.         *)
GetIrqStatus ==
  /\ handler.at = "status"
  /\ handler' = [at |-> "clear", irq |-> IF Heard THEN chip.irq ELSE {}]
  /\ chip' = [chip EXCEPT !.mode = IF @ = "sleep" THEN "standby" ELSE @]
  /\ UNCHANGED <<OperatingMode, edge, timers, starting, owed, surplus, raced>>

(* SX126xClearIrqStatus clears what has come since as well.                 *)
ClearIrqStatus ==
  /\ handler.at = "clear"
  /\ handler' = [handler EXCEPT !.at = "process"]
  /\ chip' = [chip EXCEPT !.mode = IF @ = "sleep" THEN "standby" ELSE @,
                          !.irq = IF Heard THEN {} ELSE @]
  /\ UNCHANGED <<OperatingMode, edge, timers, starting, owed, surplus, raced>>

Processing(irq) == handler.at = "process" /\ irq \in handler.irq
Done(irq) == handler' = [handler EXCEPT !.irq = @ \ {irq}]

TxDone ==
  /\ Processing(IRQ_TX_DONE)
  /\ timers' = timers \ {"TxTimeoutTimer"}
  /\ OperatingMode' = "MODE_SLEEP"
  /\ UNCHANGED raced
  /\ Report("TxDone")
  /\ Done(IRQ_TX_DONE)
  /\ UNCHANGED <<chip, edge, starting>>

(* The timer is stopped, the payload read and the chip put to sleep; the    *)
(* report is the next step.                                                 *)
RxDone ==
  /\ Processing(IRQ_RX_DONE) /\ IRQ_TX_DONE \notin handler.irq
  /\ timers' = timers \ {"RxTimeoutTimer"}
  /\ OperatingMode' = "MODE_SLEEP"
  /\ chip' = [chip EXCEPT !.mode = "sleep"]
  /\ handler' = [handler EXCEPT !.at = "received"]
  /\ UNCHANGED <<edge, starting, owed, surplus, raced>>

ReportReception ==
  /\ handler.at = "received"
  /\ UNCHANGED raced
  /\ Report(IF IRQ_CRC_ERROR \in handler.irq THEN "RxError" ELSE "RxDone")
  /\ handler' = [at |-> "process", irq |-> handler.irq \ {IRQ_RX_DONE, IRQ_CRC_ERROR}]
  /\ UNCHANGED <<OperatingMode, chip, edge, timers, starting>>

\* Faulty: the timer runs on.
CadDoneTimed ==
  /\ Processing(IRQ_CAD_DONE) /\ handler.irq \cap {IRQ_TX_DONE, IRQ_RX_DONE} = {}
  /\ UNCHANGED raced
  /\ Report("CadDone")
  /\ Done(IRQ_CAD_DONE)
  /\ UNCHANGED <<OperatingMode, chip, edge, timers, starting>>

CadDone ==
  /\ Processing(IRQ_CAD_DONE) /\ handler.irq \cap {IRQ_TX_DONE, IRQ_RX_DONE} = {}
  /\ timers' = timers \ {"CadTimeoutTimer"}
  /\ UNCHANGED raced
  /\ Report("CadDone")
  /\ Done(IRQ_CAD_DONE)
  /\ UNCHANGED <<OperatingMode, chip, edge, starting>>

(* IRQ_RX_TX_TIMEOUT says what has timed out only by the mode the driver    *)
(* believes in when it looks; in another mode it is dropped.                *)
RxTxTimeout ==
  /\ Processing(IRQ_RX_TX_TIMEOUT) /\ handler.irq = {IRQ_RX_TX_TIMEOUT}
  /\ Done(IRQ_RX_TX_TIMEOUT)
  /\ UNCHANGED raced
  /\ \/ /\ OperatingMode = "MODE_TX"
        /\ timers' = timers \ {"TxTimeoutTimer"}
        /\ OperatingMode' = "MODE_SLEEP"
        /\ Report("TxTimeout")
     \/ /\ OperatingMode = "MODE_RX"
        /\ timers' = timers \ {"RxTimeoutTimer"}
        /\ OperatingMode' = "MODE_SLEEP"
        /\ Report("RxTimeout")
     \/ /\ OperatingMode \notin {"MODE_TX", "MODE_RX"}
        /\ UNCHANGED <<timers, OperatingMode, owed, surplus>>
  /\ UNCHANGED <<chip, edge, starting>>

RadioIrqReturns ==
  /\ handler.at = "process" /\ handler.irq = {}
  /\ handler' = [at |-> "epoll_wait", irq |-> {}]
  /\ UNCHANGED <<OperatingMode, chip, edge, timers, starting, owed, surplus, raced>>

GpioThread == \/ RadioOnDioIrq \/ GetIrqStatus \/ ClearIrqStatus \/ TxDone \/ RxDone
              \/ ReportReception \/ CadDone \/ RxTxTimeout \/ RadioIrqReturns

-----------------------------------------------------------------------------
(* The timer thread: RadioOnTxTimeoutIrq, RadioOnRxTimeoutIrq and           *)
(* RadioOnCadTimeoutIrq.                                                    *)

Timeout(timer, report) ==
  /\ timer \in timers
  /\ timers' = timers \ {timer}
  /\ OperatingMode' = "MODE_SLEEP"
  /\ raced' = (raced \/ ~Quiet)
  /\ Report(report)
  /\ UNCHANGED <<chip, edge, starting, handler>>

RadioOnTxTimeoutIrq == Timeout("TxTimeoutTimer", "TxTimeout")
RadioOnRxTimeoutIrq == Timeout("RxTimeoutTimer", "RxTimeout")
RadioOnCadTimeoutIrq == Timeout("CadTimeoutTimer", "CadDone")

-----------------------------------------------------------------------------
Init ==
  /\ OperatingMode = "MODE_SLEEP"
  /\ chip = [mode |-> "sleep", mask |-> "none", irq |-> {}, length |-> 0, written |-> 0]
  /\ edge = FALSE
  /\ timers = {}
  /\ starting = NotStarting
  /\ handler = [at |-> "epoll_wait", irq |-> {}]
  /\ owed = "none"
  /\ surplus = FALSE /\ raced = FALSE

Caller == \/ \E op \in Operations : Start(op)
          \/ RadioSleep \/ RadioStandby

Next == Caller \/ ChipAnswers \/ GpioThread
        \/ RadioOnTxTimeoutIrq \/ RadioOnRxTimeoutIrq \/ RadioOnCadTimeoutIrq

(* The thread that starts an operation and the timer thread run on.  The    *)
(* chip need not answer, nor the GPIO thread see an edge.                   *)
Fairness == /\ WF_vars(\E op \in Operations : Command(op) \/ Arm(op))
            /\ WF_vars(RadioOnTxTimeoutIrq) /\ WF_vars(RadioOnRxTimeoutIrq)
            /\ WF_vars(RadioOnCadTimeoutIrq)
            /\ WF_vars(ReportReception)

Spec == Init /\ [][Next]_vars /\ Fairness

-----------------------------------------------------------------------------
TypeOK ==
  /\ OperatingMode \in Modes
  /\ chip.mode \in Operations \cup {"sleep", "standby"}
  /\ chip.mask \in Operations \cup {"none"}
  /\ chip.length \in 0 .. 255 /\ chip.written \in 0 .. 255
  /\ timers \subseteq {"TxTimeoutTimer", "RxTimeoutTimer", "CadTimeoutTimer"}
  /\ handler.at \in {"epoll_wait", "status", "clear", "process", "received"}
  /\ owed \in Operations \cup {"none"}

(* What is on the air is the frame and not a part of it, up to the sizes    *)
(* whose length with the two bytes of the command fits uint8_t              *)
(* (SX126xWriteBuffer, spi_write); from 254 bytes on it is not.             *)
PayloadWhole == chip.mode = "tx" /\ chip.length <= 253 => chip.written = chip.length

(* Every report answers the operation started last, and each operation gets *)
(* one: a second comes only when a timeout, an interrupt and a new start    *)
(* meet on one operation (RadioIrqProcess, the timeout handlers, and the    *)
(* TimerStart after the command in RadioSend and RadioStartCad).            *)
ReportsBelong == ~surplus

(* A transmission, a window and a channel sensing are reported in the end,  *)
(* though the chip does not answer, its edge is lost, or a command reached  *)
(* it in its sleep (the three timeout timers).  A continuous wave is too if *)
(* no thread crosses it: a frame still to be served stops its timer.        *)
Awaited == owed \in {"tx", "rx", "cad"} \/ (owed = "cw" /\ ~raced)
OperationsReported == Awaited ~> ~Awaited

=============================================================================
