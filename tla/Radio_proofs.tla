---------------------------- MODULE Radio_proofs ----------------------------
(***************************************************************************)
(* Proofs about the radio driver, for frames of any size.                   *)
(***************************************************************************)
EXTENDS Radio, TLAPS

(* The fields of the records.                                               *)
Irqs == {IRQ_TX_DONE, IRQ_RX_DONE, IRQ_CRC_ERROR, IRQ_CAD_DONE, IRQ_RX_TX_TIMEOUT}
Chips == [mode : Operations \cup {"sleep", "standby"}, mask : Operations \cup {"none"},
          irq : SUBSET Irqs, length : 0 .. 255, written : 0 .. 255]
Handlers == [at : {"epoll_wait", "status", "clear", "process", "received"}, irq : SUBSET Irqs]
Shapes ==
  /\ chip \in Chips /\ handler \in Handlers
  /\ starting \in [op : Operations \cup {"none"}, step : {"none", "command", "arm"}]
  /\ starting.op = "none" <=> starting.step = "none"
  /\ edge \in BOOLEAN /\ raced \in BOOLEAN /\ surplus \in BOOLEAN

(* What the chip was given of a frame.                                      *)
Loaded == chip.written = BytesWritten(chip.length)

(* What the driver may rely on as long as no two threads met: timers,       *)
(* interrupts and the handler all belong to the operation that is owed.     *)
Expected(irqs) == owed \in {"tx", "rx", "listen", "cad"} /\ irqs \in Outcomes(owed)
InOrder ==
  /\ starting.step = "command" => owed = "none"
  /\ starting.step = "arm" => owed = starting.op
  /\ starting.op # "none" => handler.at = "epoll_wait"
  /\ timers \subseteq (IF owed = "none" THEN {} ELSE TimerOf(owed))
  /\ chip.irq # {} => Expected(chip.irq) /\ handler.at \in {"epoll_wait", "status", "clear"}
  /\ handler.irq # {} => Expected(handler.irq) /\ handler.at \in {"clear", "process", "received"}
  /\ handler.at = "received" => IRQ_RX_DONE \in handler.irq /\ timers = {}
  /\ handler.at = "clear" => chip.mode # "sleep"
  /\ owed = "rx" => OperatingMode # "MODE_TX"

IInv == /\ TypeOK /\ Shapes /\ Loaded
        /\ ~surplus
        /\ raced \/ InOrder

-----------------------------------------------------------------------------
(* Lengths and outcomes.                                                    *)

\* A frame that fits with the two bytes of the command is written whole; in
\* any case what is written fits the chip's buffer.
LEMMA WrittenBytes ==
  ASSUME NEW size \in 0 .. 255
  PROVE  /\ BytesWritten(size) \in 0 .. 255
         /\ size <= 253 => BytesWritten(size) = size
<1>1. (size + 2) % 256 \in 0 .. 255 /\ (size <= 253 => (size + 2) % 256 = size + 2)
  OBVIOUS
<1> QED BY <1>1 DEF BytesWritten

\* What the interrupts of an operation say about it.
LEMMA OutcomesTell ==
  ASSUME NEW op \in {"tx", "rx", "listen", "cad"}, NEW irqs \in Outcomes(op)
  PROVE  /\ irqs \subseteq Irqs /\ irqs # {}
         /\ IRQ_TX_DONE \in irqs => op = "tx" /\ irqs = {IRQ_TX_DONE}
         /\ IRQ_CAD_DONE \in irqs => op = "cad" /\ irqs = {IRQ_CAD_DONE}
         /\ IRQ_RX_TX_TIMEOUT \in irqs => op = "rx" /\ irqs = {IRQ_RX_TX_TIMEOUT}
         /\ IRQ_RX_DONE \in irqs => op \in {"rx", "listen"} /\ irqs \subseteq {IRQ_RX_DONE, IRQ_CRC_ERROR}
         /\ IRQ_CRC_ERROR \in irqs => IRQ_RX_DONE \in irqs
<1> USE DEF Irqs, IRQ_TX_DONE, IRQ_RX_DONE, IRQ_CRC_ERROR, IRQ_CAD_DONE, IRQ_RX_TX_TIMEOUT
<1>1. CASE op = "tx"
  <2>1. irqs = {IRQ_TX_DONE}
    BY <1>1 DEF Outcomes
  <2> QED BY <1>1, <2>1
<1>2. CASE op = "rx"
  <2>1. irqs = {IRQ_RX_DONE} \/ irqs = {IRQ_RX_DONE, IRQ_CRC_ERROR} \/ irqs = {IRQ_RX_TX_TIMEOUT}
    BY <1>2 DEF Outcomes
  <2> QED BY <1>2, <2>1
<1>3. CASE op = "listen"
  <2>1. irqs = {IRQ_RX_DONE} \/ irqs = {IRQ_RX_DONE, IRQ_CRC_ERROR}
    BY <1>3 DEF Outcomes
  <2> QED BY <1>3, <2>1
<1>4. CASE op = "cad"
  <2>1. irqs = {IRQ_CAD_DONE}
    BY <1>4 DEF Outcomes
  <2> QED BY <1>4, <2>1
<1> QED BY <1>1, <1>2, <1>3, <1>4

LEMMA InitEstablishes == Init => IInv
<1> SUFFICES ASSUME Init PROVE IInv
  OBVIOUS
<1>1. BytesWritten(0) = 0
  <2>1. 0 \in 0 .. 255 /\ 0 <= 253
    OBVIOUS
  <2> QED BY <2>1, WrittenBytes
<1>2. TypeOK
  BY DEF Init, TypeOK, Modes, Operations, Reported
<1>3. Shapes
  <2>1. chip \in Chips
    BY DEF Init, Chips, Operations
  <2>2. handler \in Handlers
    BY DEF Init, Handlers
  <2> QED BY <2>1, <2>2 DEF Init, Shapes, NotStarting
<1>4. Loaded /\ ~surplus /\ InOrder
  BY <1>1 DEF Init, Loaded, InOrder, NotStarting
<1> QED BY <1>2, <1>3, <1>4 DEF IInv

-----------------------------------------------------------------------------
(* Types and what the chip was given, action by action.                     *)

Typed == TypeOK /\ Shapes /\ Loaded

\* The reports end the operation that is owed or leave it.
LEMMA ReportTypes ==
  ASSUME NEW report, Typed, raced' \in BOOLEAN, Report(report)
  PROVE  owed' \in Operations \cup {"none"} /\ surplus' \in BOOLEAN
  BY DEF Report, Typed, TypeOK, Shapes

\* Replacing the chip's mode and interrupts leaves a chip, and its buffer.
LEMMA ChipUpdates ==
  ASSUME NEW mode \in Operations \cup {"sleep", "standby"}, NEW irq \in SUBSET Irqs,
         chip \in Chips, Loaded,
         chip' = [chip EXCEPT !.mode = mode, !.irq = irq]
  PROVE  chip' \in Chips /\ Loaded'
<1>1. chip' \in Chips
  BY DEF Chips
<1>2. chip'.written = chip.written /\ chip'.length = chip.length
  BY DEF Chips
<1> QED BY <1>1, <1>2 DEF Loaded

LEMMA ConfigureTypes ==
  ASSUME NEW op \in Operations, Typed, Configure(op)
  PROVE  Typed'
<1> USE DEF Typed
<1>1. PICK size \in Sizes :
        chip' = [chip EXCEPT !.mode = IF op \in {"tx", "cad"} \/ @ = "sleep" THEN "standby" ELSE @,
                             !.mask = Interrupts(op),
                             !.length = IF op = "tx" THEN size ELSE 0,
                             !.written = IF op = "tx" THEN BytesWritten(size) ELSE 0]
  BY DEF Configure
<1>2. size \in 0 .. 255 /\ BytesWritten(size) \in 0 .. 255 /\ BytesWritten(0) = 0
  <2>1. size \in 0 .. 255 /\ 0 \in 0 .. 255 /\ 0 <= 253
    BY SizeAssumption
  <2> QED BY <2>1, WrittenBytes
<1>3. Interrupts(op) \in Operations
  BY DEF Interrupts, Operations, Reported
<1>4. chip' \in Chips /\ Loaded'
  <2> DEFINE length  == IF op = "tx" THEN size ELSE 0
             written == IF op = "tx" THEN BytesWritten(size) ELSE 0
             mode    == IF op \in {"tx", "cad"} \/ chip.mode = "sleep" THEN "standby" ELSE chip.mode
  <2>1. length \in 0 .. 255 /\ written \in 0 .. 255 /\ written = BytesWritten(length)
    BY <1>2
  <2>2. mode \in Operations \cup {"sleep", "standby"}
    BY DEF Shapes, Chips
  <2>3. chip' = [chip EXCEPT !.mode = mode, !.mask = Interrupts(op), !.length = length,
                             !.written = written]
    BY <1>1
  <2> HIDE DEF length, written, mode
  <2>4. chip' \in Chips
    <3> DEFINE mask == Interrupts(op)
    <3>1. chip \in Chips /\ mask \in Operations \cup {"none"}
      BY <1>3 DEF Shapes
    <3>2. chip' = [chip EXCEPT !.mode = mode, !.mask = mask, !.length = length, !.written = written]
      BY <2>3
    <3> HIDE DEF mask
    <3>3. chip' = [mode |-> mode, mask |-> mask, irq |-> chip.irq, length |-> length,
                   written |-> written]
      BY ONLY <3>1, <3>2 DEF Chips
    <3>4. chip.irq \in SUBSET Irqs
      BY ONLY <3>1 DEF Chips
    <3> QED BY ONLY <2>1, <2>2, <3>1, <3>3, <3>4 DEF Chips
  <2>5. chip'.length = length /\ chip'.written = written
    BY <2>3 DEF Shapes, Chips
  <2> QED BY <2>1, <2>4, <2>5 DEF Loaded
<1>5. OperatingMode' \in Modes
  BY DEF Configure, TypeOK, Modes
<1>6. /\ starting' = [op |-> op, step |-> "command"] /\ owed' = "none"
      /\ raced' \in BOOLEAN /\ UNCHANGED <<edge, timers, handler, surplus>>
  BY DEF Configure, Shapes
<1>7. TypeOK'
  BY <1>4, <1>5, <1>6 DEF TypeOK, Chips, Handlers
<1>8. Shapes'
  BY <1>4, <1>6 DEF Shapes, Operations, Reported
<1> QED BY <1>4, <1>7, <1>8

LEMMA CommandTypes ==
  ASSUME NEW op \in Operations, Typed, Command(op)
  PROVE  Typed'
<1> USE DEF Typed
<1>1. chip' \in Chips /\ Loaded'
  BY DEF Command, Shapes, Loaded, Chips
<1>2. OperatingMode' \in Modes
  BY DEF Command, Mode, TypeOK, Modes, Operations, Reported
<1>3. starting' \in [op : Operations \cup {"none"}, step : {"none", "command", "arm"}]
      /\ (starting'.op = "none" <=> starting'.step = "none")
  BY DEF Command, NotStarting, Operations, Reported
<1>4. timers' \subseteq {"TxTimeoutTimer", "RxTimeoutTimer", "CadTimeoutTimer"}
  BY DEF Command, TimerOf, TypeOK
<1>5. owed' = op /\ UNCHANGED <<edge, handler, surplus, raced>>
  BY DEF Command
<1>6. TypeOK'
  BY <1>1, <1>2, <1>4, <1>5 DEF TypeOK, Chips, Handlers
<1>7. Shapes'
  BY <1>1, <1>3, <1>5 DEF Shapes
<1> QED BY <1>1, <1>6, <1>7

LEMMA ArmTypes ==
  ASSUME NEW op \in Operations, Typed, Arm(op)
  PROVE  Typed'
<1> USE DEF Typed
<1>1. TimerOf(op) \subseteq {"TxTimeoutTimer", "RxTimeoutTimer", "CadTimeoutTimer"}
  BY DEF TimerOf, Operations, Reported
<1>2. TypeOK'
  BY <1>1 DEF Arm, TypeOK, Chips, Handlers
<1>3. Shapes' /\ Loaded'
  BY DEF Arm, Shapes, Loaded, NotStarting
<1> QED BY <1>2, <1>3

LEMMA RestTypes ==
  ASSUME Typed, RadioSleep \/ RadioStandby
  PROVE  Typed'
<1> USE DEF Typed
<1>1. PICK mode \in {"MODE_SLEEP", "MODE_STDBY_RC"}, chipMode \in {"sleep", "standby"} :
        Rest(mode, chipMode)
  BY DEF RadioSleep, RadioStandby
<1>2. chip' \in Chips /\ Loaded'
  BY <1>1 DEF Rest, Shapes, Loaded, Chips
<1>3. TypeOK'
  BY <1>1, <1>2 DEF Rest, TypeOK, Chips, Handlers, Modes
<1>4. Shapes'
  BY <1>1, <1>2 DEF Rest, Shapes
<1> QED BY <1>2, <1>3, <1>4

LEMMA ChipTypes ==
  ASSUME Typed, ChipAnswers
  PROVE  Typed'
<1> USE DEF Typed
<1>1. PICK irqs \in Outcomes(chip.mode) :
        chip' = [chip EXCEPT !.irq = @ \cup irqs, !.mode = IF @ = "listen" THEN @ ELSE "standby"]
  BY DEF ChipAnswers
<1>2. chip.mode \in {"tx", "rx", "listen", "cad"}
  BY DEF ChipAnswers
<1>3. irqs \subseteq Irqs
  BY <1>2, OutcomesTell
<1>4. chip' \in Chips /\ Loaded'
  <2> DEFINE mode == IF chip.mode = "listen" THEN chip.mode ELSE "standby"
  <2>1. mode \in Operations \cup {"sleep", "standby"} /\ chip.irq \cup irqs \in SUBSET Irqs
    BY <1>3 DEF Shapes, Chips
  <2>2. chip' = [chip EXCEPT !.mode = mode, !.irq = chip.irq \cup irqs]
    BY <1>1 DEF Shapes, Chips
  <2> HIDE DEF mode
  <2> QED BY <2>1, <2>2, ChipUpdates DEF Shapes
<1>5. edge' \in BOOLEAN /\ raced' \in BOOLEAN
      /\ UNCHANGED <<OperatingMode, timers, starting, handler, owed, surplus>>
  BY DEF ChipAnswers, Shapes
<1>6. TypeOK'
  BY <1>4, <1>5 DEF TypeOK, Chips, Handlers
<1>7. Shapes'
  BY <1>4, <1>5 DEF Shapes
<1> QED BY <1>4, <1>6, <1>7

LEMMA HandlerTypes ==
  ASSUME Typed, RadioOnDioIrq \/ GetIrqStatus \/ ClearIrqStatus \/ RadioIrqReturns
  PROVE  Typed'
<1> USE DEF Typed
<1>1. chip' \in Chips /\ Loaded'
  <2>1. CASE RadioOnDioIrq \/ RadioIrqReturns
    BY <2>1 DEF RadioOnDioIrq, RadioIrqReturns, Shapes, Loaded
  <2>2. CASE GetIrqStatus
    BY <2>2 DEF GetIrqStatus, Shapes, Loaded, Chips
  <2>3. CASE ClearIrqStatus
    <3> DEFINE mode == IF chip.mode = "sleep" THEN "standby" ELSE chip.mode
               irq  == IF Heard THEN {} ELSE chip.irq
    <3>1. mode \in Operations \cup {"sleep", "standby"} /\ irq \in SUBSET Irqs
      BY DEF Shapes, Chips
    <3>2. chip' = [chip EXCEPT !.mode = mode, !.irq = irq]
      BY <2>3 DEF ClearIrqStatus
    <3> HIDE DEF mode, irq
    <3> QED BY <3>1, <3>2, ChipUpdates DEF Shapes
  <2> QED BY <2>1, <2>2, <2>3
<1>2. handler' \in Handlers
  BY DEF RadioOnDioIrq, GetIrqStatus, ClearIrqStatus, RadioIrqReturns, Shapes, Handlers, Chips
<1>3. edge' \in BOOLEAN /\ raced' \in BOOLEAN
      /\ UNCHANGED <<OperatingMode, timers, starting, owed, surplus>>
  BY DEF RadioOnDioIrq, GetIrqStatus, ClearIrqStatus, RadioIrqReturns, Shapes
<1>4. TypeOK'
  BY <1>1, <1>2, <1>3 DEF TypeOK, Chips, Handlers
<1>5. Shapes'
  BY <1>1, <1>2, <1>3 DEF Shapes, Handlers
<1> QED BY <1>1, <1>4, <1>5

LEMMA BranchTypes ==
  ASSUME Typed, TxDone \/ RxDone \/ ReportReception \/ CadDone \/ RxTxTimeout
  PROVE  Typed'
<1> USE DEF Typed
<1>1. handler' \in Handlers
  BY DEF TxDone, RxDone, ReportReception, CadDone, RxTxTimeout, Done, Shapes, Handlers
<1>2. OperatingMode' \in Modes
  BY DEF TxDone, RxDone, ReportReception, CadDone, RxTxTimeout, TypeOK, Modes
<1>3. timers' \subseteq {"TxTimeoutTimer", "RxTimeoutTimer", "CadTimeoutTimer"}
  BY DEF TxDone, RxDone, ReportReception, CadDone, RxTxTimeout, TypeOK
<1>4. raced' \in BOOLEAN /\ UNCHANGED <<edge, starting>>
  BY DEF TxDone, RxDone, ReportReception, CadDone, RxTxTimeout, Shapes
<1>5. owed' \in Operations \cup {"none"} /\ surplus' \in BOOLEAN
  <2>1. CASE RxDone
    BY <2>1 DEF RxDone, TypeOK, Shapes
  <2>2. CASE TxDone \/ ReportReception \/ CadDone
    BY <1>4, <2>2, ReportTypes DEF TxDone, ReportReception, CadDone
  <2>3. CASE RxTxTimeout
    BY <1>4, <2>3, ReportTypes DEF RxTxTimeout, TypeOK, Shapes
  <2> QED BY <2>1, <2>2, <2>3
<1>6. chip' \in Chips /\ Loaded'
  <2>1. CASE RxDone
    <3>1. chip' = [chip EXCEPT !.mode = "sleep", !.irq = chip.irq] /\ chip.irq \in SUBSET Irqs
      BY <2>1 DEF RxDone, Shapes, Chips
    <3> QED BY <3>1, ChipUpdates DEF Shapes
  <2>2. CASE TxDone \/ ReportReception \/ CadDone \/ RxTxTimeout
    BY <2>2 DEF TxDone, ReportReception, CadDone, RxTxTimeout, Shapes, Loaded
  <2> QED BY <2>1, <2>2
<1>7. TypeOK'
  BY <1>1, <1>2, <1>3, <1>5, <1>6 DEF TypeOK, Chips, Handlers
<1>8. Shapes'
  BY <1>1, <1>4, <1>5, <1>6 DEF Shapes
<1> QED BY <1>6, <1>7, <1>8

LEMMA TimeoutTypes ==
  ASSUME Typed, NEW timer, NEW report, Timeout(timer, report)
  PROVE  Typed'
<1> USE DEF Typed
<1>1. raced' \in BOOLEAN /\ UNCHANGED <<chip, edge, starting, handler>>
  BY DEF Timeout, Shapes
<1>2. owed' \in Operations \cup {"none"} /\ surplus' \in BOOLEAN
  BY <1>1, ReportTypes DEF Timeout
<1>3. TypeOK'
  BY <1>1, <1>2 DEF Timeout, TypeOK, Modes
<1>4. Shapes' /\ Loaded'
  BY <1>1, <1>2 DEF Shapes, Loaded
<1> QED BY <1>3, <1>4

LEMMA StepTypes == Typed /\ [Next]_vars => Typed'
<1>1. Typed /\ UNCHANGED vars => Typed'
  BY DEF Typed, TypeOK, Shapes, Loaded, vars
<1> QED
  BY <1>1, ConfigureTypes, CommandTypes, ArmTypes, RestTypes, ChipTypes, HandlerTypes,
     BranchTypes, TimeoutTypes
  DEF Next, Caller, Start, GpioThread, RadioOnTxTimeoutIrq, RadioOnRxTimeoutIrq,
      RadioOnCadTimeoutIrq

-----------------------------------------------------------------------------
(* Order: as long as no two threads met, what happens answers what was      *)
(* started.                                                                 *)

Orderly == ~surplus /\ (raced \/ InOrder)

\* A report that answers the operation owed, or comes after threads met, is
\* not one too many.
LEMMA ReportAnswers ==
  ASSUME NEW report, Report(report), Typed, ~surplus, raced' \in BOOLEAN,
         raced' \/ Answers(report, owed)
  PROVE  ~surplus' /\ (Answers(report, owed) => owed' = "none")
  BY DEF Report

\* The three steps of starting an operation, and RadioSleep and RadioStandby.
\* While no thread is met, nothing of an earlier operation is left.
LEMMA StartingInOrder ==
  ASSUME Typed, Orderly, Caller
  PROVE  Orderly'
<1> USE DEF Orderly
<1>1. ASSUME NEW op \in Operations, Configure(op) PROVE Orderly'
  <2>1. ~surplus' /\ raced' = (raced \/ ~Quiet) /\ owed' = "none" /\ op # "none"
    BY <1>1 DEF Configure, Operations, Reported
  <2>2. ASSUME ~raced, Quiet PROVE InOrder'
    <3>1. timers = {} /\ chip.irq = {} /\ handler.at = "epoll_wait" /\ handler.irq = {}
      BY <1>1, <2>2 DEF Configure, Quiet, InOrder, TimerOf
    <3>2. chip'.irq = chip.irq
      BY <1>1 DEF Configure, Typed, Shapes, Chips
    <3>3. /\ timers' = {} /\ handler' = handler
          /\ starting' = [op |-> op, step |-> "command"]
      BY <1>1, <3>1 DEF Configure
    <3> QED BY <2>1, <3>1, <3>2, <3>3 DEF InOrder
  <2> QED BY <2>1, <2>2 DEF Typed, Shapes
<1>2. ASSUME NEW op \in Operations, Command(op) PROVE Orderly'
  <2>1. /\ ~surplus' /\ raced' = raced /\ owed' = op /\ handler' = handler
        /\ op \in {"tx", "rx", "cad", "cw", "listen"}
    BY <1>2 DEF Command, Operations, Reported
  <2>2. ASSUME ~raced PROVE InOrder'
    <3>1. timers = {} /\ chip.irq = {} /\ handler.at = "epoll_wait" /\ handler.irq = {}
      <4>1. starting = [op |-> op, step |-> "command"] /\ op # "none"
        BY <1>2, <2>1 DEF Command
      <4>2. owed = "none" /\ handler.at = "epoll_wait"
        BY <2>2, <4>1 DEF InOrder
      <4> QED BY <2>2, <4>2 DEF InOrder, Expected
    <3>2. chip'.irq = {}
      BY <1>2, <3>1 DEF Command, Typed, Shapes, Chips
    <3>3. timers' \subseteq TimerOf(op)
      BY <1>2, <3>1 DEF Command
    <3>4. starting' = [op |-> op, step |-> "arm"] \/ starting' = NotStarting
      BY <1>2 DEF Command
    <3>5. op = "rx" => OperatingMode' = "MODE_RX"
      BY <1>2 DEF Command, Mode
    <3> QED BY <2>1, <3>1, <3>2, <3>3, <3>4, <3>5 DEF InOrder, NotStarting
  <2> QED BY <2>1, <2>2 DEF Typed, Shapes
<1>3. ASSUME NEW op \in Operations, Arm(op) PROVE Orderly'
  <2>1. /\ ~surplus' /\ UNCHANGED <<raced, owed, handler, chip, OperatingMode>>
        /\ starting = [op |-> op, step |-> "arm"] /\ starting' = NotStarting
        /\ timers' = timers \cup TimerOf(op) /\ op # "none"
    BY <1>3 DEF Arm, Operations, Reported
  <2>2. ASSUME ~raced PROVE InOrder'
    <3>1. owed = op
      BY <2>1, <2>2 DEF InOrder
    <3> QED BY <2>1, <2>2, <3>1 DEF InOrder, NotStarting, Expected
  <2> QED BY <2>1, <2>2 DEF Typed, Shapes
<1>4. CASE RadioSleep \/ RadioStandby
  <2>1. PICK mode, chipMode : Rest(mode, chipMode)
    BY <1>4 DEF RadioSleep, RadioStandby
  <2>2. ~surplus' /\ raced' = (raced \/ ~Quiet) /\ owed' = "none"
    BY <2>1 DEF Rest
  <2>3. ASSUME ~raced, Quiet PROVE InOrder'
    <3>1. timers = {} /\ chip.irq = {} /\ handler.at = "epoll_wait" /\ handler.irq = {}
      BY <2>1, <2>3 DEF Rest, Quiet, InOrder, TimerOf
    <3>2. chip'.irq = {}
      BY <2>1, <3>1 DEF Rest, Typed, Shapes, Chips
    <3>3. UNCHANGED <<timers, starting, handler>> /\ starting.op = "none"
      BY <2>1 DEF Rest
    <3>4. starting.step = "none"
      BY <3>3 DEF Typed, Shapes
    <3> QED BY <2>2, <3>1, <3>2, <3>3, <3>4 DEF InOrder
  <2> QED BY <2>2, <2>3 DEF Typed, Shapes
<1> QED BY <1>1, <1>2, <1>3, <1>4 DEF Caller, Start

\* The chip's answer is expected if it answers what is owed and the last
\* answer has been served.
LEMMA AnswerInOrder ==
  ASSUME Typed, Orderly, ChipAnswers
  PROVE  Orderly'
<1> USE DEF Orderly
<1>1. PICK irqs \in Outcomes(chip.mode) :
        chip' = [chip EXCEPT !.irq = @ \cup irqs, !.mode = IF @ = "listen" THEN @ ELSE "standby"]
  BY DEF ChipAnswers
<1>2. /\ chip.mode \in {"tx", "rx", "listen", "cad"} /\ ~surplus'
      /\ UNCHANGED <<OperatingMode, timers, starting, handler, owed>>
      /\ raced' = (raced \/ owed # chip.mode \/ ~(chip.irq = {} /\ handler.at = "epoll_wait"))
  BY DEF ChipAnswers
<1>3. ASSUME ~raced, owed = chip.mode, chip.irq = {}, handler.at = "epoll_wait"
      PROVE  InOrder'
  <2>1. chip'.irq = irqs
    BY <1>1, <1>3 DEF Typed, Shapes, Chips
  <2>2. Expected(irqs)'
    BY <1>2, <1>3 DEF Expected
  <2> QED BY <1>2, <1>3, <2>1, <2>2 DEF InOrder, Expected
<1> QED BY <1>2, <1>3 DEF Typed, Shapes

\* The handler reads, clears and returns.
LEMMA HandlerInOrder ==
  ASSUME Typed, Orderly, RadioOnDioIrq \/ GetIrqStatus \/ ClearIrqStatus \/ RadioIrqReturns
  PROVE  Orderly'
<1> USE DEF Orderly
<1>1. CASE RadioOnDioIrq
  <2>1. /\ ~surplus' /\ raced' = (raced \/ starting.op # "none")
        /\ UNCHANGED <<OperatingMode, chip, timers, starting, owed>>
        /\ handler.at = "epoll_wait"
        /\ handler' = IF chip.irq = {} THEN handler ELSE [at |-> "status", irq |-> {}]
    BY <1>1 DEF RadioOnDioIrq
  <2>2. ASSUME ~raced, starting.op = "none" PROVE InOrder'
    <3>1. handler.irq = {}
      BY <2>1, <2>2 DEF InOrder
    <3> QED BY <2>1, <2>2, <3>1 DEF InOrder, Expected
  <2> QED BY <2>1, <2>2 DEF Typed, Shapes
<1>2. CASE GetIrqStatus
  <2>1. /\ ~surplus' /\ UNCHANGED <<OperatingMode, timers, starting, owed, raced>>
        /\ handler.at = "status"
        /\ handler' = [at |-> "clear", irq |-> IF Heard THEN chip.irq ELSE {}]
    BY <1>2 DEF GetIrqStatus
  <2>2. chip'.irq = chip.irq /\ chip'.mode # "sleep"
    BY <1>2 DEF GetIrqStatus, Typed, Shapes, Chips
  <2>3. ASSUME ~raced PROVE InOrder'
    BY <2>1, <2>2, <2>3 DEF InOrder, Expected
  <2> QED BY <2>1, <2>3
<1>3. CASE ClearIrqStatus
  <2>1. /\ ~surplus' /\ UNCHANGED <<OperatingMode, timers, starting, owed, raced>>
        /\ handler.at = "clear" /\ handler' = [handler EXCEPT !.at = "process"]
    BY <1>3 DEF ClearIrqStatus
  <2>2. handler'.at = "process" /\ handler'.irq = handler.irq
    BY <2>1 DEF Typed, Shapes, Handlers
  <2>3. ASSUME ~raced PROVE InOrder'
    <3>1. Heard
      BY <2>1, <2>3 DEF InOrder, Heard
    <3>2. chip'.irq = {}
      BY <1>3, <3>1 DEF ClearIrqStatus, Typed, Shapes, Chips
    <3> QED BY <2>1, <2>2, <2>3, <3>2 DEF InOrder, Expected
  <2> QED BY <2>1, <2>3
<1>4. CASE RadioIrqReturns
  <2>1. /\ ~surplus' /\ UNCHANGED <<OperatingMode, chip, timers, starting, owed, raced>>
        /\ handler' = [at |-> "epoll_wait", irq |-> {}]
    BY <1>4 DEF RadioIrqReturns
  <2>2. ASSUME ~raced PROVE InOrder'
    BY <2>1, <2>2 DEF InOrder, Expected
  <2> QED BY <2>1, <2>2
<1> QED BY <1>1, <1>2, <1>3, <1>4

\* The branches of RadioIrqProcess: what is left of irqRegs is expected.
LEMMA BranchInOrder ==
  ASSUME Typed, Orderly, TxDone \/ RxDone \/ ReportReception \/ CadDone \/ RxTxTimeout
  PROVE  Orderly'
<1> USE DEF Orderly
<1>0. raced' = raced /\ raced \in BOOLEAN /\ starting' = starting
  BY DEF TxDone, RxDone, ReportReception, CadDone, RxTxTimeout, Typed, Shapes
<1>1. ASSUME ~raced, NEW irq \in handler.irq
      PROVE  /\ owed \in {"tx", "rx", "listen", "cad"} /\ handler.irq \in Outcomes(owed)
             /\ starting.op = "none" /\ starting.step = "none"
             /\ handler.at \in {"process", "received"} => chip.irq = {}
  BY <1>1 DEF InOrder, Expected, Typed, Shapes
<1>2. ASSUME handler' = [handler EXCEPT !.irq = {}], handler.at = "process"
      PROVE  handler'.at = "process" /\ handler'.irq = {}
  BY <1>2 DEF Typed, Shapes, Handlers
<1>3. CASE TxDone
  <2>1. handler.at = "process" /\ IRQ_TX_DONE \in handler.irq /\ Report("TxDone")
    BY <1>3 DEF TxDone, Processing
  <2>2. ASSUME ~raced PROVE ~surplus' /\ InOrder'
    <3>1. owed = "tx" /\ handler.irq = {IRQ_TX_DONE}
      BY <1>1, <2>1, <2>2, OutcomesTell
    <3>2. ~surplus' /\ owed' = "none"
      BY <1>0, <2>1, <3>1, ReportAnswers DEF Answers
    <3>3. handler' = [handler EXCEPT !.irq = {}]
      BY <1>3, <3>1 DEF TxDone, Done
    <3>4. timers' = {} /\ chip' = chip
      BY <1>3, <2>2, <3>1 DEF TxDone, InOrder, TimerOf
    <3> QED BY <1>0, <1>1, <1>2, <2>1, <2>2, <3>2, <3>3, <3>4 DEF InOrder
  <2> QED BY <1>0, <2>1, <2>2, ReportAnswers
<1>4. CASE RxDone
  <2>1. /\ handler.at = "process" /\ IRQ_RX_DONE \in handler.irq /\ ~surplus' /\ owed' = owed
        /\ handler' = [handler EXCEPT !.at = "received"] /\ OperatingMode' = "MODE_SLEEP"
    BY <1>4 DEF RxDone, Processing
  <2>2. ASSUME ~raced PROVE InOrder'
    <3>1. handler'.at = "received" /\ handler'.irq = handler.irq
      BY <2>1 DEF Typed, Shapes, Handlers
    <3>2. chip'.irq = {}
      BY <1>1, <1>4, <2>1, <2>2 DEF RxDone, Typed, Shapes, Chips
    <3>3. timers' = {}
      <4>1. owed \in {"rx", "listen"}
        BY <1>1, <2>1, <2>2, OutcomesTell
      <4> QED BY <1>4, <2>2, <4>1 DEF RxDone, InOrder, TimerOf
    <3> QED BY <1>0, <1>1, <2>1, <2>2, <3>1, <3>2, <3>3 DEF InOrder, Expected
  <2> QED BY <1>0, <2>1, <2>2
<1>5. CASE ReportReception
  <2>1. /\ handler.at = "received"
        /\ handler' = [at |-> "process", irq |-> handler.irq \ {IRQ_RX_DONE, IRQ_CRC_ERROR}]
        /\ UNCHANGED <<OperatingMode, chip, timers>>
        /\ Report(IF IRQ_CRC_ERROR \in handler.irq THEN "RxError" ELSE "RxDone")
    BY <1>5 DEF ReportReception
  <2>2. ASSUME ~raced PROVE ~surplus' /\ InOrder'
    <3>1. IRQ_RX_DONE \in handler.irq
      BY <2>1, <2>2 DEF InOrder
    <3>2. owed \in {"rx", "listen"} /\ handler.irq \subseteq {IRQ_RX_DONE, IRQ_CRC_ERROR}
      BY <1>1, <2>2, <3>1, OutcomesTell
    <3>3. ~surplus' /\ owed' = "none"
      <4>1. PICK report \in {"RxError", "RxDone"} : Report(report)
        BY <2>1
      <4>2. Answers(report, owed)
        BY <3>2 DEF Answers
      <4> QED BY <1>0, <4>1, <4>2, ReportAnswers
    <3>4. handler'.irq = {} /\ handler'.at = "process"
      BY <2>1, <3>2
    <3>5. timers' = {}
      BY <2>1, <2>2 DEF InOrder
    <3> QED BY <1>0, <1>1, <2>1, <2>2, <3>1, <3>3, <3>4, <3>5 DEF InOrder
  <2> QED BY <1>0, <2>1, <2>2, ReportAnswers
<1>6. CASE CadDone
  <2>1. handler.at = "process" /\ IRQ_CAD_DONE \in handler.irq /\ Report("CadDone")
    BY <1>6 DEF CadDone, Processing
  <2>2. ASSUME ~raced PROVE ~surplus' /\ InOrder'
    <3>1. owed = "cad" /\ handler.irq = {IRQ_CAD_DONE}
      BY <1>1, <2>1, <2>2, OutcomesTell
    <3>2. ~surplus' /\ owed' = "none"
      BY <1>0, <2>1, <3>1, ReportAnswers DEF Answers
    <3>3. handler' = [handler EXCEPT !.irq = {}]
      BY <1>6, <3>1 DEF CadDone, Done
    <3>4. timers' = {} /\ chip' = chip
      BY <1>6, <2>2, <3>1 DEF CadDone, InOrder, TimerOf
    <3> QED BY <1>0, <1>1, <1>2, <2>1, <2>2, <3>2, <3>3, <3>4 DEF InOrder
  <2> QED BY <1>0, <2>1, <2>2, ReportAnswers
<1>7. CASE RxTxTimeout
  <2>1. /\ handler.at = "process" /\ handler.irq = {IRQ_RX_TX_TIMEOUT} /\ chip' = chip
        /\ handler' = [handler EXCEPT !.irq = @ \ {IRQ_RX_TX_TIMEOUT}]
    BY <1>7 DEF RxTxTimeout, Processing, Done
  <2>2. handler'.at = "process" /\ handler'.irq = {}
    BY <2>1 DEF Typed, Shapes, Handlers
  <2>3. ASSUME ~raced PROVE ~surplus' /\ InOrder'
    <3>1. owed = "rx" /\ OperatingMode # "MODE_TX"
      BY <1>1, <2>1, <2>3, OutcomesTell DEF InOrder
    <3>2. CASE OperatingMode = "MODE_RX"
      <4>1. /\ timers' = timers \ {"RxTimeoutTimer"} /\ Report("RxTimeout")
        BY <1>7, <3>2 DEF RxTxTimeout
      <4>2. ~surplus' /\ owed' = "none"
        BY <1>0, <3>1, <4>1, ReportAnswers DEF Answers
      <4>3. timers' = {}
        BY <2>3, <3>1, <4>1 DEF InOrder, TimerOf
      <4> QED BY <1>0, <1>1, <2>1, <2>2, <2>3, <4>2, <4>3 DEF InOrder
    <3>3. CASE OperatingMode # "MODE_RX"
      <4>1. UNCHANGED <<timers, OperatingMode, owed, surplus>>
        BY <1>7, <3>1, <3>3 DEF RxTxTimeout
      <4> QED BY <1>0, <1>1, <2>1, <2>2, <2>3, <4>1 DEF InOrder
    <3> QED BY <3>2, <3>3
  <2>4. ASSUME raced PROVE ~surplus'
    BY <1>0, <1>7, <2>4, ReportAnswers DEF RxTxTimeout
  <2> QED BY <1>0, <2>3, <2>4
<1> QED BY <1>3, <1>4, <1>5, <1>6, <1>7

\* A time-out of the driver, met by no other thread, is that of the operation
\* owed.
LEMMA TimeoutInOrder ==
  ASSUME Typed, Orderly,
         RadioOnTxTimeoutIrq \/ RadioOnRxTimeoutIrq \/ RadioOnCadTimeoutIrq
  PROVE  Orderly'
<1> USE DEF Orderly
<1>1. PICK timer, report :
        /\ Timeout(timer, report)
        /\ <<timer, report>> \in {<<"TxTimeoutTimer", "TxTimeout">>, <<"RxTimeoutTimer", "RxTimeout">>,
                                  <<"CadTimeoutTimer", "CadDone">>}
  BY DEF RadioOnTxTimeoutIrq, RadioOnRxTimeoutIrq, RadioOnCadTimeoutIrq
<1>2. /\ timer \in timers /\ timers' = timers \ {timer} /\ raced' = (raced \/ ~Quiet)
      /\ Report(report) /\ UNCHANGED <<chip, edge, starting, handler>>
  BY <1>1 DEF Timeout
<1>3. raced' \in BOOLEAN /\ raced \in BOOLEAN
  BY <1>2 DEF Typed, Shapes
<1>4. ASSUME ~raced, Quiet PROVE ~surplus' /\ InOrder'
  <2>1. starting.op = "none" /\ starting.step = "none" /\ handler.at = "epoll_wait"
        /\ chip.irq = {} /\ handler.irq = {}
    BY <1>4 DEF Quiet, InOrder, Typed, Shapes
  <2>2. owed \in {"tx", "rx", "cad", "cw"} /\ timer \in TimerOf(owed)
    BY <1>2, <1>4 DEF InOrder, TimerOf, Typed, TypeOK, Operations, Reported
  <2>3. Answers(report, owed) /\ timers' = {}
    <3>1. CASE owed = "tx"
      BY <1>1, <1>2, <1>4, <2>2, <3>1 DEF TimerOf, Answers, InOrder
    <3>2. CASE owed \in {"rx", "cw"}
      BY <1>1, <1>2, <1>4, <2>2, <3>2 DEF TimerOf, Answers, InOrder
    <3>3. CASE owed = "cad"
      BY <1>1, <1>2, <1>4, <2>2, <3>3 DEF TimerOf, Answers, InOrder
    <3> QED BY <2>2, <3>1, <3>2, <3>3
  <2>4. ~surplus' /\ owed' = "none"
    BY <1>2, <1>3, <2>3, ReportAnswers
  <2> QED BY <1>2, <2>1, <2>3, <2>4 DEF InOrder
<1>5. ASSUME raced' PROVE ~surplus'
  BY <1>2, <1>3, <1>5, ReportAnswers
<1> QED BY <1>2, <1>3, <1>4, <1>5

-----------------------------------------------------------------------------
\* The invariant holds in every state.
LEMMA Invariance == Spec => []IInv
<1>1. IInv /\ [Next]_vars => IInv'
  <2> SUFFICES ASSUME IInv, [Next]_vars PROVE IInv'
    OBVIOUS
  <2>1. Typed /\ Orderly
    BY DEF IInv, Typed, Orderly
  <2>2. Typed'
    BY <2>1, StepTypes
  <2>3. Orderly'
    <3>1. CASE UNCHANGED vars
      BY <2>1, <3>1 DEF Orderly, InOrder, Expected, vars
    <3>2. CASE Next
      BY <2>1, <3>2, StartingInOrder, AnswerInOrder, HandlerInOrder, BranchInOrder, TimeoutInOrder
      DEF Next, GpioThread
    <3> QED BY <3>1, <3>2
  <2> QED BY <2>2, <2>3 DEF IInv, Typed, Orderly
<1> QED BY InitEstablishes, <1>1, PTL DEF Spec

\* The driver's variables and the chip keep their types.
THEOREM TypesKept == Spec => []TypeOK
<1>1. IInv => TypeOK
  BY DEF IInv
<1> QED BY <1>1, Invariance, PTL

\* Every frame whose length with the command fits eight bits is on the air as
\* it was handed over, whatever was started, interrupted or left before.
THEOREM FramesSentWhole == Spec => []PayloadWhole
<1>1. IInv => PayloadWhole
  BY WrittenBytes DEF IInv, Shapes, Chips, Loaded, PayloadWhole
<1> QED BY <1>1, Invariance, PTL

\* No operation is reported twice, and none that was not started, as long as
\* no two threads met on one operation.
THEOREM NoSurplusReport == Spec => []ReportsBelong
<1>1. IInv => ReportsBelong
  BY DEF IInv, ReportsBelong
<1> QED BY <1>1, Invariance, PTL

=============================================================================
