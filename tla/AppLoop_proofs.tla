--------------------------- MODULE AppLoop_proofs ---------------------------
(***************************************************************************)
(* Proofs about the application, for every configuration that fits its      *)
(* buffers: any set of channel ranges, of results of the pipe and of texts. *)
(***************************************************************************)
EXTENDS AppLoop, TLAPS

(* TypeOK is not inductive: it says neither which fields the records have   *)
(* that callbacks change one by one, nor which source of data, and so which *)
(* frame, the configuration selects.                                        *)
Shapes ==
  /\ main \in [pc : {"config", "loop", "prepare", "send", "answered", "refused", "write",
                     "exited"},
               next : States \cup {"none"}, touched : BOOLEAN]
  /\ mac \in [joined : BOOLEAN, busy : {"none", "join", "data"}]

IInv == /\ TypeOK /\ Shapes
        /\ config.source \in Sources \cup {"fixed_data"}
        /\ ChannelsAsConfigured /\ PayloadInBounds

-----------------------------------------------------------------------------
(* The loops of read_hannel.                                                *)

\* Word w of the mask holds the channels of the range that lie in it.
LEMMA WordsOfTheMask ==
  ASSUME NEW start \in 0 .. 95, NEW end \in 0 .. 95, start <= end,
         NEW w \in 0 .. 5, NEW i \in 0 .. 15
  PROVE  i \in read_hannel(start, end)[w] <=> 16 * w + i \in start .. end
<1> DEFINE first == start \div 16
           low   == start % 16
           last  == end \div 16
           high  == end % 16
<1>1. /\ first \in 0 .. 5 /\ start = 16 * first + low /\ low \in 0 .. 15
      /\ last \in 0 .. 5 /\ end = 16 * last + high /\ high \in 0 .. 15
      /\ first <= last
  OBVIOUS
<1>2. read_hannel(start, end)[w] =
        CASE w = first /\ first = last  -> low .. high
          [] w = first /\ first # last  -> low .. 15
          [] w = last /\ first # last   -> 0 .. high
          [] w > first /\ w < last      -> 0 .. 15
          [] w < first \/ w > last      -> {}
  <2>1. ~(start > end)
    OBVIOUS
  <2> QED BY <2>1, Zenon DEF read_hannel
<1> HIDE DEF first, low, last, high
<1>3. CASE w = first /\ first = last
  <2>1. read_hannel(start, end)[w] = low .. high
    BY <1>1, <1>2, <1>3
  <2> QED BY <1>1, <1>3, <2>1
<1>4. CASE w = first /\ first # last
  <2>1. read_hannel(start, end)[w] = low .. 15
    BY <1>1, <1>2, <1>4
  <2> QED BY <1>1, <1>4, <2>1
<1>5. CASE w = last /\ first # last
  <2>1. read_hannel(start, end)[w] = 0 .. high
    BY <1>1, <1>2, <1>5
  <2> QED BY <1>1, <1>5, <2>1
<1>6. CASE w > first /\ w < last
  <2>1. read_hannel(start, end)[w] = 0 .. 15
    BY <1>1, <1>2, <1>6
  <2> QED BY <1>1, <1>6, <2>1
<1>7. CASE w < first \/ w > last
  <2>1. read_hannel(start, end)[w] = {}
    BY <1>1, <1>2, <1>7
  <2> QED BY <1>1, <1>7, <2>1
<1> QED BY <1>1, <1>3, <1>4, <1>5, <1>6, <1>7

\* A word has no other bits.
LEMMA BitsOfTheMask ==
  ASSUME NEW start \in 0 .. 95, NEW end \in 0 .. 95, start <= end, NEW w \in 0 .. 5
  PROVE  read_hannel(start, end)[w] \subseteq 0 .. 15
<1> DEFINE first == start \div 16
           low   == start % 16
           last  == end \div 16
           high  == end % 16
           word  == read_hannel(start, end)[w]
<1>1. low \in 0 .. 15 /\ high \in 0 .. 15 /\ first \in 0 .. 5 /\ last \in 0 .. 5
  OBVIOUS
<1>2. ~(start > end)
  OBVIOUS
<1>3. word = CASE w = first /\ first = last  -> low .. high
               [] w = first /\ first # last  -> low .. 15
               [] w = last /\ first # last   -> 0 .. high
               [] w > first /\ w < last      -> 0 .. 15
               [] w < first \/ w > last      -> {}
  BY <1>2, Zenon DEF read_hannel
<1> HIDE DEF first, low, last, high, word
<1>4. word \in {low .. high, low .. 15, 0 .. high, 0 .. 15, {}}
  BY <1>1, <1>3
<1>5. \A S \in {low .. high, low .. 15, 0 .. high, 0 .. 15, {}} : S \subseteq 0 .. 15
  BY <1>1
<1> QED BY <1>4, <1>5 DEF word

\* The channels that a mask enables, as ChannelsAsConfigured collects them.
Enabled(mask) ==
  {16 * w + i : w \in 0 .. 5, i \in 0 .. 15} \cap
    UNION {{16 * w + i : i \in mask[w]} : w \in 0 .. 5}

\* A mask whose words hold what lies in a range enables exactly that range.
LEMMA MaskIsRange ==
  ASSUME NEW start \in 0 .. 95, NEW end \in 0 .. 95, NEW mask,
         \A w \in 0 .. 5 : mask[w] \subseteq 0 .. 15,
         \A w \in 0 .. 5, i \in 0 .. 15 : i \in mask[w] <=> 16 * w + i \in start .. end
  PROVE  Enabled(mask) = start .. end
<1> DEFINE all == {16 * w + i : w \in 0 .. 5, i \in 0 .. 15}
           on  == UNION {{16 * w + i : i \in mask[w]} : w \in 0 .. 5}
<1>1. ASSUME NEW c \in all \cap on PROVE c \in start .. end
  <2>1. PICK w \in 0 .. 5 : c \in {16 * w + i : i \in mask[w]}
    OBVIOUS
  <2>2. PICK i \in mask[w] : c = 16 * w + i
    BY <2>1
  <2> QED BY <2>2
<1>2. ASSUME NEW c \in start .. end PROVE c \in all /\ c \in on
  <2>1. c \div 16 \in 0 .. 5 /\ c % 16 \in 0 .. 15 /\ c = 16 * (c \div 16) + (c % 16)
    <3>1. c \in 0 .. 95
      BY <1>2
    <3> HIDE DEF all, on
    <3> QED BY ONLY <3>1
  <2>2. PICK w \in 0 .. 5, i \in 0 .. 15 : c = 16 * w + i
    BY <2>1
  <2>3. i \in mask[w]
    BY <2>2
  <2> QED BY <2>2, <2>3
<1> QED BY <1>1, <1>2 DEF Enabled

-----------------------------------------------------------------------------
(* prepareTxFrame.                                                          *)

\* Whatever the source, the frame it prepares has a size and lies in appData.
LEMMA FramesFit ==
  ASSUME NEW source \in Sources \cup {"fixed_data"}, NEW f \in Frames(source)
  PROVE  f.size \in 0 .. LORAWAN_APP_DATA_MAX_SIZE /\ f.written \in Nat
<1> USE SizeAssumption
<1>1. CASE source = "fixed_data"
  BY <1>1 DEF Frames
<1>2. CASE source = "mkfifo_data"
  <2>1. PICK n \in Reads, t \in Texts : f = FromPipe(n, t)
    BY <1>2 DEF Frames
  <2>2. n \in Int /\ t \in Nat
    BY PipeAssumption
  <2>3. SizeOfRead(n) \in 0 .. 127
    <3>1. n % 256 \in 0 .. 255
      BY <2>2
    <3> QED BY <3>1 DEF SizeOfRead
  <2>4. Written(t) \in Nat
    <3>1. t \div 2 \in Nat
      BY <2>2
    <3> QED BY <3>1 DEF Written
  <2> QED BY <2>1, <2>2, <2>3, <2>4 DEF FromPipe
<1>3. CASE source = "hdc1080_data"
  BY <1>3 DEF Frames
<1>4. CASE source = "bmp180_data"
  BY <1>4 DEF Frames
<1> QED BY <1>1, <1>2, <1>3, <1>4, SourceAssumption

-----------------------------------------------------------------------------
(* The invariant.                                                           *)

LEMMA InitEstablishes == Init => IInv
<1> SUFFICES ASSUME Init PROVE IInv
  OBVIOUS
<1>1. TypeOK
  BY DEF Init, TypeOK, States, At
<1>2. Shapes
  BY DEF Init, Shapes, States
<1>3. config.range[1] = 0 /\ config.range[2] = 7 /\ config.source = "fixed_data"
  BY DEF Init
<1>4. ChannelsAsConfigured
  <2>1. \A w \in 0 .. 5 : config.mask[w] \subseteq 0 .. 15
    BY DEF Init, userChannelsMask
  <2>2. \A w \in 0 .. 5, i \in 0 .. 15 : i \in config.mask[w] <=> 16 * w + i \in 0 .. 7
    BY DEF Init, userChannelsMask
  <2>3. Enabled(config.mask) = 0 .. 7
    <3> DEFINE mask == config.mask
    <3>1. /\ \A w \in 0 .. 5 : mask[w] \subseteq 0 .. 15
          /\ \A w \in 0 .. 5, i \in 0 .. 15 : i \in mask[w] <=> 16 * w + i \in 0 .. 7
      BY <2>1, <2>2
    <3>2. 0 \in 0 .. 95 /\ 7 \in 0 .. 95 /\ 0 <= 7
      OBVIOUS
    <3> HIDE DEF mask
    <3>3. Enabled(mask) = 0 .. 7
      BY ONLY <3>1, <3>2, MaskIsRange
    <3> QED BY <3>3 DEF mask
  <2> QED BY <1>3, <2>3 DEF ChannelsAsConfigured, Enabled
<1>5. PayloadInBounds
  BY SizeAssumption DEF Init, PayloadInBounds
<1> QED BY <1>1, <1>2, <1>3, <1>4, <1>5 DEF IInv

\* The steps of the main thread.
LEMMA MainPreserves == IInv /\ Main => IInv'
<1> SUFFICES ASSUME IInv, Main PROVE IInv'
  OBVIOUS
<1> USE DEF IInv
<1>1. CASE ReadConfig
  <2>1. PICK range \in Ranges, source \in Sources, otaa \in BOOLEAN :
          config' = [range |-> range, mask |-> read_hannel(range[1], range[2]),
                     source |-> source, overTheAirActivation |-> otaa]
    BY <1>1 DEF ReadConfig
  <2>2. range[1] \in 0 .. 95 /\ range[2] \in 0 .. 95
    BY RangeAssumption
  <2>3. ChannelsAsConfigured'
    <3>1. ASSUME range[1] <= range[2]
          PROVE  Enabled(read_hannel(range[1], range[2])) = range[1] .. range[2]
      <4> DEFINE mask == read_hannel(range[1], range[2])
      <4>1. \A w \in 0 .. 5 : mask[w] \subseteq 0 .. 15
        BY <2>2, <3>1, BitsOfTheMask
      <4>2. \A w \in 0 .. 5, i \in 0 .. 15 : i \in mask[w] <=> 16 * w + i \in range[1] .. range[2]
        BY <2>2, <3>1, WordsOfTheMask
      <4> HIDE DEF mask
      <4>3. Enabled(mask) = range[1] .. range[2]
        BY <2>2, <4>1, <4>2, MaskIsRange
      <4> QED BY <4>3 DEF mask
    <3>2. config'.range = range /\ config'.mask = read_hannel(range[1], range[2])
      BY <2>1
    <3> HIDE <1>1
    <3>3. ChannelsAsConfigured' <=>
            (config'.range[1] <= config'.range[2] =>
               Enabled(config'.mask) = config'.range[1] .. config'.range[2])
      BY DEF ChannelsAsConfigured, Enabled
    <3>4. config'.range[1] <= config'.range[2] =>
            Enabled(config'.mask) = config'.range[1] .. config'.range[2]
      BY Zenon, <3>1, <3>2
    <3> QED BY Zenon, <3>3, <3>4
  <2>4. config'.source \in Sources
    BY <2>1
  <2>5. TypeOK' /\ Shapes'
    BY <1>1 DEF ReadConfig, TypeOK, Shapes, States, At, Goto
  <2> QED BY <1>1, <2>3, <2>4, <2>5 DEF ReadConfig, PayloadInBounds
<1>2. CASE prepareTxFrame
  <2>1. frame' \in Frames(config.source)
    BY <1>2 DEF prepareTxFrame
  <2>2. frame'.size \in 0 .. LORAWAN_APP_DATA_MAX_SIZE /\ frame'.written \in Nat
    BY <2>1, FramesFit
  <2>3. TypeOK' /\ Shapes'
    BY <1>2, <2>2, SizeAssumption DEF prepareTxFrame, TypeOK, Shapes, States, At, Goto
  <2>4. PayloadInBounds'
    BY <2>2, SizeAssumption DEF PayloadInBounds
  <2> QED BY <1>2, <2>3, <2>4 DEF prepareTxFrame, ChannelsAsConfigured
<1>3. ASSUME UNCHANGED <<config, frame>>, TypeOK', Shapes' PROVE IInv'
  BY <1>3 DEF ChannelsAsConfigured, PayloadInBounds
<1>4. CASE Fails \/ init \/ StartSending \/ cycle
  <2>1. main' \in [pc : {"exited", "write", "prepare"}, next : States \cup {"none"},
                   touched : BOOLEAN]
        /\ (main'.pc = "write" => main'.next # "none")
    <3>1. CASE Fails
      BY <3>1 DEF Fails, Goto, Shapes
    <3>2. CASE init \/ StartSending \/ cycle
      <4>1. PICK pc \in {"write", "prepare"}, next \in States \cup {"none"} :
              /\ main' = [pc |-> pc, next |-> next, touched |-> FALSE]
              /\ pc = "write" => next # "none"
        BY <3>2 DEF init, StartSending, cycle, Enter, States
      <4> QED BY ONLY <4>1
    <3> QED BY <1>4, <3>1, <3>2
  <2>2. timer' \in BOOLEAN /\ UNCHANGED <<config, deviceState, nextTx, callback, mac, frame>>
    BY <1>4 DEF Fails, init, StartSending, cycle, TypeOK
  <2> QED BY <1>3, <2>1, <2>2 DEF TypeOK, Shapes, At
<1>5. CASE join
  <2>1. mac' \in [joined : BOOLEAN, busy : {"none", "join", "data"}]
    BY <1>5 DEF join, Request, Shapes
  <2>2. main' \in [pc : {"write"}, next : States, touched : BOOLEAN]
    <3>1. PICK next \in States : Enter("JOIN", "write", next)
      BY <1>5 DEF join, AfterJoin, States
    <3> QED BY <3>1 DEF Enter
  <2> QED BY <1>3, <1>5, <2>1, <2>2 DEF join, TypeOK, Shapes, States, At
<1>6. CASE send
  <2>1. mac' \in [joined : BOOLEAN, busy : {"none", "join", "data"}]
    BY <1>6 DEF send, Request, Shapes
  <2>2. main' \in [pc : {"write", "answered", "refused"}, next : States \cup {"none"},
                   touched : BOOLEAN]
        /\ (At("write") => main.next # "none")'
    BY <1>6 DEF send, Goto, At, Shapes, States
  <2> QED BY <1>3, <1>6, <2>1, <2>2 DEF send, TypeOK, Shapes, States, At
<1>7. CASE WriteNextTx
  BY <1>3, <1>7 DEF WriteNextTx, Goto, At, TypeOK, Shapes, States
<1>8. CASE WriteState
  BY <1>3, <1>8 DEF WriteState, Goto, At, TypeOK, Shapes, States
<1> QED BY <1>1, <1>2, <1>4, <1>5, <1>6, <1>7, <1>8 DEF Main

\* The steps of the timer thread, which touch neither the configuration nor
\* the frame.
LEMMA CallbacksPreserve == IInv /\ Callbacks => IInv'
<1> SUFFICES ASSUME IInv, Callbacks PROVE IInv'
  OBVIOUS
<1> USE DEF IInv
<1>1. ASSUME UNCHANGED <<config, frame>>, TypeOK', Shapes' PROVE IInv'
  BY <1>1 DEF ChannelsAsConfigured, PayloadInBounds
<1>2. ASSUME NEW state \in States, Wake(state)
      PROVE  /\ deviceState' \in States
             /\ main' \in [pc : {"config", "loop", "prepare", "send", "answered", "refused",
                                "write", "exited"},
                           next : States \cup {"none"}, touched : BOOLEAN]
             /\ main'.pc = main.pc /\ main'.next = main.next
  BY <1>2 DEF Wake, Shapes
<1>3. CASE \E joined \in BOOLEAN : MlmeConfirm(joined)
  <2>1. PICK joined \in BOOLEAN : MlmeConfirm(joined)
    BY <1>3
  <2>2. mac' \in [joined : BOOLEAN, busy : {"none", "join", "data"}]
    BY <2>1 DEF MlmeConfirm, Shapes
  <2>3. CASE joined
    <3>1. Wake("SEND") /\ "SEND" \in States
      BY <2>1, <2>3 DEF MlmeConfirm, States
    <3> QED BY <1>1, <1>2, <2>1, <2>2, <2>3, <3>1 DEF MlmeConfirm, TypeOK, Shapes, At
  <2>4. CASE ~joined
    BY <1>1, <2>1, <2>2, <2>4 DEF MlmeConfirm, TypeOK, Shapes, At
  <2> QED BY <2>3, <2>4
<1>4. CASE McpsConfirm \/ SetNextTx
  BY <1>1, <1>4 DEF McpsConfirm, SetNextTx, TypeOK, Shapes, At
<1>5. CASE SendAgain
  <2>1. Wake("SEND") /\ "SEND" \in States
    BY <1>5 DEF SendAgain, States
  <2> QED BY <1>1, <1>2, <1>5, <2>1 DEF SendAgain, TypeOK, Shapes, At
<1>6. CASE JoinAgain
  <2>1. PICK accepted \in BOOLEAN : Request("join", accepted) /\ Wake(AfterJoin(accepted))
    BY <1>6 DEF JoinAgain
  <2>2. AfterJoin(accepted) \in States
    BY DEF AfterJoin, States
  <2>3. mac' \in [joined : BOOLEAN, busy : {"none", "join", "data"}]
    BY <2>1 DEF Request, Shapes
  <2> QED BY <1>1, <1>2, <1>6, <2>1, <2>2, <2>3 DEF JoinAgain, TypeOK, Shapes, At
<1> QED BY <1>3, <1>4, <1>5, <1>6 DEF Callbacks, OnTxNextPacketTimerEvent, Indication

\* Whatever the threads do to each other, the invariant is kept.
LEMMA Invariance == Spec => []IInv
<1>1. IInv /\ [Next]_vars => IInv'
  <2>1. IInv /\ UNCHANGED vars => IInv'
    BY DEF vars, IInv, TypeOK, Shapes, ChannelsAsConfigured, PayloadInBounds, At
  <2> QED BY <2>1, MainPreserves, CallbacksPreserve DEF Next
<1> QED BY InitEstablishes, <1>1, PTL DEF Spec

\* The variables of the two threads keep their types, and a case of loop()
\* always knows the state it ends with.
THEOREM TypesKept == Spec => []TypeOK
<1>1. IInv => TypeOK
  BY DEF IInv
<1> QED BY <1>1, Invariance, PTL

\* For every range of channels that has a place in the mask, read_hannel
\* enables the channels of the range and no others.
THEOREM ChannelsEnabled == Spec => []ChannelsAsConfigured
<1>1. IInv => ChannelsAsConfigured
  BY DEF IInv
<1> QED BY <1>1, Invariance, PTL

\* Whatever read() returns, which a uint8_t keeps a part of, the frame that
\* prepareTxFrame makes lies in appData.
THEOREM FramesInBuffer == Spec => []PayloadInBounds
<1>1. IInv => PayloadInBounds
  BY DEF IInv
<1> QED BY <1>1, Invariance, PTL

=============================================================================
