--------------------------- MODULE LoRaMac_proofs ---------------------------
(***************************************************************************)
(* Proofs about the transmission procedure, for every value of the          *)
(* constants that satisfies OrderlyUse.                                      *)
(*                                                                           *)
(* The code keeps its place in the procedure in no variable of its own: it   *)
(* is spread over LoRaMacState, the flags, the timers that run and the mode  *)
(* of the radio.  The invariant names the places (Idle, Sensing, ..., Over), *)
(* says that the MAC is always in one of them, and ties to them what the     *)
(* pending requests and the counters of trials must be.                      *)
(*                                                                           *)
(* A handler is a composition of operators on the record mac.  For each      *)
(* operator a lemma says which fields it keeps and what it makes of the      *)
(* others; the proof that a handler keeps the invariant cites those.         *)
(***************************************************************************)
EXTENDS LoRaMac, FiniteSetTheorems, TLAPS

\* The types.  That the counters stay within their limits is left to Acks and
\* Joins, for they pass through a handler one by one.
Macs ==
  [class : {"A", "C"}, state : SUBSET StateBits, flags : SUBSET FlagBits,
   timers : SUBSET (MacTimers \cup RadioTimers), radio : {"SLEEP", "CAD", "TX", "RX", "RXC"},
   rxSlot : {"WIN_1", "WIN_2", "CLASS_C"}, joined : BOOLEAN, nodeAck : BOOLEAN,
   ackRetry : BOOLEAN, ackMax : {1, NbTrials}, ackCnt : Nat, nbRep : 0 .. ChannelsNbRep,
   joinTrials : Nat, joinMax : {1, MaxJoinTrials}, cadCnt : 1 .. CadMax,
   mcps : [Request : {"CONFIRMED", "UNCONFIRMED"}, Status : Results, AckReceived : BOOLEAN],
   mlmeRequest : {"JOIN", "LINK_CHECK"}, common : Results, queue : Seq(MlmeElement),
   frame : {"NONE", "JOIN", "FRESH", "REUSED"}, counterUsed : BOOLEAN,
   sent : 0 .. SentCap, heardAck : BOOLEAN]

\* The application waits for its confirms, and a device of class C hears only
\* what answers its uplinks, in frames that are over when the acknowledgement
\* time-out elapses; a device that stays in class A needs the first only.
\* Without the first a request replaces the frame whose channel is being
\* sensed; without the second a downlink of the continuous window meets any
\* place of the procedure; without the third the procedure is completed, or
\* repeats its uplink, while the first window is still receiving.
OrderlyUse == OneRequest /\ ("C" \in Classes => QuietChannel /\ ShortAnswers)

-----------------------------------------------------------------------------
(* The places of the procedure.                                              *)

Done(m)    == "MacDone" \in m.flags
Others(m)  == m.timers \ {"MacStateCheck"}
Resting(m) == m.radio \in {"SLEEP", "RXC"}

\* Nothing is under way; a channel is sensed; the frame waits for the duty
\* cycle or for a clear channel; it is about to be sent; it is being sent.
Idle(m)     == m.state = {} /\ m.timers = {} /\ Resting(m)
Sensing(m)  == /\ m.state \ {"TX_RUNNING"} = {"CAD_RUNNING"} /\ Others(m) = {"CadTimeout"}
               /\ m.radio \in {"CAD", "RXC"}
Delayed(m)  == /\ m.state \ {"TX_RUNNING"} = {"TX_DELAYED"} /\ Others(m) = {"TxDelayed"}
               /\ Resting(m)
Imminent(m) == m.state = {"TX_RUNNING"} /\ Others(m) = {"TxImmediate"} /\ Resting(m)
OnAir(m)    == /\ m.state = {"TX_RUNNING"} /\ m.timers = {"MacStateCheck", "TxTimeout"}
               /\ m.radio = "TX"

\* A window is open or has yet to open; in class C the second one is
\* continuous and the end of the wait for the ACK ends the procedure.
Windows(m) == Others(m) \ {"AckTimeout"}
Listening(m) ==
  /\ m.state = {"TX_RUNNING"} /\ "MacStateCheck" \in m.timers
  /\ \/ /\ m.class = "A" /\ m.radio = "SLEEP"
        /\ Windows(m) \in {{"RxWindow1", "RxWindow2"}, {"RxWindow2"}}
     \/ /\ m.class = "A" /\ m.radio = "RX" /\ m.rxSlot = "WIN_1"
        /\ Windows(m) = {"RxTimeout", "RxWindow2"}
     \/ m.class = "A" /\ Windows(m) = {"RxTimeout"} /\ m.radio = "RX"
     \/ m.class = "C" /\ Others(m) = {"RxWindow1", "AckTimeout"} /\ m.radio = "RXC"
     \/ m.class = "C" /\ Others(m) = {"RxTimeout", "AckTimeout"} /\ m.radio = "RX"
     \/ m.class = "C" /\ Others(m) = {"AckTimeout"} /\ Resting(m)

\* The windows are over: the state check is to see that, or (class A) an ACK
\* is still awaited.
Over(m) ==
  /\ m.state \in {{"TX_RUNNING"}, {"TX_RUNNING", "RX_ABORT"}}
  /\ "MacStateCheck" \in m.timers /\ Others(m) \subseteq {"AckTimeout"}
  /\ ("AckTimeout" \in m.timers => m.class = "A" /\ m.state = {"TX_RUNNING"}) /\ Resting(m)

InPhase(m) == \/ Idle(m) \/ Sensing(m) \/ Delayed(m) \/ Imminent(m)
              \/ OnAir(m) \/ Listening(m) \/ Over(m)

-----------------------------------------------------------------------------
(* The inductive invariant.                                                  *)

\* MacDone is set only when the windows are over; if the server acknowledges
\* whatever asks for it, it is then always set.
Phase(m) ==
  /\ InPhase(m)
  /\ m.class \in {"A"} \cup Classes
  /\ m.radio = "RXC" => m.class = "C"
  /\ Done(m) => Over(m)
  /\ ServerAcks /\ Over(m) => Done(m)

TimedOut(m) == m.mcps.Status = "TX_TIMEOUT" \/ m.common = "TX_TIMEOUT"

\* The trials of a confirmed uplink: a retry is ordered only when no ACK is
\* awaited any more, and an ACK that came ends the procedure.
Acks(m) ==
  /\ m.ackCnt \in 1 .. m.ackMax
  /\ m.class = "A" /\ "AckTimeout" \in m.timers => m.nodeAck
  /\ m.ackRetry => m.nodeAck /\ (Listening(m) \/ Over(m)) /\ "AckTimeout" \notin m.timers
  /\ m.nodeAck /\ m.mcps.AckReceived =>
       Over(m) /\ Done(m) /\ "McpsInd" \in m.flags /\ "AckTimeout" \notin m.timers
  /\ OnAir(m) \/ Listening(m) \/ "AckTimeout" \in m.timers => ~TimedOut(m)

\* The MAC is busy for a pending uplink or for a queued join request.
Uplink(m) ==
  /\ "McpsReq" \in m.flags => m.joined /\ m.state # {}
  /\ "McpsReq" \notin m.flags /\ m.state # {} => IsQueued(m.queue, "JOIN")

\* A device that has not joined does nothing but join.  A join request is
\* alone in the queue, and its element tells whether it was accepted; from its
\* acceptance to its confirm nothing is left but the state check.
Joins(m) ==
  /\ m.joinTrials \in 0 .. MaxJoinTrials
  /\ ~m.joined =>
       /\ ~m.nodeAck /\ m.mlmeRequest = "JOIN"
       /\ IF m.state = {} THEN m.queue = <<>> ELSE IsQueued(m.queue, "JOIN")
       /\ Sensing(m) \/ Delayed(m) \/ Imminent(m) => m.joinTrials < MaxJoinTrials
  /\ IsQueued(m.queue, "JOIN") =>
       /\ Len(m.queue) = 1 /\ "MlmeReq" \in m.flags /\ "McpsReq" \notin m.flags
       /\ m.state # {} /\ m.mlmeRequest = "JOIN" /\ ~m.nodeAck
       /\ m.queue[1].Status = "OK" <=> m.joined
       /\ m.joined => /\ Over(m) /\ Done(m) /\ m.class = "A" /\ m.radio = "SLEEP"
                      /\ m.timers = {"MacStateCheck"}

\* When the state check runs, every element of the queue has its answer.
Queue(m) ==
  /\ Len(m.queue) <= QueueLen
  /\ \A i \in DOMAIN m.queue : ~m.queue[i].RestrictCommon
  /\ "MacStateCheck" \in m.timers => \A i \in DOMAIN m.queue : m.queue[i].ReadyToHandle

Sound(m) == m \in Macs /\ Phase(m) /\ Acks(m) /\ Uplink(m) /\ Joins(m) /\ Queue(m)

IInv == Sound(mac)

-----------------------------------------------------------------------------
(* The queue of confirms.                                                    *)

USE DEF StateBits, FlagBits, MacTimers, RadioTimers, Sound

\* SetStatusCmn answers every element of the queue.
LEMMA AnsweredAll ==
  ASSUME NEW q \in Seq(MlmeElement), NEW st \in Results
  PROVE  LET a == AnswerAll(q, st) IN
         /\ a \in Seq(MlmeElement) /\ Len(a) = Len(q) /\ DOMAIN a = DOMAIN q
         /\ \A i \in DOMAIN q :
              /\ a[i].Request = q[i].Request /\ a[i].RestrictCommon = q[i].RestrictCommon
              /\ a[i].Status = st
              /\ a[i].ReadyToHandle = (q[i].ReadyToHandle \/ ~q[i].RestrictCommon)
<1> DEFINE a == AnswerAll(q, st)
<1>1. \A i \in DOMAIN q : q[i] \in MlmeElement
  OBVIOUS
<1>2. \A i \in DOMAIN q :
        /\ CommonlyAnswered(q[i], st) \in MlmeElement
        /\ CommonlyAnswered(q[i], st).Request = q[i].Request
        /\ CommonlyAnswered(q[i], st).RestrictCommon = q[i].RestrictCommon
        /\ CommonlyAnswered(q[i], st).Status = st
        /\ CommonlyAnswered(q[i], st).ReadyToHandle = (q[i].ReadyToHandle \/ ~q[i].RestrictCommon)
  BY <1>1 DEF CommonlyAnswered, MlmeElement
<1>3. a = [i \in 1 .. Len(q) |-> CommonlyAnswered(q[i], st)]
  BY DEF AnswerAll
<1>4. a \in Seq(MlmeElement) /\ Len(a) = Len(q) /\ DOMAIN a = DOMAIN q
  BY <1>2, <1>3
<1> QED BY <1>2, <1>3, <1>4

\* SetStatus answers the first element of a type.
LEMMA AnsweredFirst ==
  ASSUME NEW q \in Seq(MlmeElement), NEW r, NEW st \in Results
  PROVE  LET a == AnswerFirst(q, r, st) IN
         /\ a \in Seq(MlmeElement) /\ Len(a) = Len(q) /\ DOMAIN a = DOMAIN q
         /\ \A i \in DOMAIN q :
              /\ a[i].Request = q[i].Request /\ a[i].RestrictCommon = q[i].RestrictCommon
              /\ q[i].ReadyToHandle => a[i].ReadyToHandle
              /\ a[i].Status = IF IsFirst(q, i, r) THEN st ELSE q[i].Status
<1> DEFINE a == AnswerFirst(q, r, st)
<1>1. \A i \in DOMAIN q : q[i] \in MlmeElement
  OBVIOUS
<1>2. \A i \in DOMAIN q :
        /\ Answered(q[i], st) \in MlmeElement
        /\ Answered(q[i], st).Request = q[i].Request
        /\ Answered(q[i], st).RestrictCommon = q[i].RestrictCommon
        /\ Answered(q[i], st).Status = st
        /\ Answered(q[i], st).ReadyToHandle
  BY <1>1 DEF Answered, MlmeElement
<1>3. a = [i \in 1 .. Len(q) |-> IF IsFirst(q, i, r) THEN Answered(q[i], st) ELSE q[i]]
  BY DEF AnswerFirst
<1>4. a \in Seq(MlmeElement) /\ Len(a) = Len(q) /\ DOMAIN a = DOMAIN q
  BY <1>1, <1>2, <1>3
<1> QED BY <1>2, <1>3, <1>4

\* When every element has its answer, none is queued again.
LEMMA NothingUnanswered ==
  ASSUME NEW q \in Seq(MlmeElement), \A i \in DOMAIN q : q[i].ReadyToHandle
  PROVE  Unanswered(q) = <<>>
<1> DEFINE left == {i \in DOMAIN q : ~q[i].ReadyToHandle}
           kth(k) == CHOOSE i \in left : Cardinality({j \in left : j <= i}) = k
<1>1. Unanswered(q) = [k \in 1 .. Cardinality(left) |-> q[kth(k)]]
  BY DEF Unanswered, Those
<1>2. left = {}
  OBVIOUS
<1> HIDE DEF left, kth
<1>3. Cardinality(left) = 0
  BY <1>2, FS_EmptySet
<1>4. 1 .. Cardinality(left) = {}
  BY <1>3
<1>5. Len(<<>>) = 0 /\ [k \in {} |-> q[kth(k)]] = <<>>
  OBVIOUS
<1> QED BY <1>1, <1>4, <1>5
\* The fields of the MAC, and that all of them but some are kept.
Fields == {"class", "state", "flags", "timers", "radio", "rxSlot", "joined", "nodeAck", "ackRetry",
           "ackMax", "ackCnt", "nbRep", "joinTrials", "joinMax", "cadCnt", "mcps", "mlmeRequest",
           "common", "queue", "frame", "counterUsed", "sent", "heardAck"}
Kept(r, m, changed) == \A f \in Fields \ changed : r[f] = m[f]
-----------------------------------------------------------------------------
(* The operators of the procedure: the record stays one of the MAC's, and   *)
(* which fields change.                                                      *)

\* All timers, and all states of the radio.
Timers == MacTimers \cup RadioTimers
Radios == {"SLEEP", "CAD", "TX", "RX", "RXC"}

\* Bits, flags, timers and the radio stay within their types.
LEMMA BaseTypes ==
  ASSUME NEW m \in Macs
  PROVE  /\ \A bits \in SUBSET StateBits : Clear(m, bits) \in Macs /\ Raise(m, bits) \in Macs
         /\ \A flags \in SUBSET FlagBits : Mark(m, flags) \in Macs /\ Unmark(m, flags) \in Macs
         /\ \A t \in Timers : TimerStart(m, t) \in Macs /\ TimerStop(m, t) \in Macs
         /\ Sleep(m) \in Macs
<1>1. \A bits \in SUBSET StateBits : Clear(m, bits) \in Macs
  BY DEF Clear, Macs
<1>2. \A bits \in SUBSET StateBits : Raise(m, bits) \in Macs
  BY DEF Raise, Macs
<1>3. \A flags \in SUBSET FlagBits : Mark(m, flags) \in Macs /\ Unmark(m, flags) \in Macs
  BY ZenonT(30) DEF Mark, Unmark, Macs
<1>4. \A t \in Timers : TimerStart(m, t) \in Macs
  <2>1. \A t \in Timers : m.timers \cup {t} \in SUBSET (MacTimers \cup RadioTimers)
    BY DEF Macs, Timers
  <2> QED BY <2>1 DEF TimerStart, Macs
<1>5. \A t \in Timers : TimerStop(m, t) \in Macs
  <2>1. \A t : m.timers \ {t} \in SUBSET (MacTimers \cup RadioTimers)
    BY DEF Macs
  <2> QED BY <2>1 DEF TimerStop, Macs
<1>6. Sleep(m) \in Macs
  BY DEF Sleep, Macs
<1> QED BY <1>1, <1>2, <1>3, <1>4, <1>5, <1>6

\* The elementary operators change one field each.
LEMMA BaseEffects ==
  ASSUME NEW m \in Macs
  PROVE  /\ \A bits : Clear(m, bits).state = m.state \ bits /\ Kept(Clear(m, bits), m, {"state"})
         /\ \A bits : Raise(m, bits).state = m.state \cup bits /\ Kept(Raise(m, bits), m, {"state"})
         /\ \A flags : Mark(m, flags).flags = m.flags \cup flags /\ Kept(Mark(m, flags), m, {"flags"})
         /\ \A flags : Unmark(m, flags).flags = m.flags \ flags /\ Kept(Unmark(m, flags), m, {"flags"})
         /\ \A t : TimerStart(m, t).timers = m.timers \cup {t} /\ Kept(TimerStart(m, t), m, {"timers"})
         /\ \A t : TimerStop(m, t).timers = m.timers \ {t} /\ Kept(TimerStop(m, t), m, {"timers"})
         /\ Sleep(m).radio = "SLEEP" /\ Kept(Sleep(m), m, {"radio"})
  BY DEF Macs, Kept, Fields, Clear, Raise, Mark, Unmark, TimerStart, TimerStop, Sleep

\* SetStatusCmn changes the common status and the statuses of the queue.
LEMMA StatusSet ==
  ASSUME NEW m \in Macs, NEW st \in Results
  PROVE  LET r == SetStatusCmn(m, st) IN
         /\ r \in Macs /\ Kept(r, m, {"common", "queue"})
         /\ r.common = st /\ r.queue = AnswerAll(m.queue, st)
<1> DEFINE q == AnswerAll(m.queue, st)
<1>1. m.queue \in Seq(MlmeElement)
  BY DEF Macs
<1>2. q \in Seq(MlmeElement)
  BY <1>1, AnsweredAll
<1>3. SetStatusCmn(m, st) = [m EXCEPT !.common = st, !.queue = q]
  BY DEF SetStatusCmn
<1> HIDE DEF q
<1>4. [m EXCEPT !.common = st, !.queue = q] \in Macs
  BY <1>2 DEF Macs
<1>5. /\ Kept([m EXCEPT !.common = st, !.queue = q], m, {"common", "queue"})
      /\ [m EXCEPT !.common = st, !.queue = q].common = st
      /\ [m EXCEPT !.common = st, !.queue = q].queue = q
  BY DEF Macs, Kept, Fields
<1> QED BY <1>3, <1>4, <1>5 DEF q

\* ScheduleTx senses the channel, waits for the duty cycle or does nothing.
LEMMA Scheduled ==
  ASSUME NEW m \in Macs, NEW out \in Outcomes
  PROVE  LET r == ScheduleTx(m, out) IN
         /\ r \in Macs /\ Kept(r, m, {"state", "timers", "radio"})
         /\ out = "CAD" => /\ r.state = m.state \cup {"CAD_RUNNING"}
                           /\ r.timers = m.timers \cup {"CadTimeout"} /\ r.radio = "CAD"
         /\ out = "DELAY" => /\ r.state = m.state \cup {"TX_DELAYED"}
                             /\ r.timers = m.timers \cup {"TxDelayed"} /\ r.radio = m.radio
         /\ out = "LENGTH" => r = m
<1>1. CASE out = "CAD"
  <2>1. ScheduleTx(m, out) = StartCAD(m)
    BY <1>1 DEF ScheduleTx
  <2>2. StartCAD(m) \in Macs
    BY DEF StartCAD, Raise, TimerStart, Macs
  <2>3. /\ Kept(StartCAD(m), m, {"state", "timers", "radio"})
        /\ StartCAD(m).state = m.state \cup {"CAD_RUNNING"}
        /\ StartCAD(m).timers = m.timers \cup {"CadTimeout"} /\ StartCAD(m).radio = "CAD"
    BY DEF StartCAD, Raise, TimerStart, Macs, Kept, Fields
  <2> QED BY <1>1, <2>1, <2>2, <2>3
<1>2. CASE out = "DELAY"
  <2> DEFINE r == TimerStart(Raise(m, {"TX_DELAYED"}), "TxDelayed")
  <2>1. ScheduleTx(m, out) = r
    BY <1>2 DEF ScheduleTx
  <2>2. r \in Macs
    BY DEF Raise, TimerStart, Macs
  <2>3. /\ Kept(r, m, {"state", "timers", "radio"}) /\ r.state = m.state \cup {"TX_DELAYED"}
        /\ r.timers = m.timers \cup {"TxDelayed"} /\ r.radio = m.radio
    BY DEF Raise, TimerStart, Macs, Kept, Fields
  <2> HIDE DEF r
  <2> QED BY <1>2, <2>1, <2>2, <2>3
<1>3. CASE out = "LENGTH"
  <2>1. ScheduleTx(m, out) = m
    BY <1>3 DEF ScheduleTx
  <2> QED BY <1>3, <2>1 DEF Kept
<1> QED BY <1>1, <1>2, <1>3 DEF Outcomes

\* The fields that ResetMacParameters restarts.
Restarted == {"counterUsed", "nbRep", "ackMax", "ackCnt", "ackRetry", "nodeAck"}

\* After ResetMacParameters one transmission is left and no ACK is awaited.
LEMMA ParametersReset ==
  ASSUME NEW m \in Macs
  PROVE  LET r == ResetMacParameters(m) IN
         /\ r \in Macs /\ Kept(r, m, Restarted)
         /\ r.ackMax = 1 /\ r.ackCnt = 1 /\ ~r.ackRetry /\ ~r.nodeAck
<1>0. 0 \in 0 .. ChannelsNbRep /\ 1 \in Nat
  BY BoundsAssumption
<1>1. ResetMacParameters(m) \in Macs
  BY <1>0 DEF ResetMacParameters, Macs
<1>2. LET r == ResetMacParameters(m) IN
      Kept(r, m, Restarted) /\ r.ackMax = 1 /\ r.ackCnt = 1 /\ ~r.ackRetry /\ ~r.nodeAck
  BY DEF ResetMacParameters, Macs, Kept, Fields, Restarted
<1> QED BY <1>1, <1>2

\* A frame that is sent after its delay, or again: the counters are started
\* again if the procedure is that of a join.
LEMMA DelayedSent ==
  ASSUME NEW m \in Macs, NEW out \in Outcomes, m.ackCnt \in 1 .. m.ackMax
  PROVE  LET r == SendDelayed(m, out) IN
         /\ r \in Macs /\ Kept(r, m, Restarted \cup {"state", "timers", "radio", "frame"})
         /\ out = "CAD" => /\ r.state = (m.state \ {"TX_DELAYED"}) \cup {"CAD_RUNNING"}
                           /\ r.timers = (m.timers \ {"TxDelayed"}) \cup {"CadTimeout"}
                           /\ r.radio = "CAD"
         /\ out = "DELAY" => /\ r.state = m.state \cup {"TX_DELAYED"}
                             /\ r.timers = m.timers \cup {"TxDelayed"} /\ r.radio = m.radio
         /\ r.ackCnt \in 1 .. r.ackMax
         /\ r.nodeAck => m.nodeAck
         /\ r.ackRetry => m.ackRetry /\ r.nodeAck = m.nodeAck
<1> DEFINE m1 == Clear(TimerStop(m, "TxDelayed"), {"TX_DELAYED"})
           m2 == IF JoinProcedure(m1) THEN [ResetMacParameters(m1) EXCEPT !.frame = "JOIN"] ELSE m1
<1>1. m1 \in Macs
  BY DEF Clear, TimerStop, Macs
<1>2. /\ Kept(m1, m, {"state", "timers"}) /\ m1.state = m.state \ {"TX_DELAYED"}
      /\ m1.timers = m.timers \ {"TxDelayed"}
  BY DEF Clear, TimerStop, Macs, Kept, Fields
<1>3. SendDelayed(m, out) = ScheduleTx(m2, out)
  BY DEF SendDelayed
<1> HIDE DEF m1
<1>4. /\ m2 \in Macs /\ Kept(m2, m1, Restarted \cup {"frame"})
      /\ m2 = m1 \/ (m2.ackMax = 1 /\ m2.ackCnt = 1 /\ ~m2.ackRetry /\ ~m2.nodeAck)
  <2>1. CASE JoinProcedure(m1)
    <3> DEFINE n == ResetMacParameters(m1)
    <3>1. /\ n \in Macs /\ Kept(n, m1, Restarted)
          /\ n.ackMax = 1 /\ n.ackCnt = 1 /\ ~n.ackRetry /\ ~n.nodeAck
      BY <1>1, ParametersReset
    <3>2. m2 = [n EXCEPT !.frame = "JOIN"]
      BY <2>1
    <3> HIDE DEF n, m2
    <3>3. m2 \in Macs
      BY <3>1, <3>2, SMTT(20) DEF Macs
    <3>4. /\ Kept(m2, n, {"frame"}) /\ m2.ackMax = 1 /\ m2.ackCnt = 1 /\ ~m2.ackRetry /\ ~m2.nodeAck
      BY <3>1, <3>2 DEF Macs, Kept, Fields
    <3>5. Kept(m2, m1, Restarted \cup {"frame"})
      BY <3>1, <3>4 DEF Kept
    <3> QED BY <3>3, <3>4, <3>5
  <2>2. CASE ~JoinProcedure(m1)
    BY <1>1, <2>2 DEF Kept
  <2> QED BY <2>1, <2>2
<1> HIDE DEF m2
<1> DEFINE r == ScheduleTx(m2, out)
<1>5. /\ r \in Macs /\ Kept(r, m2, {"state", "timers", "radio"})
      /\ out = "CAD" => /\ r.state = m2.state \cup {"CAD_RUNNING"}
                        /\ r.timers = m2.timers \cup {"CadTimeout"} /\ r.radio = "CAD"
      /\ out = "DELAY" => /\ r.state = m2.state \cup {"TX_DELAYED"}
                          /\ r.timers = m2.timers \cup {"TxDelayed"} /\ r.radio = m2.radio
  BY <1>4, Scheduled
<1> HIDE DEF r
<1>6. /\ m2.state = m.state \ {"TX_DELAYED"} /\ m2.timers = m.timers \ {"TxDelayed"}
      /\ m2.radio = m.radio
  BY <1>2, <1>4 DEF Kept, Fields, Restarted
<1>7. Kept(r, m, Restarted \cup {"state", "timers", "radio", "frame"})
  BY <1>2, <1>4, <1>5 DEF Kept
<1>8. /\ r.ackCnt = m2.ackCnt /\ r.ackMax = m2.ackMax /\ r.nodeAck = m2.nodeAck
      /\ r.ackRetry = m2.ackRetry
      /\ m1.ackCnt = m.ackCnt /\ m1.ackMax = m.ackMax /\ m1.nodeAck = m.nodeAck
      /\ m1.ackRetry = m.ackRetry
  BY <1>2, <1>5 DEF Kept, Fields
<1>9. r.ackCnt \in 1 .. r.ackMax /\ (r.nodeAck => m.nodeAck)
      /\ (r.ackRetry => m.ackRetry /\ r.nodeAck = m.nodeAck)
  BY <1>4, <1>8
<1>10. /\ out = "CAD" => /\ r.state = (m.state \ {"TX_DELAYED"}) \cup {"CAD_RUNNING"}
                         /\ r.timers = (m.timers \ {"TxDelayed"}) \cup {"CadTimeout"}
                         /\ r.radio = "CAD"
       /\ out = "DELAY" => /\ r.state = m.state \cup {"TX_DELAYED"}
                           /\ r.timers = m.timers \cup {"TxDelayed"} /\ r.radio = m.radio
  BY <1>5, <1>6
<1> QED BY <1>3, <1>5, <1>7, <1>9, <1>10 DEF r

-----------------------------------------------------------------------------
(* Reception windows.                                                        *)

\* The second window opens only on a radio that RadioGetStatus calls idle.
LEMMA SecondWindowOpened ==
  ASSUME NEW m \in Macs
  PROVE  LET r == OpenRx2(m) IN
         /\ r \in Macs /\ Kept(r, m, {"timers", "radio", "rxSlot"})
         /\ ~RadioIdle(m) => /\ r.timers = m.timers \ {"RxWindow2"} /\ r.radio = m.radio
                             /\ r.rxSlot = m.rxSlot
         /\ RadioIdle(m) /\ m.class = "C" =>
              r.timers = m.timers \ {"RxWindow2"} /\ r.radio = "RXC"
         /\ RadioIdle(m) /\ m.class = "A" =>
              r.timers = (m.timers \ {"RxWindow2"}) \cup {"RxTimeout"} /\ r.radio = "RX"
<1> DEFINE n == TimerStop(m, "RxWindow2")
           c == [n EXCEPT !.radio = "RXC", !.rxSlot = "WIN_2"]
           a == [n EXCEPT !.radio = "RX", !.rxSlot = "WIN_2", !.timers = @ \cup {"RxTimeout"}]
<1>1. n \in Macs /\ Kept(n, m, {"timers"}) /\ n.timers = m.timers \ {"RxWindow2"}
  BY BaseTypes, BaseEffects DEF Timers
<1>2. n.radio = m.radio /\ n.class = m.class /\ n.rxSlot = m.rxSlot /\ m.class \in {"A", "C"}
  BY <1>1 DEF Kept, Fields, Macs
<1>3. OpenRx2(m) = IF ~RadioIdle(m) THEN n ELSE IF m.class = "C" THEN c ELSE a
  BY DEF OpenRx2
<1> HIDE DEF n
<1>4. c \in Macs /\ a \in Macs
  <2>1. c \in Macs
    BY <1>1 DEF Macs
  <2>2. a \in Macs
    BY <1>1 DEF Macs
  <2> QED BY <2>1, <2>2
<1>5. /\ Kept(c, n, {"radio", "rxSlot"}) /\ c.radio = "RXC" /\ c.timers = n.timers
      /\ Kept(a, n, {"radio", "rxSlot", "timers"}) /\ a.radio = "RX"
      /\ a.timers = n.timers \cup {"RxTimeout"}
  BY <1>1 DEF Macs, Kept, Fields
<1> HIDE DEF c, a
<1>6. /\ Kept(c, m, {"timers", "radio", "rxSlot"}) /\ Kept(a, m, {"timers", "radio", "rxSlot"})
      /\ Kept(n, m, {"timers", "radio", "rxSlot"})
  BY <1>1, <1>5 DEF Kept
<1>7. CASE ~RadioIdle(m)
  <2>1. OpenRx2(m) = n
    BY <1>3, <1>7
  <2> QED BY <1>1, <1>2, <1>4, <1>5, <1>6, <1>7, <2>1
<1>8. CASE RadioIdle(m) /\ m.class = "C"
  <2>1. OpenRx2(m) = c
    BY <1>3, <1>8
  <2> QED BY <1>1, <1>2, <1>4, <1>5, <1>6, <1>8, <2>1
<1>9. CASE RadioIdle(m) /\ m.class = "A"
  <2>1. OpenRx2(m) = a
    BY <1>3, <1>9
  <2> QED BY <1>1, <1>2, <1>4, <1>5, <1>6, <1>9, <2>1
<1> QED BY <1>2, <1>7, <1>8, <1>9

\* The continuous window of class C opens under the same condition.
LEMMA ContinuousWindowOpened ==
  ASSUME NEW m \in Macs, m.class = "C"
  PROVE  LET r == OpenContinuousRx2Window(m) IN
         /\ r \in Macs /\ Kept(r, m, {"timers", "radio", "rxSlot"})
         /\ r.timers = m.timers \ {"RxWindow2"}
         /\ r.radio = IF RadioIdle(m) THEN "RXC" ELSE m.radio
<1> DEFINE n == OpenRx2(m)
<1>1. /\ n \in Macs /\ Kept(n, m, {"timers", "radio", "rxSlot"})
      /\ n.timers = m.timers \ {"RxWindow2"}
      /\ n.radio = IF RadioIdle(m) THEN "RXC" ELSE m.radio
  BY SecondWindowOpened
<1>2. OpenContinuousRx2Window(m) = [n EXCEPT !.rxSlot = "CLASS_C"]
  BY DEF OpenContinuousRx2Window
<1> HIDE DEF n
<1>3. [n EXCEPT !.rxSlot = "CLASS_C"] \in Macs
  BY <1>1 DEF Macs
<1>4. /\ Kept([n EXCEPT !.rxSlot = "CLASS_C"], n, {"rxSlot"})
  BY <1>1 DEF Macs, Kept, Fields
<1> QED BY <1>1, <1>2, <1>3, <1>4 DEF Kept, Fields

\* OnAckTimeout orders a retry of what asked for an ACK; in class C it also
\* ends the procedure.
LEMMA AckTimedOut ==
  ASSUME NEW m \in Macs
  PROVE  LET r == OnAckTimeout(m) IN
         /\ r \in Macs /\ Kept(r, m, {"timers", "ackRetry", "flags"})
         /\ r.timers = m.timers \ {"AckTimeout"}
         /\ r.ackRetry = (m.ackRetry \/ m.nodeAck)
         /\ r.flags = IF m.class = "C" THEN m.flags \cup {"MacDone"} ELSE m.flags
<1> DEFINE m1 == TimerStop(m, "AckTimeout")
           m2 == IF m.nodeAck THEN [m1 EXCEPT !.ackRetry = TRUE] ELSE m1
<1>1. m1 \in Macs /\ Kept(m1, m, {"timers"}) /\ m1.timers = m.timers \ {"AckTimeout"}
  BY BaseTypes, BaseEffects DEF Timers
<1>2. OnAckTimeout(m) = IF m.class = "C" THEN Mark(m2, {"MacDone"}) ELSE m2
  BY DEF OnAckTimeout
<1> HIDE DEF m1
<1>3. /\ m2 \in Macs /\ Kept(m2, m1, {"ackRetry"})
      /\ m2.ackRetry = IF m.nodeAck THEN TRUE ELSE m1.ackRetry
  <2> DEFINE n == [m1 EXCEPT !.ackRetry = TRUE]
  <2>1. n \in Macs
    BY <1>1 DEF Macs
  <2>2. Kept(n, m1, {"ackRetry"}) /\ n.ackRetry = TRUE
    BY <1>1 DEF Macs, Kept, Fields
  <2>3. Kept(m1, m1, {"ackRetry"})
    BY DEF Kept
  <2> HIDE DEF n
  <2>4. m2 = IF m.nodeAck THEN n ELSE m1
    BY DEF n
  <2> HIDE DEF m2
  <2> QED BY <1>1, <2>1, <2>2, <2>3, <2>4
<1> HIDE DEF m2
<1>4. /\ m2.timers = m.timers \ {"AckTimeout"} /\ m2.flags = m.flags
      /\ Kept(m2, m, {"timers", "ackRetry"}) /\ m1.ackRetry = m.ackRetry
  BY <1>1, <1>3 DEF Kept, Fields
<1>10. m2.ackRetry = (m.ackRetry \/ m.nodeAck)
  <2>1. m.ackRetry \in BOOLEAN /\ m.nodeAck \in BOOLEAN
    BY DEF Macs
  <2> QED BY <1>3, <1>4, <2>1
<1>5. /\ Mark(m2, {"MacDone"}) \in Macs /\ Kept(Mark(m2, {"MacDone"}), m2, {"flags"})
      /\ Mark(m2, {"MacDone"}).flags = m2.flags \cup {"MacDone"}
  BY <1>3, BaseTypes, BaseEffects
<1>6. CASE m.class = "C"
  <2>1. OnAckTimeout(m) = Mark(m2, {"MacDone"})
    BY <1>2, <1>6
  <2> QED BY <1>4, <1>5, <1>6, <1>10, <2>1 DEF Kept, Fields
<1>7. CASE m.class # "C"
  <2>1. OnAckTimeout(m) = m2
    BY <1>2, <1>7
  <2> QED BY <1>3, <1>4, <1>7, <1>10, <2>1 DEF Kept, Fields
<1> QED BY <1>6, <1>7

\* A window that received nothing leaves the radio asleep and every element
\* of the queue answered.
LEMMA WindowLost ==
  ASSUME NEW m \in Macs
  PROVE  LET r == WindowFailed(m) IN
         /\ r \in Macs /\ Kept(r, m, {"timers", "radio", "mcps", "common", "queue"})
         /\ r.timers = m.timers \ {"RxTimeout"} /\ r.radio = "SLEEP"
         /\ r.mcps.AckReceived = m.mcps.AckReceived /\ r.mcps.Request = m.mcps.Request
         /\ r.mcps.Status \in {m.mcps.Status, "RX_FAIL"}
         /\ m.nodeAck \/ r.mcps.Status = m.mcps.Status
         /\ r.common = "RX_FAIL" /\ r.queue = AnswerAll(m.queue, "RX_FAIL")
<1> DEFINE m1 == Sleep(TimerStop(m, "RxTimeout"))
           m2 == IF m.nodeAck THEN [m1 EXCEPT !.mcps.Status = "RX_FAIL"] ELSE m1
           r  == SetStatusCmn(m2, "RX_FAIL")
<1>1. WindowFailed(m) = r
  BY DEF WindowFailed
<1>2. m1 \in Macs
  BY DEF Sleep, TimerStop, Macs
<1>3. /\ Kept(m1, m, {"timers", "radio"}) /\ m1.timers = m.timers \ {"RxTimeout"}
      /\ m1.radio = "SLEEP"
  BY DEF Sleep, TimerStop, Macs, Kept, Fields
<1> HIDE DEF m1
<1>4. m2 \in Macs
  <2>1. [m1 EXCEPT !.mcps.Status = "RX_FAIL"] \in Macs
    BY <1>2 DEF Macs, Results
  <2> QED BY <1>2, <2>1
<1>5. /\ Kept(m2, m1, {"mcps"}) /\ m2.mcps.AckReceived = m1.mcps.AckReceived
      /\ m2.mcps.Request = m1.mcps.Request /\ m2.mcps.Status \in {m1.mcps.Status, "RX_FAIL"}
      /\ m.nodeAck \/ m2.mcps.Status = m1.mcps.Status
  BY <1>2 DEF Macs, Kept, Fields
<1> HIDE DEF m2
<1>6. /\ r \in Macs /\ Kept(r, m2, {"common", "queue"})
      /\ r.common = "RX_FAIL" /\ r.queue = AnswerAll(m2.queue, "RX_FAIL")
  BY <1>4, StatusSet DEF Results
<1> HIDE DEF r
<1>7. Kept(r, m, {"timers", "radio", "mcps", "common", "queue"})
  BY <1>3, <1>5, <1>6 DEF Kept
<1>8. /\ r.timers = m.timers \ {"RxTimeout"} /\ r.radio = "SLEEP" /\ r.mcps = m2.mcps
      /\ m1.mcps = m.mcps /\ m2.queue = m.queue
  BY <1>3, <1>5, <1>6 DEF Kept, Fields
<1> QED BY <1>1, <1>5, <1>6, <1>7, <1>8

\* OnRadioRxError and OnRadioRxTimeout end the procedure of a class A device
\* only with its second window.
LEMMA WindowEnded ==
  ASSUME NEW m \in Macs, NEW late \in BOOLEAN
  PROVE  LET r == EndWindow(m, late) IN
         /\ r \in Macs
         /\ Kept(r, m, {"timers", "radio", "rxSlot", "mcps", "common", "queue", "flags"})
         /\ r.mcps.AckReceived = m.mcps.AckReceived
         /\ r.mcps.Request = m.mcps.Request
         /\ r.mcps.Status \in {m.mcps.Status, "RX_FAIL"}
         /\ m.nodeAck \/ r.mcps.Status = m.mcps.Status
         /\ r.common = "RX_FAIL" /\ r.queue = AnswerAll(m.queue, "RX_FAIL")
         /\ m.class = "C" => /\ r.timers = m.timers \ {"RxTimeout", "RxWindow2"}
                             /\ r.radio = "RXC" /\ r.flags = m.flags
         /\ m.class = "A" =>
              /\ r.radio = "SLEEP"
              /\ \/ /\ m.rxSlot # "WIN_1" /\ r.timers = m.timers \ {"RxTimeout"}
                    /\ r.flags = m.flags \cup {"MacDone"}
                 \/ /\ m.rxSlot = "WIN_1" /\ late /\ r.flags = m.flags \cup {"MacDone"}
                    /\ r.timers = m.timers \ {"RxTimeout", "RxWindow2"}
                 \/ /\ m.rxSlot = "WIN_1" /\ ~late /\ r.flags = m.flags
                    /\ r.timers = m.timers \ {"RxTimeout"}
<1> DEFINE n == WindowFailed(m)
           r == EndWindow(m, late)
<1>1. /\ n \in Macs /\ Kept(n, m, {"timers", "radio", "mcps", "common", "queue"})
      /\ n.timers = m.timers \ {"RxTimeout"} /\ n.radio = "SLEEP"
      /\ n.mcps.AckReceived = m.mcps.AckReceived
      /\ n.mcps.Request = m.mcps.Request
      /\ n.mcps.Status \in {m.mcps.Status, "RX_FAIL"}
      /\ m.nodeAck \/ n.mcps.Status = m.mcps.Status
      /\ n.common = "RX_FAIL" /\ n.queue = AnswerAll(m.queue, "RX_FAIL")
  BY WindowLost
<1>2. r = IF m.class = "C" THEN OpenContinuousRx2Window(n)
          ELSE IF m.rxSlot # "WIN_1" THEN Mark(n, {"MacDone"})
          ELSE IF late THEN Mark(TimerStop(n, "RxWindow2"), {"MacDone"})
          ELSE n
  BY DEF EndWindow
<1> HIDE DEF n, r
<1>3. m.class \in {"A", "C"} /\ n.class = m.class /\ n.flags = m.flags /\ n.rxSlot = m.rxSlot
  <2>1. m.class \in {"A", "C"}
    BY DEF Macs
  <2> QED BY <1>1, <2>1 DEF Kept, Fields
<1>4. CASE m.class = "C"
  <2>1. /\ r \in Macs /\ Kept(r, n, {"timers", "radio", "rxSlot"})
        /\ r.timers = n.timers \ {"RxWindow2"} /\ r.radio = "RXC"
    BY <1>1, <1>2, <1>3, <1>4, ContinuousWindowOpened DEF RadioIdle
  <2>2. Kept(r, m, {"timers", "radio", "rxSlot", "mcps", "common", "queue", "flags"})
    BY <1>1, <2>1 DEF Kept
  <2>3. r.mcps = n.mcps /\ r.common = n.common /\ r.queue = n.queue /\ r.flags = n.flags
    BY <2>1 DEF Kept, Fields
  <2> QED BY <1>1, <1>3, <1>4, <2>1, <2>2, <2>3 DEF r
<1>5. CASE m.class = "A" /\ m.rxSlot # "WIN_1"
  <2>1. r \in Macs /\ Kept(r, n, {"flags"}) /\ r.flags = n.flags \cup {"MacDone"}
    BY <1>1, <1>2, <1>5, BaseTypes, BaseEffects
  <2>2. Kept(r, m, {"timers", "radio", "rxSlot", "mcps", "common", "queue", "flags"})
    BY <1>1, <2>1 DEF Kept
  <2>3. r.mcps = n.mcps /\ r.common = n.common /\ r.queue = n.queue /\ r.timers = n.timers
        /\ r.radio = n.radio
    BY <2>1 DEF Kept, Fields
  <2> QED BY <1>1, <1>3, <1>5, <2>1, <2>2, <2>3 DEF r
<1>6. CASE m.class = "A" /\ m.rxSlot = "WIN_1" /\ late
  <2> DEFINE n2 == TimerStop(n, "RxWindow2")
  <2>0. n2 \in Macs /\ Kept(n2, n, {"timers"}) /\ n2.timers = n.timers \ {"RxWindow2"}
    BY <1>1, BaseTypes, BaseEffects DEF Timers
  <2>1. r \in Macs /\ Kept(r, n2, {"flags"}) /\ r.flags = n2.flags \cup {"MacDone"}
    BY <1>2, <1>6, <2>0, BaseTypes, BaseEffects
  <2> HIDE DEF n2
  <2>2. Kept(r, m, {"timers", "radio", "rxSlot", "mcps", "common", "queue", "flags"})
    BY <1>1, <2>0, <2>1 DEF Kept
  <2>3. r.mcps = n.mcps /\ r.common = n.common /\ r.queue = n.queue /\ r.timers = n2.timers
        /\ r.radio = n.radio /\ n2.flags = n.flags
    BY <2>0, <2>1 DEF Kept, Fields
  <2> QED BY <1>1, <1>3, <1>6, <2>0, <2>1, <2>2, <2>3 DEF r
<1>7. CASE m.class = "A" /\ m.rxSlot = "WIN_1" /\ ~late
  <2>1. r = n
    BY <1>2, <1>7
  <2>2. Kept(n, m, {"timers", "radio", "rxSlot", "mcps", "common", "queue", "flags"})
    BY <1>1 DEF Kept
  <2> QED BY <1>1, <1>3, <1>7, <2>1, <2>2 DEF r
<1> QED BY <1>3, <1>4, <1>5, <1>6, <1>7

-----------------------------------------------------------------------------
(* Parts of the invariant that a step does not disturb.                      *)

\* AnswerAll keeps the invariant of the queue and makes it ready.
LEMMA QueueAnswered ==
  ASSUME NEW m \in Macs, NEW r, NEW st \in Results, Queue(m), r.queue = AnswerAll(m.queue, st)
  PROVE  /\ Queue(r) /\ \A i \in DOMAIN r.queue : r.queue[i].ReadyToHandle
         /\ IsQueued(r.queue, "JOIN") <=> IsQueued(m.queue, "JOIN")
         /\ Len(r.queue) = Len(m.queue)
         /\ Len(r.queue) = 1 => r.queue[1].Status = st
         /\ m.queue = <<>> => r.queue = <<>>
<1>1. m.queue \in Seq(MlmeElement)
  BY DEF Macs
<1> DEFINE q == m.queue
           a == r.queue
<1>2. /\ a \in Seq(MlmeElement) /\ Len(a) = Len(q) /\ DOMAIN a = DOMAIN q
      /\ \A i \in DOMAIN q :
           /\ a[i].Request = q[i].Request /\ a[i].RestrictCommon = q[i].RestrictCommon
           /\ a[i].Status = st
           /\ a[i].ReadyToHandle = (q[i].ReadyToHandle \/ ~q[i].RestrictCommon)
  BY <1>1, AnsweredAll
<1>3. Len(q) <= QueueLen /\ \A i \in DOMAIN q : ~q[i].RestrictCommon
  BY DEF Queue
<1>4. DOMAIN a = 1 .. Len(a) /\ DOMAIN q = 1 .. Len(q)
  BY <1>1, <1>2
<1>5. q = <<>> => a = <<>>
  BY <1>1, <1>2
<1> HIDE DEF a, q
<1>6. /\ Len(a) <= QueueLen /\ \A i \in DOMAIN a : ~a[i].RestrictCommon /\ a[i].ReadyToHandle
      /\ (\E i \in DOMAIN a : a[i].Request = "JOIN") <=> (\E i \in DOMAIN q : q[i].Request = "JOIN")
  BY <1>2, <1>3, <1>4
<1>7. Len(a) = 1 => a[1].Status = st
  <2>1. Len(a) = 1 => 1 \in DOMAIN q
    BY <1>2, <1>4
  <2> QED BY <1>2, <2>1
<1> QED BY <1>2, <1>5, <1>6, <1>7 DEF a, q, Queue, IsQueued

-----------------------------------------------------------------------------
(* Channel sensing and transmission.                                         *)

\* The count of channel sensings stays within its bound.
LEMMA CadCounted ==
  ASSUME NEW m \in Macs, NEW more \in BOOLEAN, more => m.cadCnt < CadMax
  PROVE  LET r == [m EXCEPT !.cadCnt = IF more THEN @ + 1 ELSE 1] IN
         r \in Macs /\ Kept(r, m, {"cadCnt"})
<1> DEFINE n == IF more THEN m.cadCnt + 1 ELSE 1
<1>1. n \in 1 .. CadMax
  <2>1. m.cadCnt \in 1 .. CadMax
    BY DEF Macs
  <2> QED BY <2>1, BoundsAssumption
<1> HIDE DEF n
<1>2. [m EXCEPT !.cadCnt = n] \in Macs
  BY <1>1 DEF Macs
<1>3. Kept([m EXCEPT !.cadCnt = n], m, {"cadCnt"})
  BY DEF Macs, Kept, Fields
<1>4. [m EXCEPT !.cadCnt = IF more THEN @ + 1 ELSE 1] = [m EXCEPT !.cadCnt = n]
  BY DEF n
<1> QED BY <1>2, <1>3, <1>4

\* A sensed channel leads to another delay or to the transmission.
LEMMA CadDoneEffect ==
  ASSUME mac \in Macs, NEW busy \in BOOLEAN, CadDone(busy)
  PROVE  /\ mac' \in Macs
         /\ Kept(mac', mac, {"state", "timers", "radio", "cadCnt"})
         /\ mac'.radio = "SLEEP"
         /\ \/ /\ mac'.state = (mac.state \ {"CAD_RUNNING"}) \cup {"TX_DELAYED"}
               /\ mac'.timers = (mac.timers \ {"CadTimeout"}) \cup {"TxDelayed"}
            \/ /\ mac'.state = (mac.state \ {"CAD_RUNNING"}) \cup {"TX_RUNNING"}
               /\ mac'.timers = (mac.timers \ {"CadTimeout"}) \cup {"TxImmediate"}
<1> DEFINE m1 == Sleep(Clear(TimerStop(mac, "CadTimeout"), {"CAD_RUNNING"}))
           a  == [m1 EXCEPT !.cadCnt = @ + 1]
           b  == [m1 EXCEPT !.cadCnt = 1]
           more == busy /\ mac.cadCnt < CadMax
<1>1. m1 \in Macs
  BY DEF Sleep, Clear, TimerStop, Macs
<1>2. /\ Kept(m1, mac, {"state", "timers", "radio"}) /\ m1.radio = "SLEEP"
      /\ m1.state = mac.state \ {"CAD_RUNNING"} /\ m1.timers = mac.timers \ {"CadTimeout"}
  BY DEF Sleep, Clear, TimerStop, Macs, Kept, Fields
<1>3. mac' = IF more THEN TimerStart(Raise(a, {"TX_DELAYED"}), "TxDelayed")
                     ELSE TimerStart(Raise(b, {"TX_RUNNING"}), "TxImmediate")
  BY DEF CadDone
<1> HIDE DEF m1
<1>4. m1.cadCnt = mac.cadCnt
  BY <1>2 DEF Kept, Fields
<1>5. CASE more
  <2>1. a \in Macs /\ Kept(a, m1, {"cadCnt"})
    <3>1. a = [m1 EXCEPT !.cadCnt = IF TRUE THEN @ + 1 ELSE 1] /\ m1.cadCnt < CadMax
      BY <1>4, <1>5
    <3> QED BY <1>1, <3>1, CadCounted
  <2>2. mac' = TimerStart(Raise(a, {"TX_DELAYED"}), "TxDelayed")
    BY <1>3, <1>5
  <2> HIDE DEF a
  <2>3. mac' \in Macs
    BY <2>1, <2>2 DEF TimerStart, Raise, Macs
  <2>4. /\ Kept(mac', a, {"state", "timers"}) /\ mac'.state = a.state \cup {"TX_DELAYED"}
        /\ mac'.timers = a.timers \cup {"TxDelayed"}
    BY <2>1, <2>2 DEF TimerStart, Raise, Macs, Kept, Fields
  <2>5. a.state = m1.state /\ a.timers = m1.timers /\ mac'.radio = m1.radio
    BY <2>1, <2>4 DEF Kept, Fields
  <2>6. Kept(mac', mac, {"state", "timers", "radio", "cadCnt"})
    BY <1>2, <2>1, <2>4 DEF Kept
  <2> QED BY <1>2, <2>3, <2>4, <2>5, <2>6
<1>6. CASE ~more
  <2>1. b \in Macs /\ Kept(b, m1, {"cadCnt"})
    <3>1. b = [m1 EXCEPT !.cadCnt = IF FALSE THEN @ + 1 ELSE 1]
      OBVIOUS
    <3> QED BY <1>1, <3>1, CadCounted
  <2>2. mac' = TimerStart(Raise(b, {"TX_RUNNING"}), "TxImmediate")
    BY <1>3, <1>6
  <2> HIDE DEF b
  <2>3. mac' \in Macs
    BY <2>1, <2>2 DEF TimerStart, Raise, Macs
  <2>4. /\ Kept(mac', b, {"state", "timers"}) /\ mac'.state = b.state \cup {"TX_RUNNING"}
        /\ mac'.timers = b.timers \cup {"TxImmediate"}
    BY <2>1, <2>2 DEF TimerStart, Raise, Macs, Kept, Fields
  <2>5. b.state = m1.state /\ b.timers = m1.timers /\ mac'.radio = m1.radio
    BY <2>1, <2>4 DEF Kept, Fields
  <2>6. Kept(mac', mac, {"state", "timers", "radio", "cadCnt"})
    BY <1>2, <2>1, <2>4 DEF Kept
  <2> QED BY <1>2, <2>3, <2>4, <2>5, <2>6
<1> QED BY <1>5, <1>6

\* The end of the channel sensing keeps the invariant.
LEMMA CadDoneStep ==
  ASSUME IInv, NEW busy \in BOOLEAN, CadDone(busy)
  PROVE  IInv'
<1>1. Sensing(mac) /\ ~Over(mac) /\ ~Done(mac)
  BY DEF CadDone, IInv, Macs, Phase, InPhase, Idle, Sensing, Delayed, Imminent, OnAir, Listening,
         Over, Resting, Others, Windows, Done
<1>2. /\ mac' \in Macs
      /\ mac'.radio = "SLEEP"
      /\ \/ /\ mac'.state = (mac.state \ {"CAD_RUNNING"}) \cup {"TX_DELAYED"}
            /\ mac'.timers = (mac.timers \ {"CadTimeout"}) \cup {"TxDelayed"}
         \/ /\ mac'.state = (mac.state \ {"CAD_RUNNING"}) \cup {"TX_RUNNING"}
            /\ mac'.timers = (mac.timers \ {"CadTimeout"}) \cup {"TxImmediate"}
  BY CadDoneEffect DEF IInv
<1>3. /\ mac'.flags = mac.flags /\ mac'.class = mac.class /\ mac'.nodeAck = mac.nodeAck
      /\ mac'.ackRetry = mac.ackRetry /\ mac'.ackMax = mac.ackMax /\ mac'.ackCnt = mac.ackCnt
      /\ mac'.joined = mac.joined /\ mac'.queue = mac.queue /\ mac'.mcps = mac.mcps
      /\ mac'.common = mac.common /\ mac'.mlmeRequest = mac.mlmeRequest
      /\ mac'.joinTrials = mac.joinTrials
  BY CadDoneEffect DEF IInv, Kept, Fields
<1>4. Delayed(mac') \/ Imminent(mac')
  BY <1>1, <1>2 DEF Sensing, Delayed, Imminent, Others, Resting
<1>5. /\ ~Over(mac') /\ ~Listening(mac') /\ ~OnAir(mac') /\ mac'.state # {} /\ mac.state # {}
      /\ "AckTimeout" \notin mac'.timers
  BY <1>1, <1>4 DEF Sensing, Delayed, Imminent, Over, Listening, OnAir, Others, Windows, Resting
<1>6. Phase(mac')
  BY <1>1, <1>2, <1>3, <1>4, <1>5 DEF Phase, InPhase, IInv, Done
<1>7. Acks(mac')
  BY <1>1, <1>3, <1>5 DEF Acks, IInv, TimedOut, Done, Sensing, Listening
<1>8. Uplink(mac')
  BY <1>1, <1>3, <1>5 DEF Uplink, IInv
<1>9. Joins(mac')
  BY <1>1, <1>3, <1>4, <1>5 DEF Joins, IInv
<1>10. Queue(mac')
  BY <1>1, <1>2, <1>3 DEF Queue, IInv
<1> QED BY <1>2, <1>6, <1>7, <1>8, <1>9, <1>10 DEF IInv

\* SendFrameOnChannel puts the radio to transmission and starts the state check.
LEMMA FrameSent ==
  ASSUME NEW m \in Macs
  PROVE  LET r == SendFrameOnChannel(m) IN
         /\ r \in Macs
         /\ Kept(r, m, {"common", "queue", "mcps", "radio", "timers", "joinTrials",
                        "counterUsed", "sent", "state"})
         /\ r.common = "ERROR" /\ r.queue = AnswerAll(m.queue, "ERROR")
         /\ r.mcps.Status = "ERROR" /\ r.mcps.AckReceived = m.mcps.AckReceived
         /\ r.mcps.Request = m.mcps.Request /\ r.sent <= m.sent + 1
         /\ r.radio = "TX" /\ r.timers = m.timers \cup {"MacStateCheck", "TxTimeout"}
         /\ r.joinTrials = IF m.joined THEN m.joinTrials ELSE m.joinTrials + 1
         /\ r.state = m.state \cup {"TX_RUNNING"}
<1> DEFINE m1 == SetStatusCmn(m, "ERROR")
           trials == IF m.joined THEN m1.joinTrials ELSE m1.joinTrials + 1
           used == m1.counterUsed \/ m1.frame \in {"FRESH", "REUSED"}
           times == Least(m1.sent + 1, SentCap)
           m2 == [m1 EXCEPT !.mcps.Status = "ERROR", !.radio = "TX",
                            !.timers = @ \cup {"MacStateCheck", "TxTimeout"},
                            !.joinTrials = IF m.joined THEN @ ELSE @ + 1,
                            !.counterUsed = @ \/ m1.frame \in {"FRESH", "REUSED"},
                            !.sent = Least(@ + 1, SentCap)]
           r  == Raise(m2, {"TX_RUNNING"})
<1>1. /\ m1 \in Macs /\ Kept(m1, m, {"common", "queue"})
      /\ m1.common = "ERROR" /\ m1.queue = AnswerAll(m.queue, "ERROR")
  BY StatusSet DEF Results
<1>0. m1.frame = m.frame
  BY <1>1 DEF Kept, Fields
<1>2. SendFrameOnChannel(m) = r
  BY <1>0 DEF SendFrameOnChannel
<1> HIDE DEF m1
<1>20. m2 = [m1 EXCEPT !.mcps.Status = "ERROR", !.radio = "TX",
                       !.timers = @ \cup {"MacStateCheck", "TxTimeout"},
                       !.joinTrials = trials, !.counterUsed = used, !.sent = times]
  BY <1>1 DEF Macs
<1> HIDE DEF m2
<1>3. /\ m1.joinTrials = m.joinTrials /\ m1.mcps = m.mcps /\ m1.timers = m.timers
      /\ m1.state = m.state /\ m1.sent = m.sent
  BY <1>1 DEF Kept, Fields
<1>4. trials \in Nat /\ used \in BOOLEAN /\ times \in 0 .. SentCap /\ times <= m1.sent + 1
  <2>1. m1.joinTrials \in Nat /\ m1.sent \in 0 .. SentCap /\ SentCap \in Nat
    BY <1>1, BoundsAssumption DEF Macs
  <2> QED BY <2>1 DEF Least
<1>5. trials = IF m.joined THEN m.joinTrials ELSE m.joinTrials + 1
  BY <1>3
<1> HIDE DEF trials, used, times
<1>6. m2 \in Macs
  BY <1>1, <1>4, <1>20, ZenonT(40) DEF Macs, Results
<1>7. /\ Kept(m2, m1, {"mcps", "radio", "timers", "joinTrials", "counterUsed", "sent"})
      /\ m2.mcps.Status = "ERROR" /\ m2.mcps.AckReceived = m1.mcps.AckReceived
      /\ m2.mcps.Request = m1.mcps.Request /\ m2.sent = times
      /\ m2.radio = "TX" /\ m2.timers = m1.timers \cup {"MacStateCheck", "TxTimeout"}
      /\ m2.joinTrials = trials
  BY <1>1, <1>20 DEF Macs, Kept, Fields
<1>8. r \in Macs /\ Kept(r, m2, {"state"}) /\ r.state = m2.state \cup {"TX_RUNNING"}
  BY <1>6, BaseTypes, BaseEffects
<1> HIDE DEF r
<1>9. Kept(r, m, {"common", "queue", "mcps", "radio", "timers", "joinTrials",
                  "counterUsed", "sent", "state"})
  BY <1>1, <1>7, <1>8 DEF Kept
<1>10. /\ r.common = m1.common /\ r.queue = m1.queue /\ r.mcps = m2.mcps /\ r.radio = m2.radio
       /\ r.timers = m2.timers /\ r.joinTrials = m2.joinTrials /\ m2.state = m1.state
       /\ r.sent = m2.sent
  BY <1>7, <1>8 DEF Kept, Fields
<1> QED BY <1>1, <1>2, <1>3, <1>4, <1>5, <1>7, <1>8, <1>9, <1>10

\* The transmission keeps the invariant.
LEMMA TxImmediateStep ==
  ASSUME IInv, TxImmediate
  PROVE  IInv'
<1> DEFINE m == TimerStop(mac, "TxImmediate")
<1>1. Imminent(mac) /\ ~Over(mac) /\ ~Done(mac) /\ ~Listening(mac)
  BY DEF TxImmediate, IInv, Macs, Phase, InPhase, Idle, Sensing, Delayed, Imminent, OnAir,
         Listening, Over, Resting, Others, Windows, Done
<1>2. m \in Macs /\ Kept(m, mac, {"timers"}) /\ m.timers = mac.timers \ {"TxImmediate"}
  BY BaseTypes, BaseEffects DEF IInv, Timers
<1>3. mac' = SendFrameOnChannel(m)
  BY DEF TxImmediate
<1> HIDE DEF m
<1>4. /\ mac' \in Macs
      /\ Kept(mac', m, {"common", "queue", "mcps", "radio", "timers", "joinTrials",
                     "counterUsed", "sent", "state"})
      /\ mac'.common = "ERROR" /\ mac'.queue = AnswerAll(m.queue, "ERROR")
      /\ mac'.mcps.Status = "ERROR" /\ mac'.mcps.AckReceived = m.mcps.AckReceived
      /\ mac'.radio = "TX" /\ mac'.timers = m.timers \cup {"MacStateCheck", "TxTimeout"}
      /\ mac'.joinTrials = IF m.joined THEN m.joinTrials ELSE m.joinTrials + 1
      /\ mac'.state = m.state \cup {"TX_RUNNING"}
  BY <1>2, <1>3, FrameSent
<1>5. /\ mac'.flags = mac.flags /\ mac'.class = mac.class /\ mac'.nodeAck = mac.nodeAck
      /\ mac'.ackRetry = mac.ackRetry /\ mac'.ackMax = mac.ackMax /\ mac'.ackCnt = mac.ackCnt
      /\ mac'.joined = mac.joined /\ mac'.mlmeRequest = mac.mlmeRequest
      /\ mac'.queue = AnswerAll(mac.queue, "ERROR")
      /\ mac'.mcps.AckReceived = mac.mcps.AckReceived
      /\ mac'.joinTrials = IF mac.joined THEN mac.joinTrials ELSE mac.joinTrials + 1
      /\ mac'.state = mac.state \cup {"TX_RUNNING"}
      /\ mac'.timers = (mac.timers \ {"TxImmediate"}) \cup {"MacStateCheck", "TxTimeout"}
  BY <1>2, <1>4 DEF Kept, Fields
<1>6. OnAir(mac')
  BY <1>1, <1>4, <1>5 DEF Imminent, OnAir, Others
<1>7. /\ ~Over(mac') /\ ~Listening(mac') /\ mac'.state # {} /\ mac.state # {}
      /\ "AckTimeout" \notin mac'.timers
      /\ ~Sensing(mac') /\ ~Delayed(mac') /\ ~Imminent(mac')
  BY <1>1, <1>6 DEF Sensing, Delayed, Imminent, Over, Listening, OnAir, Others, Windows, Resting
<1>8. /\ Queue(mac')
      /\ IsQueued(mac'.queue, "JOIN") <=> IsQueued(mac.queue, "JOIN")
      /\ Len(mac'.queue) = Len(mac.queue) /\ (Len(mac'.queue) = 1 => mac'.queue[1].Status = "ERROR")
  BY <1>5, QueueAnswered DEF IInv, Results
<1>9. Phase(mac')
  BY <1>1, <1>4, <1>5, <1>6, <1>7 DEF Phase, InPhase, IInv, Done
<1>10. Acks(mac')
  BY <1>1, <1>4, <1>5, <1>7 DEF Acks, IInv, TimedOut, Done
<1>11. Uplink(mac')
  BY <1>1, <1>5, <1>7, <1>8 DEF Uplink, IInv
<1>12. mac'.joinTrials \in 0 .. MaxJoinTrials
  BY <1>1, <1>5, BoundsAssumption DEF Joins, IInv
<1>13. Joins(mac')
  BY <1>1, <1>5, <1>7, <1>8, <1>12 DEF Joins, IInv
<1> QED BY <1>4, <1>8, <1>9, <1>10, <1>11, <1>13 DEF IInv

\* The end of the duty cycle delay keeps the invariant.
LEMMA TxDelayedStep ==
  ASSUME IInv, OrderlyUse, NEW out \in Outcomes, TxDelayed(out)
  PROVE  IInv'
<1>1. Delayed(mac) /\ ~Over(mac) /\ ~Done(mac) /\ ~Listening(mac)
  BY DEF TxDelayed, IInv, Macs, Phase, InPhase, Idle, Sensing, Delayed, Imminent, OnAir,
         Listening, Over, Resting, Others, Windows, Done
<1>2. out \in {"CAD", "DELAY"}
  BY DEF TxDelayed, DataRateMayChange, OrderlyUse, Outcomes, IInv, Phase
<1>3. mac' = SendDelayed(mac, out) /\ mac.ackCnt \in 1 .. mac.ackMax
  BY DEF TxDelayed, IInv, Acks
<1>4. /\ mac' \in Macs /\ Kept(mac', mac, Restarted \cup {"state", "timers", "radio", "frame"})
      /\ out = "CAD" => /\ mac'.state = (mac.state \ {"TX_DELAYED"}) \cup {"CAD_RUNNING"}
                        /\ mac'.timers = (mac.timers \ {"TxDelayed"}) \cup {"CadTimeout"}
                        /\ mac'.radio = "CAD"
      /\ out = "DELAY" => /\ mac'.state = mac.state \cup {"TX_DELAYED"}
                          /\ mac'.timers = mac.timers \cup {"TxDelayed"}
                          /\ mac'.radio = mac.radio
      /\ mac'.ackCnt \in 1 .. mac'.ackMax
      /\ mac'.nodeAck => mac.nodeAck
      /\ mac'.ackRetry => mac.ackRetry /\ mac'.nodeAck = mac.nodeAck
  BY <1>3, DelayedSent DEF IInv
<1>5. /\ mac'.flags = mac.flags /\ mac'.class = mac.class
      /\ mac'.joined = mac.joined /\ mac'.queue = mac.queue /\ mac'.mcps = mac.mcps
      /\ mac'.common = mac.common /\ mac'.mlmeRequest = mac.mlmeRequest
      /\ mac'.joinTrials = mac.joinTrials
  BY <1>4 DEF Kept, Fields, Restarted
<1>6. Sensing(mac') \/ Delayed(mac')
  BY <1>1, <1>2, <1>4 DEF Sensing, Delayed, Others, Resting
<1>7. /\ ~Over(mac') /\ ~Listening(mac') /\ ~OnAir(mac') /\ mac'.state # {} /\ mac.state # {}
      /\ "AckTimeout" \notin mac'.timers /\ (mac'.radio = "RXC" => mac.radio = "RXC")
      /\ ("MacStateCheck" \in mac'.timers => "MacStateCheck" \in mac.timers)
  BY <1>1, <1>2, <1>4, <1>6 DEF Sensing, Delayed, Over, Listening, OnAir, Others, Windows, Resting
<1>8. Phase(mac')
  BY <1>1, <1>5, <1>6, <1>7 DEF Phase, InPhase, IInv, Done
<1>9. Acks(mac')
  BY <1>1, <1>4, <1>5, <1>7 DEF Acks, IInv, TimedOut, Done
<1>10. Uplink(mac')
  BY <1>5, <1>7 DEF Uplink, IInv
<1>11. Joins(mac')
  BY <1>1, <1>4, <1>5, <1>7 DEF Joins, IInv
<1>12. Queue(mac')
  BY <1>5, <1>7 DEF Queue, IInv
<1> QED BY <1>4, <1>8, <1>9, <1>10, <1>11, <1>12 DEF IInv

\* The end of a transmission starts the windows and the wait for the ACK.
LEMMA TxDoneEffect ==
  ASSUME mac \in Macs, TxDone
  PROVE  /\ mac' \in Macs
         /\ Kept(mac', mac, {"timers", "radio", "rxSlot", "mcps", "nbRep"})
         /\ mac'.timers = (mac.timers \ {"TxTimeout"}) \cup {"RxWindow1"}
                            \cup (IF mac.class = "C" THEN {} ELSE {"RxWindow2"})
                            \cup (IF mac.class = "C" \/ mac.nodeAck THEN {"AckTimeout"} ELSE {})
                          \/ (mac.class = "C" /\ mac'.timers =
                                (mac.timers \ {"TxTimeout", "RxWindow2"})
                                  \cup {"RxWindow1", "AckTimeout"})
         /\ mac'.radio = IF mac.class = "C" THEN "RXC" ELSE "SLEEP"
         /\ mac'.mcps.AckReceived = mac.mcps.AckReceived
         /\ mac'.mcps.Status \in {mac.mcps.Status, "OK"}
         /\ mac'.mcps.Request = mac.mcps.Request
         /\ mac'.nbRep = IF mac.nodeAck THEN mac.nbRep ELSE Least(mac.nbRep + 1, ChannelsNbRep)
<1> DEFINE n  == Sleep(TimerStop(mac, "TxTimeout"))
           ts == n.timers \cup {"RxWindow1"}
                   \cup (IF mac.class = "C" THEN {} ELSE {"RxWindow2"})
                   \cup (IF mac.class = "C" \/ mac.nodeAck THEN {"AckTimeout"} ELSE {})
           m1 == [n EXCEPT !.timers = ts]
           m2 == IF mac.class = "C" THEN OpenContinuousRx2Window(m1) ELSE m1
           k  == Least(m2.nbRep + 1, ChannelsNbRep)
<1>1. n \in Macs
  BY DEF Sleep, TimerStop, Macs
<1>2. Kept(n, mac, {"timers", "radio"}) /\ n.timers = mac.timers \ {"TxTimeout"}
      /\ n.radio = "SLEEP"
  BY DEF Sleep, TimerStop, Macs, Kept, Fields
<1>3. mac' = IF mac.nodeAck THEN m2 ELSE [m2 EXCEPT !.mcps.Status = "OK",
                                                    !.nbRep = Least(@ + 1, ChannelsNbRep)]
  BY DEF TxDone
<1>4. ts = (mac.timers \ {"TxTimeout"}) \cup {"RxWindow1"}
             \cup (IF mac.class = "C" THEN {} ELSE {"RxWindow2"})
             \cup (IF mac.class = "C" \/ mac.nodeAck THEN {"AckTimeout"} ELSE {})
  BY <1>2
<1> HIDE DEF n
<1>5. ts \in SUBSET Timers
  <2>1. n.timers \in SUBSET Timers
    BY <1>1 DEF Macs, Timers
  <2> QED BY <2>1 DEF Timers
<1> HIDE DEF ts
<1>6. m1 \in Macs
  BY <1>1, <1>5 DEF Macs, Timers
<1>7. Kept(m1, n, {"timers"}) /\ m1.timers = ts
  BY <1>1 DEF Macs, Kept, Fields
<1> HIDE DEF m1
<1>8. m1.radio = "SLEEP" /\ m1.class = mac.class /\ Kept(m1, mac, {"timers", "radio"})
  <2>1. Kept(m1, mac, {"timers", "radio"})
    BY <1>2, <1>7 DEF Kept
  <2> QED BY <1>2, <1>7, <2>1 DEF Kept, Fields
<1>9. /\ m2 \in Macs /\ Kept(m2, m1, {"timers", "radio", "rxSlot"})
      /\ m2.timers = ts \/ (mac.class = "C" /\ m2.timers = ts \ {"RxWindow2"})
      /\ m2.radio = IF mac.class = "C" THEN "RXC" ELSE "SLEEP"
  <2>1. CASE mac.class = "C"
    <3>1. m2 = OpenContinuousRx2Window(m1)
      BY <2>1
    <3> HIDE DEF m2
    <3> QED BY <1>6, <1>7, <1>8, <2>1, <3>1, ContinuousWindowOpened DEF RadioIdle
  <2>2. CASE mac.class # "C"
    BY <1>6, <1>7, <1>8, <2>2 DEF Kept
  <2> QED BY <2>1, <2>2
<1> HIDE DEF m2
<1>10. Kept(m2, mac, {"timers", "radio", "rxSlot"})
  BY <1>8, <1>9 DEF Kept
<1>11. k \in 0 .. ChannelsNbRep
  <2>1. m2.nbRep \in 0 .. ChannelsNbRep /\ ChannelsNbRep \in Nat
    BY <1>9, BoundsAssumption DEF Macs
  <2> QED BY <2>1 DEF Least
<1>19. m2.nbRep = mac.nbRep /\ k = Least(mac.nbRep + 1, ChannelsNbRep)
  BY <1>10 DEF Kept, Fields
<1>12. [m2 EXCEPT !.mcps.Status = "OK", !.nbRep = Least(@ + 1, ChannelsNbRep)]
          = [m2 EXCEPT !.mcps.Status = "OK", !.nbRep = k]
  BY <1>9 DEF Macs
<1> HIDE DEF k
<1> DEFINE o == [m2 EXCEPT !.mcps.Status = "OK", !.nbRep = k]
<1>13. o \in Macs
  BY <1>9, <1>11 DEF Macs, Results
<1>14. /\ Kept(o, m2, {"mcps", "nbRep"}) /\ o.mcps.AckReceived = m2.mcps.AckReceived
       /\ o.mcps.Status = "OK" /\ o.mcps.Request = m2.mcps.Request /\ o.nbRep = k
  BY <1>9 DEF Macs, Kept, Fields
<1>15. mac' = IF mac.nodeAck THEN m2 ELSE o
  BY <1>3, <1>12
<1> HIDE DEF o
<1>16. /\ o.timers = m2.timers /\ o.radio = m2.radio /\ m2.mcps = mac.mcps
  BY <1>10, <1>14 DEF Kept, Fields
<1>17. /\ Kept(o, mac, {"timers", "radio", "rxSlot", "mcps", "nbRep"})
       /\ Kept(m2, mac, {"timers", "radio", "rxSlot", "mcps", "nbRep"})
  BY <1>10, <1>14 DEF Kept
<1>18. /\ mac' \in Macs /\ Kept(mac', mac, {"timers", "radio", "rxSlot", "mcps", "nbRep"})
       /\ mac'.timers = m2.timers /\ mac'.radio = m2.radio
       /\ mac'.mcps.AckReceived = mac.mcps.AckReceived
       /\ mac'.mcps.Status \in {mac.mcps.Status, "OK"}
       /\ mac'.mcps.Request = mac.mcps.Request
       /\ mac'.nbRep = IF mac.nodeAck THEN mac.nbRep ELSE k
  BY <1>9, <1>13, <1>14, <1>15, <1>16, <1>17, <1>19
<1> QED BY <1>4, <1>9, <1>18, <1>19

\* The end of a transmission keeps the invariant.
LEMMA TxDoneStep ==
  ASSUME IInv, TxDone
  PROVE  IInv'
<1>1. OnAir(mac) /\ ~Over(mac) /\ ~Done(mac) /\ ~Listening(mac)
  BY DEF TxDone, IInv, Macs, Phase, InPhase, Idle, Sensing, Delayed, Imminent, OnAir,
         Listening, Over, Resting, Others, Windows, Done
<1>2. /\ mac' \in Macs
      /\ mac'.radio = IF mac.class = "C" THEN "RXC" ELSE "SLEEP"
      /\ mac'.mcps.AckReceived = mac.mcps.AckReceived
      /\ mac'.mcps.Status \in {mac.mcps.Status, "OK"}
  BY TxDoneEffect DEF IInv
<1>3. /\ mac'.flags = mac.flags /\ mac'.class = mac.class /\ mac'.nodeAck = mac.nodeAck
      /\ mac'.ackRetry = mac.ackRetry /\ mac'.ackMax = mac.ackMax /\ mac'.ackCnt = mac.ackCnt
      /\ mac'.joined = mac.joined /\ mac'.queue = mac.queue
      /\ mac'.common = mac.common /\ mac'.mlmeRequest = mac.mlmeRequest
      /\ mac'.joinTrials = mac.joinTrials /\ mac'.state = mac.state
  BY TxDoneEffect DEF IInv, Kept, Fields
<1>4. mac'.timers = {"MacStateCheck", "RxWindow1"}
                      \cup (IF mac.class = "C" THEN {} ELSE {"RxWindow2"})
                      \cup (IF mac.class = "C" \/ mac.nodeAck THEN {"AckTimeout"} ELSE {})
  BY <1>1, TxDoneEffect DEF IInv, OnAir
<1>5. mac.class \in {"A", "C"} /\ mac.state = {"TX_RUNNING"}
  BY <1>1 DEF IInv, Macs, OnAir
<1>6. Listening(mac')
  BY <1>2, <1>3, <1>4, <1>5 DEF Listening, Others, Windows, Resting
<1>7. /\ ~Over(mac') /\ ~OnAir(mac') /\ ~Sensing(mac') /\ ~Delayed(mac') /\ ~Imminent(mac')
      /\ "MacStateCheck" \in mac.timers
  BY <1>1, <1>2, <1>3, <1>4, <1>5 DEF Sensing, Delayed, Imminent, Over, OnAir, Others, Resting
<1>8. Phase(mac')
  BY <1>1, <1>2, <1>3, <1>6, <1>7 DEF Phase, InPhase, IInv, Done
<1>9. ~TimedOut(mac) /\ ~TimedOut(mac')
  BY <1>1, <1>2, <1>3 DEF Acks, IInv, TimedOut
<1>10. Acks(mac')
  BY <1>1, <1>2, <1>3, <1>4, <1>6, <1>9 DEF Acks, IInv, Done
<1>11. Uplink(mac')
  BY <1>3 DEF Uplink, IInv
<1>12. Joins(mac')
  BY <1>1, <1>3, <1>5, <1>7 DEF Joins, IInv
<1>13. Queue(mac')
  BY <1>3, <1>7 DEF Queue, IInv
<1> QED BY <1>2, <1>8, <1>10, <1>11, <1>12, <1>13 DEF IInv

\* A transmission that timed out ends the procedure.
LEMMA TxTimeoutEffect ==
  ASSUME mac \in Macs, TxTimeout
  PROVE  /\ mac' \in Macs
         /\ Kept(mac', mac, {"timers", "radio", "rxSlot", "mcps", "common", "queue", "flags"})
         /\ mac'.timers \in {mac.timers \ {"TxTimeout"}, mac.timers \ {"TxTimeout", "RxWindow2"}}
         /\ mac'.radio = IF mac.class = "C" THEN "RXC" ELSE "SLEEP"
         /\ mac'.mcps.AckReceived = mac.mcps.AckReceived
         /\ mac'.mcps.Request = mac.mcps.Request /\ mac'.mcps.Status = "TX_TIMEOUT"
         /\ mac'.queue = AnswerAll(mac.queue, "TX_TIMEOUT")
         /\ mac'.flags = mac.flags \cup {"MacDone"}
<1> DEFINE m1 == Sleep(TimerStop(mac, "TxTimeout"))
           m2 == IF mac.class = "C" THEN OpenContinuousRx2Window(m1) ELSE m1
           n  == [m2 EXCEPT !.mcps.Status = "TX_TIMEOUT"]
           m3 == SetStatusCmn(n, "TX_TIMEOUT")
<1>1. m1 \in Macs
  BY DEF Sleep, TimerStop, Macs
<1>2. Kept(m1, mac, {"timers", "radio"}) /\ m1.timers = mac.timers \ {"TxTimeout"}
      /\ m1.radio = "SLEEP"
  BY DEF Sleep, TimerStop, Macs, Kept, Fields
<1>3. mac' = Mark(m3, {"MacDone"})
  BY DEF TxTimeout
<1> HIDE DEF m1
<1>4. m1.class = mac.class
  BY <1>2 DEF Kept, Fields
<1>5. /\ m2 \in Macs /\ Kept(m2, m1, {"timers", "radio", "rxSlot"})
      /\ m2.timers \in {m1.timers, m1.timers \ {"RxWindow2"}}
      /\ m2.radio = IF mac.class = "C" THEN "RXC" ELSE "SLEEP"
  <2>1. CASE mac.class = "C"
    <3>1. m2 = OpenContinuousRx2Window(m1)
      BY <2>1
    <3> HIDE DEF m2
    <3> QED BY <1>1, <1>2, <1>4, <2>1, <3>1, ContinuousWindowOpened DEF RadioIdle
  <2>2. CASE mac.class # "C"
    BY <1>1, <1>2, <2>2 DEF Kept
  <2> QED BY <2>1, <2>2
<1> HIDE DEF m2
<1>6. n \in Macs
  BY <1>5 DEF Macs, Results
<1>7. Kept(n, m2, {"mcps"}) /\ n.mcps.AckReceived = m2.mcps.AckReceived
      /\ n.mcps.Request = m2.mcps.Request /\ n.mcps.Status = "TX_TIMEOUT"
  BY <1>5 DEF Macs, Kept, Fields
<1> HIDE DEF n
<1>8. /\ m3 \in Macs /\ Kept(m3, n, {"common", "queue"})
      /\ m3.queue = AnswerAll(n.queue, "TX_TIMEOUT")
  BY <1>6, StatusSet DEF Results
<1> HIDE DEF m3
<1>9. /\ mac' \in Macs /\ Kept(mac', m3, {"flags"}) /\ mac'.flags = m3.flags \cup {"MacDone"}
  BY <1>3, <1>8, BaseTypes, BaseEffects
<1>10. Kept(mac', mac, {"timers", "radio", "rxSlot", "mcps", "common", "queue", "flags"})
  BY <1>2, <1>5, <1>7, <1>8, <1>9 DEF Kept
<1>11. /\ mac'.timers = m2.timers /\ mac'.radio = m2.radio /\ mac'.mcps = n.mcps
       /\ m2.mcps = mac.mcps /\ mac'.queue = m3.queue /\ n.queue = mac.queue
       /\ m3.flags = mac.flags
  BY <1>2, <1>5, <1>7, <1>8, <1>9 DEF Kept, Fields
<1> QED BY <1>2, <1>5, <1>7, <1>8, <1>9, <1>10, <1>11

\* A transmission time-out keeps the invariant.
LEMMA TxTimeoutStep ==
  ASSUME IInv, TxTimeout
  PROVE  IInv'
<1>1. OnAir(mac) /\ ~Over(mac) /\ ~Done(mac) /\ ~Listening(mac)
  BY DEF TxTimeout, IInv, Macs, Phase, InPhase, Idle, Sensing, Delayed, Imminent, OnAir,
         Listening, Over, Resting, Others, Windows, Done
<1>2. /\ mac' \in Macs
      /\ mac'.radio = IF mac.class = "C" THEN "RXC" ELSE "SLEEP"
      /\ mac'.mcps.AckReceived = mac.mcps.AckReceived
      /\ mac'.queue = AnswerAll(mac.queue, "TX_TIMEOUT")
      /\ mac'.flags = mac.flags \cup {"MacDone"}
  BY TxTimeoutEffect DEF IInv
<1>3. /\ mac'.class = mac.class /\ mac'.nodeAck = mac.nodeAck
      /\ mac'.ackRetry = mac.ackRetry /\ mac'.ackMax = mac.ackMax /\ mac'.ackCnt = mac.ackCnt
      /\ mac'.joined = mac.joined /\ mac'.mlmeRequest = mac.mlmeRequest
      /\ mac'.joinTrials = mac.joinTrials /\ mac'.state = mac.state
  BY TxTimeoutEffect DEF IInv, Kept, Fields
<1>4. mac'.timers = {"MacStateCheck"} /\ mac.state = {"TX_RUNNING"}
  BY <1>1, TxTimeoutEffect DEF IInv, OnAir
<1>5. Over(mac') /\ Done(mac')
  BY <1>2, <1>3, <1>4 DEF Over, Others, Resting, Done
<1>6. /\ ~Listening(mac') /\ ~OnAir(mac') /\ ~Sensing(mac') /\ ~Delayed(mac') /\ ~Imminent(mac')
  BY <1>2, <1>3, <1>4 DEF Sensing, Delayed, Imminent, Listening, OnAir, Others, Windows, Resting
<1>7. /\ Queue(mac')
      /\ IsQueued(mac'.queue, "JOIN") <=> IsQueued(mac.queue, "JOIN")
      /\ Len(mac'.queue) = Len(mac.queue)
      /\ Len(mac'.queue) = 1 => mac'.queue[1].Status = "TX_TIMEOUT"
  BY <1>2, QueueAnswered DEF IInv, Results
<1>8. Phase(mac')
  BY <1>2, <1>3, <1>5 DEF Phase, InPhase, IInv
<1>9. Acks(mac')
  BY <1>1, <1>2, <1>3, <1>4, <1>5, <1>6 DEF Acks, IInv
<1>10. Uplink(mac')
  BY <1>2, <1>3, <1>7 DEF Uplink, IInv
<1>11. Joins(mac')
  BY <1>1, <1>2, <1>3, <1>4, <1>6, <1>7 DEF Joins, IInv
<1> QED BY <1>2, <1>7, <1>8, <1>9, <1>10, <1>11 DEF IInv

-----------------------------------------------------------------------------
(* The timers of the reception windows.                                      *)

\* The opening of the first window keeps the invariant.
LEMMA RxWindow1Step ==
  ASSUME IInv, RxWindow1
  PROVE  IInv'
<1>1. /\ Listening(mac) /\ ~Over(mac) /\ ~Done(mac) /\ ~OnAir(mac)
      /\ \/ mac.class = "A" /\ Windows(mac) = {"RxWindow1", "RxWindow2"}
         \/ mac.class = "C" /\ Others(mac) = {"RxWindow1", "AckTimeout"}
  BY DEF RxWindow1, IInv, Macs, Phase, InPhase, Idle, Sensing, Delayed, Imminent, OnAir,
         Listening, Over, Resting, Others, Windows, Done
<1>2. mac' \in Macs
  BY ZenonT(40) DEF RxWindow1, IInv, Macs
<1>3. /\ Kept(mac', mac, {"timers", "rxSlot", "radio"}) /\ mac'.rxSlot = "WIN_1"
      /\ mac'.radio = "RX" /\ mac'.timers = (mac.timers \ {"RxWindow1"}) \cup {"RxTimeout"}
  BY DEF RxWindow1, IInv, Macs, Kept, Fields
<1>4. /\ mac'.flags = mac.flags /\ mac'.class = mac.class /\ mac'.nodeAck = mac.nodeAck
      /\ mac'.ackRetry = mac.ackRetry /\ mac'.ackMax = mac.ackMax /\ mac'.ackCnt = mac.ackCnt
      /\ mac'.joined = mac.joined /\ mac'.queue = mac.queue /\ mac'.mcps = mac.mcps
      /\ mac'.common = mac.common /\ mac'.mlmeRequest = mac.mlmeRequest
      /\ mac'.joinTrials = mac.joinTrials /\ mac'.state = mac.state
  BY <1>3 DEF Kept, Fields
<1>5. mac.state = {"TX_RUNNING"} /\ "MacStateCheck" \in mac.timers
  BY <1>1 DEF Listening
<1>6. Listening(mac') /\ ("AckTimeout" \in mac'.timers <=> "AckTimeout" \in mac.timers)
  BY <1>1, <1>3, <1>4, <1>5 DEF Listening, Others, Windows
<1>7. ~Over(mac') /\ ~OnAir(mac') /\ ~Sensing(mac') /\ ~Delayed(mac') /\ ~Imminent(mac')
  BY <1>3, <1>4, <1>5 DEF Sensing, Delayed, Imminent, Over, OnAir, Resting
<1>8. Phase(mac')
  BY <1>1, <1>3, <1>4, <1>6, <1>7 DEF Phase, InPhase, IInv, Done
<1>9. Acks(mac')
  BY <1>1, <1>4, <1>6, <1>7 DEF Acks, IInv, Done, TimedOut
<1>10. Uplink(mac')
  BY <1>4 DEF Uplink, IInv
<1>11. Joins(mac')
  BY <1>1, <1>4, <1>5, <1>7 DEF Joins, IInv
<1>12. Queue(mac')
  BY <1>4, <1>5 DEF Queue, IInv
<1> QED BY <1>2, <1>8, <1>9, <1>10, <1>11, <1>12 DEF IInv

\* The opening of the second window keeps the invariant.
LEMMA RxWindow2Step ==
  ASSUME IInv, RxWindow2
  PROVE  IInv'
<1>1. /\ Listening(mac) /\ ~Over(mac) /\ ~Done(mac) /\ ~OnAir(mac) /\ mac.class = "A"
      /\ \/ Windows(mac) = {"RxWindow2"} /\ mac.radio = "SLEEP"
         \/ Windows(mac) = {"RxTimeout", "RxWindow2"} /\ mac.radio = "RX"
  BY DEF RxWindow2, IInv, Macs, Phase, InPhase, Idle, Sensing, Delayed, Imminent, OnAir,
         Listening, Over, Resting, Others, Windows, Done
<1>2. /\ mac' \in Macs /\ Kept(mac', mac, {"timers", "radio", "rxSlot"})
      /\ ~RadioIdle(mac) => mac'.timers = mac.timers \ {"RxWindow2"} /\ mac'.radio = mac.radio
      /\ RadioIdle(mac) => /\ mac'.timers = (mac.timers \ {"RxWindow2"}) \cup {"RxTimeout"}
                           /\ mac'.radio = "RX"
  BY <1>1, SecondWindowOpened DEF RxWindow2, IInv
<1>3. mac'.radio = "RX" /\ Windows(mac') = {"RxTimeout"}
      /\ mac'.timers \ {"RxTimeout"} = mac.timers \ {"RxTimeout", "RxWindow2"}
  BY <1>1, <1>2 DEF RadioIdle, Windows, Others
<1>4. /\ mac'.flags = mac.flags /\ mac'.class = mac.class /\ mac'.nodeAck = mac.nodeAck
      /\ mac'.ackRetry = mac.ackRetry /\ mac'.ackMax = mac.ackMax /\ mac'.ackCnt = mac.ackCnt
      /\ mac'.joined = mac.joined /\ mac'.queue = mac.queue /\ mac'.mcps = mac.mcps
      /\ mac'.common = mac.common /\ mac'.mlmeRequest = mac.mlmeRequest
      /\ mac'.joinTrials = mac.joinTrials /\ mac'.state = mac.state
  BY <1>2 DEF Kept, Fields
<1>5. mac.state = {"TX_RUNNING"} /\ "MacStateCheck" \in mac.timers
  BY <1>1 DEF Listening
<1>6. Listening(mac') /\ ("AckTimeout" \in mac'.timers <=> "AckTimeout" \in mac.timers)
  BY <1>1, <1>3, <1>4, <1>5 DEF Listening
<1>7. ~Over(mac') /\ ~OnAir(mac') /\ ~Sensing(mac') /\ ~Delayed(mac') /\ ~Imminent(mac')
  BY <1>3, <1>4, <1>5 DEF Sensing, Delayed, Imminent, Over, OnAir, Resting
<1>8. Phase(mac')
  BY <1>1, <1>3, <1>4, <1>6, <1>7 DEF Phase, InPhase, IInv, Done
<1>9. Acks(mac')
  BY <1>1, <1>4, <1>6, <1>7 DEF Acks, IInv, Done, TimedOut
<1>10. Uplink(mac')
  BY <1>4 DEF Uplink, IInv
<1>11. Joins(mac')
  BY <1>1, <1>4, <1>5, <1>7 DEF Joins, IInv
<1>12. Queue(mac')
  BY <1>4, <1>5 DEF Queue, IInv
<1> QED BY <1>2, <1>8, <1>9, <1>10, <1>11, <1>12 DEF IInv

\* The end of the wait for an ACK keeps the invariant.
LEMMA AckTimeoutStep ==
  ASSUME IInv, OrderlyUse, AckTimeout
  PROVE  IInv'
<1>1. /\ Listening(mac) \/ Over(mac)
      /\ mac.state = {"TX_RUNNING"} /\ "MacStateCheck" \in mac.timers
      /\ \/ mac.class = "A" /\ Windows(mac) = {"RxTimeout"} /\ mac.radio = "RX"
         \/ mac.class = "A" /\ Others(mac) = {"AckTimeout"} /\ Over(mac) /\ Resting(mac)
         \/ mac.class = "C" /\ Others(mac) = {"AckTimeout"} /\ Listening(mac) /\ Resting(mac)
  BY DEF AckTimeout, IInv, Macs, Phase, InPhase, Idle, Sensing, Delayed, Imminent, OnAir,
         Listening, Over, Resting, Others, Windows, OrderlyUse
<1>2. /\ mac' \in Macs /\ Kept(mac', mac, {"timers", "ackRetry", "flags"})
      /\ mac'.timers = mac.timers \ {"AckTimeout"}
      /\ mac'.ackRetry = (mac.ackRetry \/ mac.nodeAck)
      /\ mac'.flags = IF mac.class = "C" THEN mac.flags \cup {"MacDone"} ELSE mac.flags
  BY AckTimedOut DEF AckTimeout, IInv
<1>3. /\ mac'.radio = mac.radio /\ mac'.class = mac.class /\ mac'.nodeAck = mac.nodeAck
      /\ mac'.ackMax = mac.ackMax /\ mac'.ackCnt = mac.ackCnt
      /\ mac'.joined = mac.joined /\ mac'.queue = mac.queue /\ mac'.mcps = mac.mcps
      /\ mac'.common = mac.common /\ mac'.mlmeRequest = mac.mlmeRequest
      /\ mac'.joinTrials = mac.joinTrials /\ mac'.state = mac.state
  BY <1>2 DEF Kept, Fields
<1>4. "AckTimeout" \in mac.timers /\ "AckTimeout" \notin mac'.timers
      /\ "MacStateCheck" \in mac'.timers
  BY <1>1, <1>2 DEF AckTimeout
<1>5. /\ mac.class = "A" /\ Listening(mac) => Listening(mac')
      /\ mac.class = "A" /\ Over(mac) => Over(mac')
      /\ mac.class = "C" => Over(mac') /\ Done(mac')
  BY <1>1, <1>2, <1>3, <1>4 DEF Listening, Over, Done, Others, Windows, Resting
<1>6. mac.class \in {"A", "C"} /\ (mac.ackRetry => mac.nodeAck)
      /\ mac.ackRetry \in BOOLEAN /\ mac.nodeAck \in BOOLEAN
  BY DEF IInv, Acks, Macs
<1>7. /\ ~OnAir(mac') /\ ~Sensing(mac') /\ ~Delayed(mac') /\ ~Imminent(mac')
      /\ Done(mac) => Done(mac')
  BY <1>1, <1>2, <1>3, <1>4 DEF Sensing, Delayed, Imminent, OnAir, Resting, Others, Windows, Done
<1>8. Phase(mac')
  <2>1. mac.class = "A" => (Done(mac') => Over(mac')) /\ (ServerAcks /\ Over(mac') => Done(mac'))
    <3>1. mac.class = "A" => (Over(mac') <=> Over(mac)) /\ (Done(mac') <=> Done(mac))
      BY <1>1, <1>2, <1>3, <1>4 DEF Over, Done, Others, Resting, Windows
    <3> QED BY <3>1 DEF IInv, Phase
  <2> QED BY <1>1, <1>3, <1>5, <1>6, <2>1 DEF Phase, InPhase, IInv
<1>9. Acks(mac')
  <2>1. ~TimedOut(mac) /\ ~TimedOut(mac')
    BY <1>3, <1>4 DEF IInv, Acks, TimedOut
  <2>2. ~(mac.nodeAck /\ mac.mcps.AckReceived)
    BY <1>4 DEF IInv, Acks
  <2>3. Listening(mac') \/ Over(mac')
    BY <1>1, <1>5, <1>6
  <2> QED BY <1>2, <1>3, <1>4, <1>6, <2>1, <2>2, <2>3 DEF IInv, Acks
<1>10. Uplink(mac')
  BY <1>2, <1>3 DEF Uplink, IInv
<1>11. Joins(mac')
  <2>1. mac.joined => ~IsQueued(mac.queue, "JOIN")
    BY <1>4 DEF IInv, Joins
  <2> QED BY <1>1, <1>2, <1>3, <1>7, <2>1 DEF Joins, IInv
<1>12. Queue(mac')
  BY <1>1, <1>3 DEF Queue, IInv
<1> QED BY <1>2, <1>8, <1>9, <1>10, <1>11, <1>12 DEF IInv

-----------------------------------------------------------------------------
(* The end of a reception window.                                            *)

\* A window that ends without a frame keeps the invariant.
LEMMA EndWindowStep ==
  ASSUME IInv, NEW late \in BOOLEAN, RxError(late) \/ RxTimeout(late)
  PROVE  IInv'
<1>1. /\ mac' = EndWindow(mac, late) /\ (late \/ "RxWindow2" \in mac.timers)
      /\ mac.radio \in {"RX", "RXC"} \/ "RxTimeout" \in mac.timers
  BY DEF RxError, RxTimeout, Receiving
<1>2. /\ mac' \in Macs
      /\ Kept(mac', mac, {"timers", "radio", "rxSlot", "mcps", "common", "queue", "flags"})
      /\ mac'.mcps.AckReceived = mac.mcps.AckReceived
      /\ mac'.mcps.Status \in {mac.mcps.Status, "RX_FAIL"}
      /\ mac'.common = "RX_FAIL" /\ mac'.queue = AnswerAll(mac.queue, "RX_FAIL")
      /\ mac.class = "C" => /\ mac'.timers = mac.timers \ {"RxTimeout", "RxWindow2"}
                            /\ mac'.radio = "RXC" /\ mac'.flags = mac.flags
      /\ mac.class = "A" =>
           /\ mac'.radio = "SLEEP"
           /\ \/ /\ mac.rxSlot # "WIN_1" /\ mac'.timers = mac.timers \ {"RxTimeout"}
                 /\ mac'.flags = mac.flags \cup {"MacDone"}
              \/ /\ mac.rxSlot = "WIN_1" /\ late /\ mac'.flags = mac.flags \cup {"MacDone"}
                 /\ mac'.timers = mac.timers \ {"RxTimeout", "RxWindow2"}
              \/ /\ mac.rxSlot = "WIN_1" /\ ~late /\ mac'.flags = mac.flags
                 /\ mac'.timers = mac.timers \ {"RxTimeout"}
  BY <1>1, WindowEnded DEF IInv
<1>3. /\ mac'.class = mac.class /\ mac'.nodeAck = mac.nodeAck
      /\ mac'.ackRetry = mac.ackRetry /\ mac'.ackMax = mac.ackMax /\ mac'.ackCnt = mac.ackCnt
      /\ mac'.joined = mac.joined /\ mac'.mlmeRequest = mac.mlmeRequest
      /\ mac'.joinTrials = mac.joinTrials /\ mac'.state = mac.state
  BY <1>2 DEF Kept, Fields
<1>4. /\ Queue(mac')
      /\ IsQueued(mac'.queue, "JOIN") <=> IsQueued(mac.queue, "JOIN")
      /\ Len(mac'.queue) = Len(mac.queue)
      /\ Len(mac'.queue) = 1 => mac'.queue[1].Status = "RX_FAIL"
      /\ mac.queue = <<>> => mac'.queue = <<>>
  <2>1. Queue(mac)
    BY DEF IInv
  <2> QED BY <1>2, <2>1, QueueAnswered DEF IInv, Results
<1>5. ~TimedOut(mac) => ~TimedOut(mac')
  BY <1>2 DEF TimedOut
<1>6. mac.joined => ~IsQueued(mac.queue, "JOIN")
  BY <1>1 DEF IInv, Joins
<1>7. mac.class \in {"A", "C"} /\ ("McpsReq" \in mac'.flags <=> "McpsReq" \in mac.flags)
      /\ ("MlmeReq" \in mac'.flags <=> "MlmeReq" \in mac.flags)
      /\ ("McpsInd" \in mac'.flags <=> "McpsInd" \in mac.flags)
      /\ ("AckTimeout" \in mac'.timers <=> "AckTimeout" \in mac.timers)
  BY <1>2 DEF IInv, Macs
<1>8. Uplink(mac')
  BY <1>3, <1>4, <1>7 DEF Uplink, IInv
<1>9. CASE mac.class = "C"
  <2>1. /\ mac'.timers = mac.timers \ {"RxTimeout", "RxWindow2"}
        /\ mac'.radio = "RXC" /\ mac'.flags = mac.flags
    BY <1>2, <1>9
  <2>2. /\ Idle(mac') <=> Idle(mac) 
        /\ Sensing(mac') <=> Sensing(mac)
        /\ Delayed(mac') <=> Delayed(mac)
        /\ Imminent(mac') <=> Imminent(mac)
        /\ OnAir(mac') <=> OnAir(mac)
        /\ Listening(mac') <=> Listening(mac)
        /\ Over(mac') <=> Over(mac)
    <3>1. InPhase(mac)
      BY DEF IInv, Phase
    <3>2. CASE Listening(mac)
      <4>1. Listening(mac') /\ mac.state = {"TX_RUNNING"} /\ Others(mac') # {}
        BY <1>1, <1>3, <1>9, <2>1, <3>2 DEF Listening, Others, Windows, Resting
      <4>2. /\ ~Idle(mac) /\ ~Sensing(mac) /\ ~Delayed(mac) /\ ~Imminent(mac) /\ ~OnAir(mac)
            /\ ~Over(mac)
        BY <1>9, <3>2 DEF Idle, Sensing, Delayed, Imminent, OnAir, Listening, Over, Others, Windows,
           Resting
      <4>3. /\ ~Idle(mac') /\ ~Sensing(mac') /\ ~Delayed(mac') /\ ~Imminent(mac') /\ ~OnAir(mac')
            /\ ~Over(mac')
        BY <1>3, <1>9, <4>1 DEF Idle, Sensing, Delayed, Imminent, OnAir, Listening, Over, Others,
           Windows, Resting
      <4> QED BY <3>2, <4>1, <4>2, <4>3
    <3>3. CASE ~Listening(mac)
      <4>1. mac'.timers = mac.timers /\ mac.radio = "RXC"
        BY <1>1, <1>9, <2>1, <3>1, <3>3 DEF InPhase, Idle, Sensing, Delayed, Imminent, OnAir, Over,
           Others, Resting
      <4> QED BY <1>3, <2>1, <4>1 DEF Idle, Sensing, Delayed, Imminent, OnAir, Listening, Over,
           Others, Windows, Resting
    <3> QED BY <3>2, <3>3
  <2>3. Phase(mac')
    BY <1>3, <1>9, <2>1, <2>2 DEF Phase, InPhase, IInv, Done
  <2>4. Acks(mac')
    BY <1>2, <1>3, <1>5, <1>7, <2>1, <2>2 DEF Acks, IInv, Done
  <2>5. Joins(mac')
    BY <1>3, <1>4, <1>6, <1>7, <2>2 DEF Joins, IInv
  <2> QED BY <1>2, <1>4, <1>8, <2>3, <2>4, <2>5 DEF IInv
<1>10. CASE mac.class = "A"
  <2>1. /\ Listening(mac) /\ ~Over(mac) /\ ~Done(mac) /\ mac.state = {"TX_RUNNING"}
        /\ "MacStateCheck" \in mac.timers /\ mac.radio = "RX"
        /\ \/ Windows(mac) = {"RxTimeout", "RxWindow2"} /\ mac.rxSlot = "WIN_1"
           \/ Windows(mac) = {"RxTimeout"}
    BY <1>1, <1>10 DEF IInv, Phase, InPhase, Idle, Sensing, Delayed, Imminent, OnAir,
         Listening, Over, Resting, Others, Windows, Done
  <2>2. /\ mac'.radio = "SLEEP"
        /\ \/ Done(mac') /\ Windows(mac') = {}
           \/ ~Done(mac') /\ Windows(mac') = {"RxWindow2"}
    BY <1>1, <1>2, <1>10, <2>1 DEF Windows, Others, Done
  <2>3. "MacStateCheck" \in mac'.timers
    BY <1>2, <1>10, <2>1
  <2>4. \/ Over(mac') /\ Done(mac')
        \/ Listening(mac') /\ ~Over(mac') /\ ~Done(mac')
    <3>1. mac'.state = {"TX_RUNNING"} /\ mac'.class = "A"
      BY <1>3, <1>10, <2>1
    <3>2. CASE Done(mac') /\ Windows(mac') = {}
      <4>1. Others(mac') \subseteq {"AckTimeout"}
        BY <3>2 DEF Windows
      <4>2. mac'.radio = "SLEEP"
        BY <2>2
      <4>3. Over(mac')
        BY <2>3, <3>1, <4>1, <4>2 DEF Over, Resting
      <4> QED BY <3>2, <4>3
    <3>3. CASE ~Done(mac') /\ Windows(mac') = {"RxWindow2"}
      <4>1. ~(Others(mac') \subseteq {"AckTimeout"})
        BY <3>3 DEF Windows
      <4> QED BY <2>2, <2>3, <3>1, <3>3, <4>1 DEF Over, Listening
    <3> QED BY <2>2, <3>2, <3>3
  <2>5. ~OnAir(mac') /\ ~Sensing(mac') /\ ~Delayed(mac') /\ ~Imminent(mac')
    BY <1>3, <2>1, <2>2 DEF Sensing, Delayed, Imminent, OnAir, Others, Windows
  <2>6. Phase(mac')
    BY <1>3, <2>2, <2>4 DEF Phase, InPhase, IInv
  <2>7. Acks(mac')
    BY <1>2, <1>3, <1>5, <1>7, <2>1, <2>4, <2>5 DEF Acks, IInv
  <2>8. Joins(mac')
    BY <1>3, <1>4, <1>6, <1>7, <2>1, <2>5 DEF Joins, IInv
  <2> QED BY <1>2, <1>4, <1>8, <2>6, <2>7, <2>8 DEF IInv
<1> QED BY <1>7, <1>9, <1>10

-----------------------------------------------------------------------------
(* A frame is received.                                                      *)

\* The end of OnRadioRxDone: either the ACK is still awaited, or the
\* procedure is done and the state check started.
LEMMA ReceptionFinished ==
  ASSUME NEW m \in Macs
  PROVE  LET r    == FinishRxDone(m)
             stop == IF m.nodeAck THEN m.mcps.AckReceived \/ m.ackCnt > m.ackMax
                                  ELSE m.class = "C" IN
         /\ r \in Macs /\ Kept(r, m, {"timers", "flags"})
         /\ "AckTimeout" \in m.timers /\ ~stop => r.timers = m.timers /\ r.flags = m.flags
         /\ "AckTimeout" \notin m.timers \/ stop =>
              /\ r.timers = (m.timers \ {"AckTimeout"}) \cup {"MacStateCheck"}
              /\ r.flags = m.flags \cup {"MacDone"}
<1> DEFINE stop == IF m.nodeAck THEN m.mcps.AckReceived \/ m.ackCnt > m.ackMax
                                ELSE m.class = "C"
           n == CheckToDisableAckTimeout(m)
           k == Mark(n, {"MacDone"})
           r == TimerStart(k, "MacStateCheck")
<1>1. n = IF stop THEN TimerStop(m, "AckTimeout") ELSE m
  BY DEF CheckToDisableAckTimeout
<1>2. FinishRxDone(m) = IF "AckTimeout" \in n.timers THEN n ELSE r
  BY DEF FinishRxDone
<1> HIDE DEF n, stop
<1>3. /\ TimerStop(m, "AckTimeout") \in Macs /\ Kept(TimerStop(m, "AckTimeout"), m, {"timers"})
      /\ TimerStop(m, "AckTimeout").timers = m.timers \ {"AckTimeout"}
  BY BaseTypes, BaseEffects DEF Timers
<1>4. /\ n \in Macs /\ Kept(n, m, {"timers"})
      /\ n.timers = IF stop THEN m.timers \ {"AckTimeout"} ELSE m.timers
  BY <1>1, <1>3 DEF Kept
<1>5. n.flags = m.flags
  BY <1>4 DEF Kept, Fields
<1>6. k \in Macs /\ Kept(k, n, {"flags"}) /\ k.flags = n.flags \cup {"MacDone"}
  BY <1>4, BaseTypes, BaseEffects
<1> HIDE DEF k
<1>7. r \in Macs /\ Kept(r, k, {"timers"}) /\ r.timers = k.timers \cup {"MacStateCheck"}
  BY <1>6, BaseTypes, BaseEffects DEF Timers
<1> HIDE DEF r
<1>8. r.flags = k.flags /\ k.timers = n.timers
  BY <1>6, <1>7 DEF Kept, Fields
<1>9. Kept(r, m, {"timers", "flags"}) /\ Kept(n, m, {"timers", "flags"})
  BY <1>4, <1>6, <1>7 DEF Kept
<1>10. CASE "AckTimeout" \in n.timers
  <2>1. FinishRxDone(m) = n /\ ~stop /\ "AckTimeout" \in m.timers
    BY <1>2, <1>4, <1>10
  <2> QED BY <1>4, <1>5, <1>9, <2>1 DEF stop
<1>11. CASE "AckTimeout" \notin n.timers
  <2>1. FinishRxDone(m) = r /\ ("AckTimeout" \notin m.timers \/ stop)
    BY <1>2, <1>4, <1>11
  <2>2. n.timers = m.timers \ {"AckTimeout"}
    BY <1>4, <1>11
  <2> QED BY <1>5, <1>6, <1>7, <1>8, <1>9, <2>1, <2>2 DEF stop
<1> QED BY <1>10, <1>11

\* A rejected frame ends the procedure of a class A device.
LEMMA ReceptionAborted ==
  ASSUME NEW m \in Macs, m.class = "A"
  PROVE  LET r == PrepareRxDoneAbort(m) IN
         /\ r \in Macs /\ Kept(r, m, {"state", "timers", "flags", "ackRetry"})
         /\ r.state = m.state \cup {"RX_ABORT"}
         /\ r.timers = (m.timers \ (IF m.nodeAck THEN {"AckTimeout"} ELSE {}))
                         \cup {"MacStateCheck"}
         /\ r.flags = m.flags \cup {"McpsInd", "MacDone"}
         /\ r.ackRetry = (m.ackRetry \/ m.nodeAck)
<1> DEFINE m1 == Raise(m, {"RX_ABORT"})
           m2 == IF m.nodeAck THEN OnAckTimeout(m1) ELSE m1
           k  == Mark(m2, {"McpsInd", "MacDone"})
           r  == TimerStart(k, "MacStateCheck")
<1>1. m1 \in Macs /\ Kept(m1, m, {"state"}) /\ m1.state = m.state \cup {"RX_ABORT"}
  BY BaseTypes, BaseEffects
<1>2. PrepareRxDoneAbort(m) = r
  BY DEF PrepareRxDoneAbort
<1> HIDE DEF m1
<1>3. /\ m1.timers = m.timers /\ m1.flags = m.flags /\ m1.class = "A"
      /\ m1.ackRetry = m.ackRetry /\ m1.nodeAck = m.nodeAck
  BY <1>1 DEF Kept, Fields
<1>4. /\ m2 \in Macs /\ Kept(m2, m1, {"timers", "ackRetry", "flags"})
      /\ m2.timers = m.timers \ (IF m.nodeAck THEN {"AckTimeout"} ELSE {})
      /\ m2.flags = m.flags /\ m2.ackRetry = (m.ackRetry \/ m.nodeAck)
  <2>0. m.ackRetry \in BOOLEAN /\ m.nodeAck \in BOOLEAN
    BY DEF Macs
  <2>1. CASE m.nodeAck
    <3>1. m2 = OnAckTimeout(m1)
      BY <2>1
    <3> HIDE DEF m2
    <3> QED BY <1>1, <1>3, <2>0, <2>1, <3>1, AckTimedOut
  <2>2. CASE ~m.nodeAck
    <3>1. m2 = m1 /\ Kept(m1, m1, {"timers", "ackRetry", "flags"})
      BY <2>2 DEF Kept
    <3> HIDE DEF m2
    <3> QED BY <1>1, <1>3, <2>0, <2>2, <3>1
  <2> QED BY <2>1, <2>2
<1> HIDE DEF m2
<1>5. k \in Macs /\ Kept(k, m2, {"flags"}) /\ k.flags = m2.flags \cup {"McpsInd", "MacDone"}
  BY <1>4, BaseTypes, BaseEffects
<1> HIDE DEF k
<1>6. r \in Macs /\ Kept(r, k, {"timers"}) /\ r.timers = k.timers \cup {"MacStateCheck"}
  <2>1. r \in Macs
    BY <1>5, BaseTypes DEF Timers
  <2>2. Kept(r, k, {"timers"}) /\ r.timers = k.timers \cup {"MacStateCheck"}
    BY <1>5, BaseEffects
  <2> QED BY <2>1, <2>2
<1> HIDE DEF r
<1>7. Kept(r, m, {"state", "timers", "flags", "ackRetry"})
  BY <1>1, <1>4, <1>5, <1>6 DEF Kept
<1>8. /\ r.state = m1.state /\ r.flags = k.flags /\ k.timers = m2.timers
      /\ r.ackRetry = m2.ackRetry
  BY <1>4, <1>5, <1>6 DEF Kept, Fields
<1> QED BY <1>1, <1>2, <1>4, <1>5, <1>6, <1>7, <1>8

\* The MAC between the end of reception and its outcome: the radio sleeps and
\* of the windows only the wait for the ACK may be left.
Heard(m) ==
  /\ m \in Macs /\ m.class \in {"A"} \cup Classes
  /\ m.state = {"TX_RUNNING"} /\ m.radio = "SLEEP" /\ ~Done(m)
  /\ m.timers \in {{"MacStateCheck"}, {"MacStateCheck", "AckTimeout"}}
  /\ m.class = "C" => "AckTimeout" \in m.timers
  /\ m.class = "A" /\ "AckTimeout" \in m.timers => m.nodeAck
  /\ m.ackCnt \in 1 .. m.ackMax /\ ~TimedOut(m)
  /\ m.ackRetry => m.nodeAck /\ "AckTimeout" \notin m.timers
  /\ Uplink(m) /\ Queue(m) /\ m.joinTrials \in 0 .. MaxJoinTrials
  /\ m.joined => ~IsQueued(m.queue, "JOIN")
  /\ ~m.joined => /\ ~m.nodeAck /\ m.mlmeRequest = "JOIN" /\ IsQueued(m.queue, "JOIN")
                  /\ Len(m.queue) = 1 /\ "MlmeReq" \in m.flags /\ "McpsReq" \notin m.flags
                  /\ m.queue[1].Status # "OK"

\* What OnRadioRxDone does before it looks at the frame.
LEMMA Prelude ==
  ASSUME IInv, OrderlyUse, NEW f \in Frames, RxDone(f)
  PROVE  \E n : /\ Heard(n) /\ ~n.mcps.AckReceived /\ n.mcps.Request = mac.mcps.Request
                /\ n.joined = mac.joined /\ n.nodeAck = mac.nodeAck
                /\ Kept(n, mac, {"timers", "radio", "mcps"})
                /\ n.class = "C" => f.kind = "data"
                /\ mac' =
                     CASE f.kind = "data"    -> FinishRxDone(ReceiveData(n, f))
                       [] f.kind = "proprietary" -> FinishRxDone(Mark(n, {"McpsInd"}))
                       [] f.kind = "unknown" -> FinishRxDone(PrepareRxDoneAbort(n))
                       [] f.kind = "repeated" ->
                            PrepareRxDoneAbort([n EXCEPT !.mcps.Status = "OK"])
                       [] f.kind = "abort" -> PrepareRxDoneAbort(n)
                       [] f.kind = "accept" ->
                            IF mac.joined THEN PrepareRxDoneAbort(n)
                                          ELSE FinishRxDone(AcceptJoin(n))
                       [] f.kind = "badAccept" ->
                            IF mac.joined THEN PrepareRxDoneAbort(n)
                                          ELSE FinishRxDone(RefuseJoin(n))
<1> DEFINE t == TimerStop(mac, "RxTimeout")
           a == [t EXCEPT !.mcps.AckReceived = FALSE]
           n == TimerStop(Sleep(a), "RxWindow2")
<1>1. /\ Listening(mac) /\ ~Over(mac) /\ ~Done(mac) /\ ~Idle(mac)
      /\ ~Sensing(mac) /\ ~Delayed(mac) /\ ~Imminent(mac) /\ ~OnAir(mac)
      /\ \/ mac.class = "A" /\ mac.radio = "RX"
              /\ Windows(mac) \in {{"RxTimeout"}, {"RxTimeout", "RxWindow2"}}
         \/ mac.class = "C" /\ Others(mac) \in {{"RxTimeout", "AckTimeout"}, {"AckTimeout"}}
              /\ f.kind = "data"
  <2>1. CASE mac.class = "A"
    BY <2>1 DEF RxDone, Receiving, IInv, Phase, InPhase, Idle, Sensing, Delayed, Imminent, OnAir,
         Listening, Over, Resting, Others, Windows, Done
  <2>2. CASE mac.class = "C"
    <3>1. Expecting /\ f.kind = "data"
      BY <2>2 DEF RxDone, OrderlyUse, IInv, Phase
    <3> QED BY <2>2, <3>1 DEF RxDone, Receiving, Expecting, IInv, Phase, InPhase, Idle, Sensing,
         Delayed, Imminent, OnAir, Listening, Over, Resting, Others, Windows, Done
  <2> QED BY <2>1, <2>2 DEF IInv, Macs
<1>2. t \in Macs /\ Kept(t, mac, {"timers"}) /\ t.timers = mac.timers \ {"RxTimeout"}
  BY BaseTypes, BaseEffects DEF IInv, Timers
<1>3. mac' = ReceiveFrame(t, f)
  BY DEF RxDone
<1> HIDE DEF t
<1>4. a \in Macs /\ Kept(a, t, {"mcps"}) /\ ~a.mcps.AckReceived
      /\ a.mcps.Request = t.mcps.Request /\ a.mcps.Status = t.mcps.Status
  <2>1. a \in Macs
    BY <1>2 DEF Macs
  <2> QED BY <1>2, <2>1 DEF Macs, Kept, Fields
<1>5. n = TimerStop(Sleep(a), "RxWindow2")
  OBVIOUS
<1> HIDE DEF a, n
<1>6. n \in Macs /\ Kept(n, a, {"timers", "radio"}) /\ n.timers = a.timers \ {"RxWindow2"}
      /\ n.radio = "SLEEP"
  <2> DEFINE z == Sleep(a)
  <2>1. z \in Macs /\ Kept(z, a, {"radio"}) /\ z.radio = "SLEEP"
    BY <1>4, BaseTypes, BaseEffects
  <2>2. n = TimerStop(z, "RxWindow2")
    BY <1>5
  <2> HIDE DEF z
  <2>3. n \in Macs /\ Kept(n, z, {"timers"}) /\ n.timers = z.timers \ {"RxWindow2"}
    BY <2>1, <2>2, BaseTypes, BaseEffects DEF Timers
  <2>4. z.timers = a.timers /\ n.radio = z.radio
    BY <2>1, <2>3 DEF Kept, Fields
  <2>5. Kept(n, a, {"timers", "radio"})
    BY <2>1, <2>3 DEF Kept
  <2> QED BY <2>1, <2>3, <2>4, <2>5
<1>7. n.timers = mac.timers \ {"RxTimeout", "RxWindow2"}
      /\ ~n.mcps.AckReceived /\ n.mcps.Request = mac.mcps.Request
      /\ n.mcps.Status = mac.mcps.Status
  BY <1>2, <1>4, <1>6 DEF Kept, Fields
<1>8. /\ n.flags = mac.flags /\ n.class = mac.class /\ n.nodeAck = mac.nodeAck
      /\ n.ackRetry = mac.ackRetry /\ n.ackMax = mac.ackMax /\ n.ackCnt = mac.ackCnt
      /\ n.joined = mac.joined /\ n.queue = mac.queue
      /\ n.common = mac.common /\ n.mlmeRequest = mac.mlmeRequest
      /\ n.joinTrials = mac.joinTrials /\ n.state = mac.state
  BY <1>2, <1>4, <1>6 DEF Kept, Fields
<1>9. mac.state = {"TX_RUNNING"} /\ "MacStateCheck" \in mac.timers
  BY <1>1 DEF Listening
<1>10. n.timers \in {{"MacStateCheck"}, {"MacStateCheck", "AckTimeout"}}
       /\ (mac.class = "C" => "AckTimeout" \in n.timers)
  BY <1>1, <1>7, <1>9 DEF Windows, Others
<1>11. /\ n.class \in {"A"} \cup Classes /\ ~Done(n) /\ ~TimedOut(n)
       /\ n.class = "A" /\ "AckTimeout" \in n.timers => n.nodeAck
       /\ n.ackCnt \in 1 .. n.ackMax
       /\ n.ackRetry => n.nodeAck /\ "AckTimeout" \notin n.timers
  BY <1>1, <1>7, <1>8 DEF IInv, Phase, Acks, TimedOut, Done
<1>12. Uplink(n) /\ Queue(n)
  BY <1>8, <1>9, <1>10 DEF IInv, Uplink, Queue
<1>13. n.joinTrials \in 0 .. MaxJoinTrials /\ (n.joined => ~IsQueued(n.queue, "JOIN"))
  BY <1>1, <1>8 DEF IInv, Joins
<1>14. ~n.joined => /\ ~n.nodeAck /\ n.mlmeRequest = "JOIN" /\ IsQueued(n.queue, "JOIN")
                    /\ Len(n.queue) = 1 /\ "MlmeReq" \in n.flags /\ "McpsReq" \notin n.flags
                    /\ n.queue[1].Status # "OK"
  BY <1>8, <1>9 DEF IInv, Joins
<1>15. Heard(n)
  BY <1>6, <1>8, <1>9, <1>10, <1>11, <1>12, <1>13, <1>14 DEF Heard
<1>16. t.joined = mac.joined
  BY <1>2 DEF Kept, Fields
<1>17. mac' = CASE f.kind = "data"    -> FinishRxDone(ReceiveData(n, f))
                [] f.kind = "proprietary" -> FinishRxDone(Mark(n, {"McpsInd"}))
                [] f.kind = "unknown" -> FinishRxDone(PrepareRxDoneAbort(n))
                [] f.kind = "repeated" ->
                     PrepareRxDoneAbort([n EXCEPT !.mcps.Status = "OK"])
                [] f.kind = "abort" -> PrepareRxDoneAbort(n)
                [] f.kind = "accept" ->
                     IF mac.joined THEN PrepareRxDoneAbort(n)
                                   ELSE FinishRxDone(AcceptJoin(n))
                [] f.kind = "badAccept" ->
                     IF mac.joined THEN PrepareRxDoneAbort(n)
                                   ELSE FinishRxDone(RefuseJoin(n))
  BY <1>3, <1>5, <1>16, Zenon DEF ReceiveFrame, a
<1>18. n.class = "C" => f.kind = "data"
  BY <1>1, <1>8
<1>19. Kept(n, mac, {"timers", "radio", "mcps"})
  BY <1>2, <1>4, <1>6 DEF Kept
<1> QED BY <1>7, <1>8, <1>15, <1>17, <1>18, <1>19

\* A data frame that passed all checks keeps the invariant.
LEMMA DataReceived ==
  ASSUME NEW n, Heard(n), ~n.mcps.AckReceived, n.joined, NEW f \in Frames, f.kind = "data",
         f.ack => n.mcps.Request = "CONFIRMED", ServerAcks /\ n.nodeAck => f.ack
  PROVE  Sound(FinishRxDone(ReceiveData(n, f)))
<1> DEFINE q  == IF f.answer THEN AnswerFirst(n.queue, "LINK_CHECK", "OK") ELSE n.queue
           w  == Acknowledged(n, f)
           h  == n.heardAck \/ f.ack
           k  == [n EXCEPT !.mcps.Status = "OK", !.mcps.AckReceived = w, !.heardAck = h, !.queue = q]
           fl == {"McpsInd"} \cup (IF f.skip THEN {"McpsIndSkip"} ELSE {})
           m  == Mark(k, fl)
           r  == FinishRxDone(m)
<1>0. /\ n \in Macs /\ n.joined /\ n.state = {"TX_RUNNING"} /\ n.radio = "SLEEP" /\ ~Done(n)
      /\ n.timers \in {{"MacStateCheck"}, {"MacStateCheck", "AckTimeout"}}
      /\ n.class \in {"A", "C"}
  BY DEF Heard, Macs
<1>1. f.ack \in BOOLEAN /\ f.skip \in BOOLEAN /\ f.answer \in BOOLEAN
  BY DEF Frames
<1>2. w \in BOOLEAN /\ h \in BOOLEAN
  BY <1>0, <1>1 DEF Acknowledged, Macs
<1>3. w => f.ack /\ n.mcps.Request = "CONFIRMED"
  BY DEF Acknowledged
<1>4. f.ack => w
  BY <1>1 DEF Acknowledged
<1>5. n.queue \in Seq(MlmeElement)
  BY <1>0 DEF Macs
<1>6. /\ q \in Seq(MlmeElement) /\ Len(q) = Len(n.queue) /\ DOMAIN q = DOMAIN n.queue
      /\ \A i \in DOMAIN n.queue :
           /\ q[i].Request = n.queue[i].Request /\ q[i].RestrictCommon = n.queue[i].RestrictCommon
           /\ n.queue[i].ReadyToHandle => q[i].ReadyToHandle
  BY <1>5, AnsweredFirst DEF Results
<1>7. ReceiveData(n, f) = m
  BY <1>0 DEF ReceiveData, Macs
<1> HIDE DEF q, w, h
<1>8. k \in Macs
  BY <1>0, <1>2, <1>6 DEF Macs, Results
<1>9. /\ Kept(k, n, {"mcps", "heardAck", "queue"}) /\ k.mcps.Status = "OK"
      /\ k.mcps.AckReceived = w /\ k.queue = q
  BY <1>0 DEF Macs, Kept, Fields
<1> HIDE DEF k
<1>10. m \in Macs /\ Kept(m, k, {"flags"}) /\ m.flags = k.flags \cup fl
  BY <1>8, BaseTypes, BaseEffects
<1> HIDE DEF m
<1>11. /\ m.class = n.class /\ m.nodeAck = n.nodeAck /\ m.state = n.state /\ m.radio = n.radio
       /\ m.timers = n.timers /\ m.joined = n.joined /\ m.joinTrials = n.joinTrials
       /\ m.common = n.common /\ m.mcps = k.mcps /\ m.queue = q /\ m.flags = n.flags \cup fl
       /\ m.ackRetry = n.ackRetry /\ m.ackCnt = n.ackCnt /\ m.ackMax = n.ackMax
  BY <1>9, <1>10 DEF Kept, Fields
<1> DEFINE stop == IF m.nodeAck THEN m.mcps.AckReceived \/ m.ackCnt > m.ackMax
                                ELSE m.class = "C"
<1>12. /\ r \in Macs /\ Kept(r, m, {"timers", "flags"})
       /\ "AckTimeout" \in m.timers /\ ~stop => r.timers = m.timers /\ r.flags = m.flags
       /\ "AckTimeout" \notin m.timers \/ stop =>
            /\ r.timers = (m.timers \ {"AckTimeout"}) \cup {"MacStateCheck"}
            /\ r.flags = m.flags \cup {"MacDone"}
  BY <1>10, ReceptionFinished
<1>13. stop <=> IF n.nodeAck THEN w ELSE n.class = "C"
  <2>1. n.ackMax \in Nat /\ n.ackCnt \in 1 .. n.ackMax
    BY <1>0, BoundsAssumption DEF Heard, Macs
  <2>2. ~(m.ackCnt > m.ackMax) /\ (m.mcps.AckReceived <=> w)
    BY <1>9, <1>11, <2>1
  <2> QED BY <1>11, <2>2
<1> HIDE DEF stop, r
<1>14. /\ r.class = n.class /\ r.nodeAck = n.nodeAck /\ r.state = n.state /\ r.radio = n.radio
       /\ r.joined = n.joined /\ r.joinTrials = n.joinTrials
       /\ r.common = n.common /\ r.mcps = k.mcps /\ r.queue = q
       /\ r.ackRetry = n.ackRetry /\ r.ackCnt = n.ackCnt /\ r.ackMax = n.ackMax
  <2>1. /\ r.class = m.class /\ r.nodeAck = m.nodeAck /\ r.state = m.state /\ r.radio = m.radio
        /\ r.joined = m.joined /\ r.joinTrials = m.joinTrials
        /\ r.common = m.common /\ r.mcps = m.mcps /\ r.queue = m.queue
        /\ r.ackRetry = m.ackRetry /\ r.ackCnt = m.ackCnt /\ r.ackMax = m.ackMax
    BY <1>12 DEF Kept, Fields
  <2> QED BY <1>11, <2>1
<1>15. \/ /\ "AckTimeout" \in n.timers /\ ~stop /\ r.timers = {"MacStateCheck", "AckTimeout"}
          /\ r.flags = n.flags \cup fl /\ n.nodeAck /\ ~w
       \/ /\ "AckTimeout" \notin n.timers \/ stop
          /\ r.timers = {"MacStateCheck"} /\ r.flags = n.flags \cup fl \cup {"MacDone"}
  <2>1. "AckTimeout" \in n.timers /\ ~stop => n.nodeAck /\ ~w
    BY <1>0, <1>13 DEF Heard
  <2> QED BY <1>0, <1>11, <1>12, <2>1
<1>16. "McpsInd" \in fl /\ "MacDone" \notin fl /\ "McpsReq" \notin fl /\ "MlmeReq" \notin fl
  OBVIOUS
<1> HIDE DEF fl
<1>17. IsQueued(r.queue, "JOIN") <=> IsQueued(n.queue, "JOIN")
  BY <1>6, <1>14 DEF IsQueued
<1>18. \/ r.class = "A" /\ Over(r) /\ ~Done(r) /\ r.timers = {"MacStateCheck", "AckTimeout"}
       \/ r.class = "C" /\ Listening(r) /\ ~Over(r) /\ ~Done(r)
       \/ Over(r) /\ Done(r) /\ r.timers = {"MacStateCheck"}
  <2>1. ~Done(n) /\ n.state = {"TX_RUNNING"} /\ n.radio = "SLEEP" /\ n.class \in {"A", "C"}
    BY <1>0
  <2>2. CASE r.timers = {"MacStateCheck"} /\ r.flags = n.flags \cup fl \cup {"MacDone"}
    BY <1>14, <2>1, <2>2 DEF Over, Done, Others, Resting
  <2>3. CASE r.timers = {"MacStateCheck", "AckTimeout"} /\ r.flags = n.flags \cup fl
    BY <1>14, <1>16, <2>1, <2>3 DEF Over, Listening, Done, Others, Windows, Resting
  <2> QED BY <1>15, <2>2, <2>3
<1>19. Phase(r)
  <2>1. Over(r) /\ ~Done(r) => ~ServerAcks
    BY <1>1, <1>4, <1>14, <1>15, <1>16, <1>18 DEF Done
  <2> QED BY <1>0, <1>14, <1>18, <2>1 DEF Heard, Phase, InPhase
<1>20. Acks(r)
  <2>1. ~TimedOut(r)
    BY <1>9, <1>14 DEF Heard, TimedOut
  <2>2. r.nodeAck /\ r.mcps.AckReceived => Over(r) /\ Done(r) /\ "McpsInd" \in r.flags /\ "AckTimeout" \notin r.timers
    <3>1. r.nodeAck /\ r.mcps.AckReceived => stop
      BY <1>9, <1>13, <1>14
    <3> QED BY <1>15, <1>16, <1>18, <3>1 DEF Done
  <2>3. r.ackRetry => r.nodeAck /\ (Listening(r) \/ Over(r)) /\ "AckTimeout" \notin r.timers
    BY <1>14, <1>15, <1>18 DEF Heard
  <2> QED BY <1>14, <1>15, <2>1, <2>2, <2>3 DEF Heard, Acks
<1>21. Uplink(r)
  BY <1>14, <1>15, <1>16, <1>17 DEF Heard, Uplink
<1>22. Joins(r)
  BY <1>0, <1>14, <1>17 DEF Heard, Joins
<1>23. Queue(r)
  BY <1>0, <1>6, <1>14, <1>15 DEF Heard, Queue
<1> QED BY <1>7, <1>12, <1>19, <1>20, <1>21, <1>22, <1>23 DEF r

\* In class A the procedure is over, and done unless the wait for an ACK goes on.
LEMMA WindowsOver ==
  ASSUME NEW r \in Macs, r.class = "A", r.radio = "SLEEP", ~r.mcps.AckReceived, ~TimedOut(r),
         r.ackCnt \in 1 .. r.ackMax,
         r.ackRetry => r.nodeAck /\ "AckTimeout" \notin r.timers,
         \/ /\ r.state \in {{"TX_RUNNING"}, {"TX_RUNNING", "RX_ABORT"}}
            /\ r.timers = {"MacStateCheck"} /\ Done(r)
         \/ /\ r.state = {"TX_RUNNING"} /\ r.timers = {"MacStateCheck", "AckTimeout"}
            /\ ~Done(r) /\ ~ServerAcks /\ r.nodeAck
  PROVE  Over(r) /\ Phase(r) /\ Acks(r)
<1>1. Over(r)
  BY DEF Over, Others, Resting
<1>2. Phase(r)
  BY <1>1 DEF Phase, InPhase
<1>3. Acks(r)
  BY <1>1 DEF Acks
<1> QED BY <1>1, <1>2, <1>3

\* Uplink, Joins and Queue when the joins are not touched.
LEMMA RequestsKept ==
  ASSUME NEW n, Heard(n), NEW r, r.state # {}, "MacStateCheck" \in n.timers,
         "McpsReq" \in r.flags <=> "McpsReq" \in n.flags,
         "MlmeReq" \in r.flags <=> "MlmeReq" \in n.flags,
         r.joined = n.joined, r.queue = n.queue, r.nodeAck = n.nodeAck,
         r.mlmeRequest = n.mlmeRequest, r.joinTrials = n.joinTrials, Over(r)
  PROVE  Uplink(r) /\ Joins(r) /\ Queue(r)
<1>1. n.state # {} /\ Uplink(n) /\ Queue(n) /\ n.joined \in BOOLEAN
  BY DEF Heard, Macs
<1>2. Uplink(r)
  BY <1>1 DEF Uplink
<1>3. Queue(r)
  BY <1>1 DEF Queue
<1>4. ~Sensing(r) /\ ~Delayed(r) /\ ~Imminent(r)
  BY DEF Over, Sensing, Delayed, Imminent, Others, Resting
<1>5. Joins(r)
  BY <1>1, <1>4 DEF Heard, Joins
<1> QED BY <1>2, <1>3, <1>5

\* So does a proprietary frame, which carries no ACK.
LEMMA ProprietaryReceived ==
  ASSUME NEW n, Heard(n), ~n.mcps.AckReceived, n.class = "A", ~(ServerAcks /\ n.nodeAck)
  PROVE  Sound(FinishRxDone(Mark(n, {"McpsInd"})))
<1> DEFINE m == Mark(n, {"McpsInd"})
           r == FinishRxDone(m)
<1>0. /\ n \in Macs /\ n.state = {"TX_RUNNING"} /\ n.radio = "SLEEP" /\ ~Done(n)
      /\ n.timers \in {{"MacStateCheck"}, {"MacStateCheck", "AckTimeout"}}
      /\ n.ackMax \in Nat /\ n.ackCnt \in 1 .. n.ackMax
  BY BoundsAssumption DEF Heard, Macs
<1>1. m \in Macs /\ Kept(m, n, {"flags"}) /\ m.flags = n.flags \cup {"McpsInd"}
  BY <1>0, BaseTypes, BaseEffects
<1> HIDE DEF m
<1>2. /\ m.timers = n.timers /\ m.nodeAck = n.nodeAck /\ m.class = "A" /\ m.mcps = n.mcps
      /\ m.ackCnt = n.ackCnt /\ m.ackMax = n.ackMax
  BY <1>1 DEF Kept, Fields
<1>3. ~(m.ackCnt > m.ackMax) /\ ~m.mcps.AckReceived
  BY <1>0, <1>2
<1>4. /\ r \in Macs /\ Kept(r, m, {"timers", "flags"})
      /\ "AckTimeout" \in m.timers => r.timers = m.timers /\ r.flags = m.flags
      /\ "AckTimeout" \notin m.timers =>
           /\ r.timers = (m.timers \ {"AckTimeout"}) \cup {"MacStateCheck"}
           /\ r.flags = m.flags \cup {"MacDone"}
  BY <1>1, <1>2, <1>3, ReceptionFinished
<1> HIDE DEF r
<1>5. Kept(r, n, {"timers", "flags"})
  BY <1>1, <1>4 DEF Kept
<1>6. /\ r.class = "A" /\ r.radio = "SLEEP" /\ r.mcps = n.mcps /\ r.common = n.common
      /\ r.ackCnt = n.ackCnt /\ r.ackMax = n.ackMax /\ r.ackRetry = n.ackRetry
      /\ r.nodeAck = n.nodeAck /\ r.state = n.state /\ r.joined = n.joined /\ r.queue = n.queue
      /\ r.mlmeRequest = n.mlmeRequest /\ r.joinTrials = n.joinTrials
  BY <1>0, <1>5 DEF Kept, Fields
<1>7. /\ "McpsReq" \in r.flags <=> "McpsReq" \in n.flags
      /\ "MlmeReq" \in r.flags <=> "MlmeReq" \in n.flags
  BY <1>1, <1>4
<1>8. \/ r.timers = {"MacStateCheck"} /\ Done(r)
      \/ r.timers = {"MacStateCheck", "AckTimeout"} /\ ~Done(r) /\ ~ServerAcks /\ r.nodeAck
  BY <1>0, <1>1, <1>2, <1>4, <1>6 DEF Heard, Done
<1>9. Over(r) /\ Phase(r) /\ Acks(r)
  <2>1. r.ackRetry => r.nodeAck /\ "AckTimeout" \notin r.timers
    BY <1>0, <1>1, <1>2, <1>4, <1>6 DEF Heard
  <2>2. ~TimedOut(r)
    BY <1>6 DEF Heard, TimedOut
  <2> QED BY <1>0, <1>4, <1>6, <1>8, <2>1, <2>2, WindowsOver
<1>10. Uplink(r) /\ Joins(r) /\ Queue(r)
  BY <1>0, <1>6, <1>7, <1>9, RequestsKept
<1> QED BY <1>4, <1>9, <1>10 DEF r, m

\* A frame is rejected; for one of an unknown kind the end of OnRadioRxDone
\* follows, and changes nothing more.
LEMMA FrameRejected ==
  ASSUME NEW n, Heard(n), ~n.mcps.AckReceived, n.class = "A"
  PROVE  Sound(PrepareRxDoneAbort(n)) /\ Sound(FinishRxDone(PrepareRxDoneAbort(n)))
<1> DEFINE m == PrepareRxDoneAbort(n)
           r == FinishRxDone(m)
<1>0. /\ n \in Macs /\ n.state = {"TX_RUNNING"} /\ n.radio = "SLEEP" /\ ~Done(n)
      /\ n.timers \in {{"MacStateCheck"}, {"MacStateCheck", "AckTimeout"}}
      /\ "AckTimeout" \in n.timers => n.nodeAck
      /\ n.ackRetry \in BOOLEAN /\ n.nodeAck \in BOOLEAN /\ (n.ackRetry => n.nodeAck)
      /\ n.ackMax \in Nat /\ n.ackCnt \in 1 .. n.ackMax
  BY BoundsAssumption DEF Heard, Macs
<1>1. /\ m \in Macs /\ Kept(m, n, {"state", "timers", "flags", "ackRetry"})
      /\ m.state = {"TX_RUNNING", "RX_ABORT"} /\ m.timers = {"MacStateCheck"}
      /\ m.flags = n.flags \cup {"McpsInd", "MacDone"} /\ m.ackRetry = n.nodeAck
  BY <1>0, ReceptionAborted
<1> HIDE DEF m
<1>2. /\ r \in Macs /\ Kept(r, m, {"timers", "flags"})
      /\ r.timers = {"MacStateCheck"} /\ r.flags = n.flags \cup {"McpsInd", "MacDone"}
  BY <1>1, ReceptionFinished
<1> HIDE DEF r
<1>3. Kept(r, n, {"state", "timers", "flags", "ackRetry"})
      /\ r.state = m.state /\ r.ackRetry = m.ackRetry
  BY <1>1, <1>2 DEF Kept, Fields
<1>4. ASSUME NEW o \in Macs, Kept(o, n, {"state", "timers", "flags", "ackRetry"}),
             o.state = {"TX_RUNNING", "RX_ABORT"}, o.timers = {"MacStateCheck"},
             o.flags = n.flags \cup {"McpsInd", "MacDone"}, o.ackRetry = n.nodeAck
      PROVE  Sound(o)
  <2>1. /\ o.class = "A" /\ o.radio = "SLEEP" /\ o.mcps = n.mcps /\ o.common = n.common
        /\ o.ackCnt = n.ackCnt /\ o.ackMax = n.ackMax
        /\ o.nodeAck = n.nodeAck /\ o.joined = n.joined /\ o.queue = n.queue
        /\ o.mlmeRequest = n.mlmeRequest /\ o.joinTrials = n.joinTrials
    BY <1>0, <1>4 DEF Kept, Fields
  <2>2. /\ "McpsReq" \in o.flags <=> "McpsReq" \in n.flags
        /\ "MlmeReq" \in o.flags <=> "MlmeReq" \in n.flags
        /\ Done(o)
    BY <1>4 DEF Done
  <2>3. Over(o) /\ Phase(o) /\ Acks(o)
    <3>1. ~TimedOut(o)
      BY <2>1 DEF Heard, TimedOut
    <3>2. "AckTimeout" \notin o.timers
      BY <1>4
    <3> QED BY <1>0, <1>4, <2>1, <2>2, <3>1, <3>2, WindowsOver
  <2>4. Uplink(o) /\ Joins(o) /\ Queue(o)
    BY <1>0, <1>4, <2>1, <2>2, <2>3, RequestsKept
  <2> QED BY <1>4, <2>3, <2>4
<1>5. Sound(m)
  <2> HIDE DEF Sound
  <2> QED BY <1>1, <1>4
<1>6. Sound(r)
  <2> HIDE DEF Sound
  <2> QED BY <1>1, <1>2, <1>3, <1>4
<1> QED BY <1>5, <1>6 DEF r, m

\* A repeated frame: only the status differs.
LEMMA RepeatedRejected ==
  ASSUME NEW n, Heard(n), ~n.mcps.AckReceived, n.class = "A"
  PROVE  Sound(PrepareRxDoneAbort([n EXCEPT !.mcps.Status = "OK"]))
<1> DEFINE m == [n EXCEPT !.mcps.Status = "OK"]
<1>1. n \in Macs
  BY DEF Heard
<1>2. m \in Macs
  BY <1>1 DEF Macs, Results
<1>3. Kept(m, n, {"mcps"}) /\ m.mcps.Status = "OK" /\ m.mcps.AckReceived = n.mcps.AckReceived
  BY <1>1 DEF Macs, Kept, Fields
<1> HIDE DEF m
<1>4. /\ m.class = n.class /\ m.state = n.state /\ m.radio = n.radio /\ m.flags = n.flags
      /\ m.timers = n.timers /\ m.nodeAck = n.nodeAck /\ m.ackCnt = n.ackCnt
      /\ m.ackMax = n.ackMax /\ m.ackRetry = n.ackRetry /\ m.common = n.common
      /\ m.joined = n.joined /\ m.queue = n.queue /\ m.joinTrials = n.joinTrials
      /\ m.mlmeRequest = n.mlmeRequest
  BY <1>3 DEF Kept, Fields
<1>5. Uplink(m) /\ Queue(m) /\ ~TimedOut(m) /\ ~Done(m)
  BY <1>3, <1>4 DEF Heard, Uplink, Queue, TimedOut, Done
<1>6. Heard(m)
  BY <1>2, <1>4, <1>5 DEF Heard
<1> HIDE DEF Sound
<1> QED BY <1>3, <1>4, <1>6, FrameRejected DEF m

\* The answer to a join request, before the device has joined.
LEMMA JoinAnswered ==
  ASSUME NEW n, Heard(n), ~n.mcps.AckReceived, n.class = "A", ~n.joined
  PROVE  Sound(FinishRxDone(AcceptJoin(n))) /\ Sound(FinishRxDone(RefuseJoin(n)))
<1>0. /\ n \in Macs /\ n.state = {"TX_RUNNING"} /\ n.radio = "SLEEP" /\ ~Done(n)
      /\ n.timers = {"MacStateCheck"} /\ ~n.nodeAck /\ ~n.ackRetry
      /\ n.ackMax \in Nat /\ n.ackCnt \in 1 .. n.ackMax
      /\ IsQueued(n.queue, "JOIN") /\ Len(n.queue) = 1
  BY BoundsAssumption DEF Heard, Macs
<1>1. ASSUME NEW st \in {"OK", "JOIN_FAIL"}, NEW m \in Macs,
             Kept(m, n, {"queue", "joined", "counterUsed"}),
             m.queue = AnswerFirst(n.queue, "JOIN", st), m.joined <=> st = "OK"
      PROVE  Sound(FinishRxDone(m))
  <2> DEFINE r == FinishRxDone(m)
  <2>1. /\ m.class = "A" /\ m.state = n.state /\ m.radio = n.radio /\ m.flags = n.flags
        /\ m.timers = n.timers /\ m.nodeAck = n.nodeAck /\ m.ackCnt = n.ackCnt
        /\ m.ackMax = n.ackMax /\ m.ackRetry = n.ackRetry /\ m.common = n.common
        /\ m.mcps = n.mcps /\ m.joinTrials = n.joinTrials /\ m.mlmeRequest = n.mlmeRequest
    BY <1>1 DEF Kept, Fields
  <2>2. /\ r \in Macs /\ Kept(r, m, {"timers", "flags"})
        /\ r.timers = {"MacStateCheck"} /\ r.flags = m.flags \cup {"MacDone"}
    BY <1>0, <1>1, <2>1, ReceptionFinished
  <2> HIDE DEF r
  <2>3. /\ r.class = "A" /\ r.state = m.state /\ r.radio = m.radio
        /\ r.nodeAck = m.nodeAck /\ r.ackCnt = m.ackCnt
        /\ r.ackMax = m.ackMax /\ r.ackRetry = m.ackRetry /\ r.common = m.common
        /\ r.mcps = m.mcps /\ r.joinTrials = m.joinTrials /\ r.mlmeRequest = m.mlmeRequest
        /\ r.queue = m.queue /\ r.joined = m.joined
    BY <2>1, <2>2 DEF Kept, Fields
  <2>4. n.queue \in Seq(MlmeElement)
    BY <1>0 DEF Macs
  <2>5. /\ r.queue \in Seq(MlmeElement) /\ Len(r.queue) = Len(n.queue)
        /\ DOMAIN r.queue = DOMAIN n.queue
        /\ \A i \in DOMAIN n.queue :
             /\ r.queue[i].Request = n.queue[i].Request
             /\ r.queue[i].RestrictCommon = n.queue[i].RestrictCommon
             /\ n.queue[i].ReadyToHandle => r.queue[i].ReadyToHandle
             /\ r.queue[i].Status = IF IsFirst(n.queue, i, "JOIN") THEN st ELSE n.queue[i].Status
    BY <1>1, <2>3, <2>4, AnsweredFirst DEF Results
  <2>6. DOMAIN n.queue = {1} /\ n.queue[1].Request = "JOIN"
    BY <1>0, <2>4 DEF IsQueued
  <2>7. r.queue[1].Status = st
    <3>1. IsFirst(n.queue, 1, "JOIN")
      BY <2>6 DEF IsFirst
    <3> QED BY <2>5, <2>6, <3>1
  <2>8. IsQueued(r.queue, "JOIN")
    BY <2>5, <2>6 DEF IsQueued
  <2>9. Over(r) /\ Phase(r) /\ Acks(r) /\ Done(r)
    <3>1. Done(r)
      BY <2>2 DEF Done
    <3>2. ~TimedOut(r)
      BY <2>1, <2>3 DEF Heard, TimedOut
    <3> QED BY <1>0, <2>1, <2>2, <2>3, <3>1, <3>2, WindowsOver
  <2>10. /\ "McpsReq" \notin r.flags /\ "MlmeReq" \in r.flags
    BY <2>1, <2>2 DEF Heard
  <2>11. Uplink(r)
    BY <2>8, <2>10 DEF Uplink
  <2>12. Queue(r)
    BY <1>0, <2>5 DEF Heard, Queue
  <2>13. ~Sensing(r) /\ ~Delayed(r) /\ ~Imminent(r)
    BY <2>9 DEF Over, Sensing, Delayed, Imminent, Others, Resting
  <2>14. Joins(r)
    <3>1. r.joinTrials \in 0 .. MaxJoinTrials /\ r.mlmeRequest = "JOIN" /\ ~r.nodeAck
          /\ r.state # {} /\ Len(r.queue) = 1 /\ (r.queue[1].Status = "OK" <=> r.joined)
          /\ r.class = "A" /\ r.radio = "SLEEP" /\ r.timers = {"MacStateCheck"}
      BY <1>0, <1>1, <2>1, <2>2, <2>3, <2>5, <2>7 DEF Heard
    <3> QED BY <2>8, <2>9, <2>10, <2>13, <3>1 DEF Joins
  <2> QED BY <2>2, <2>9, <2>11, <2>12, <2>14 DEF r
<1>2. n.queue \in Seq(MlmeElement)
  BY <1>0 DEF Macs
<1>3. Sound(FinishRxDone(AcceptJoin(n)))
  <2> DEFINE q == AnswerFirst(n.queue, "JOIN", "OK")
             m == [n EXCEPT !.queue = q, !.joined = TRUE, !.counterUsed = FALSE]
  <2>1. AcceptJoin(n) = m
    BY <1>0 DEF AcceptJoin
  <2>2. q \in Seq(MlmeElement)
    BY <1>2, AnsweredFirst DEF Results
  <2> HIDE DEF q
  <2>3. m \in Macs
    BY <1>0, <2>2 DEF Macs
  <2>4. Kept(m, n, {"queue", "joined", "counterUsed"}) /\ m.queue = q /\ m.joined
    BY <1>0 DEF Macs, Kept, Fields
  <2> HIDE DEF m, Sound
  <2> QED BY <1>1, <2>1, <2>3, <2>4 DEF q
<1>4. Sound(FinishRxDone(RefuseJoin(n)))
  <2> DEFINE q == AnswerFirst(n.queue, "JOIN", "JOIN_FAIL")
             m == [n EXCEPT !.queue = q]
  <2>1. RefuseJoin(n) = m
    BY DEF RefuseJoin
  <2>2. q \in Seq(MlmeElement)
    BY <1>2, AnsweredFirst DEF Results
  <2> HIDE DEF q
  <2>3. m \in Macs
    BY <1>0, <2>2 DEF Macs
  <2>4. Kept(m, n, {"queue", "joined", "counterUsed"}) /\ m.queue = q /\ ~m.joined
    BY <1>0 DEF Macs, Kept, Fields
  <2> HIDE DEF m, Sound
  <2> QED BY <1>1, <2>1, <2>3, <2>4 DEF q
<1> QED BY <1>3, <1>4

\* The reception of any frame keeps the invariant.
LEMMA RxDoneStep ==
  ASSUME IInv, OrderlyUse, NEW f \in Frames, RxDone(f)
  PROVE  IInv'
<1> HIDE DEF Sound
<1>1. PICK n : /\ Heard(n) /\ ~n.mcps.AckReceived /\ n.mcps.Request = mac.mcps.Request
               /\ n.joined = mac.joined /\ n.nodeAck = mac.nodeAck
               /\ n.class = "C" => f.kind = "data"
               /\ mac' =
                    CASE f.kind = "data"    -> FinishRxDone(ReceiveData(n, f))
                      [] f.kind = "proprietary" -> FinishRxDone(Mark(n, {"McpsInd"}))
                      [] f.kind = "unknown" -> FinishRxDone(PrepareRxDoneAbort(n))
                      [] f.kind = "repeated" ->
                           PrepareRxDoneAbort([n EXCEPT !.mcps.Status = "OK"])
                      [] f.kind = "abort" -> PrepareRxDoneAbort(n)
                      [] f.kind = "accept" ->
                           IF mac.joined THEN PrepareRxDoneAbort(n)
                                         ELSE FinishRxDone(AcceptJoin(n))
                      [] f.kind = "badAccept" ->
                           IF mac.joined THEN PrepareRxDoneAbort(n)
                                         ELSE FinishRxDone(RefuseJoin(n))
  BY Prelude
<1>2. /\ f.kind = "data" =>
           /\ mac.joined
           /\ f.ack => mac.mcps.Request = "CONFIRMED" /\ mac.sent > 0
           /\ ServerAcks /\ mac.nodeAck => f.ack
      /\ f.kind = "proprietary" => ~(ServerAcks /\ mac.nodeAck)
  BY DEF RxDone
<1>3. n.class \in {"A", "C"}
  BY <1>1 DEF Heard, Macs
<1>4. f.kind \in {"data", "proprietary", "unknown", "repeated", "abort", "accept", "badAccept"}
  BY DEF Frames
<1>5. CASE f.kind = "data"
  <2>1. mac' = FinishRxDone(ReceiveData(n, f))
    BY <1>1, <1>5
  <2> QED BY <1>1, <1>2, <1>5, <2>1, DataReceived DEF IInv
<1>6. CASE f.kind = "proprietary"
  <2>1. mac' = FinishRxDone(Mark(n, {"McpsInd"}))
    BY <1>1, <1>6
  <2> QED BY <1>1, <1>2, <1>3, <1>6, <2>1, ProprietaryReceived DEF IInv
<1>7. CASE f.kind = "unknown"
  <2>1. mac' = FinishRxDone(PrepareRxDoneAbort(n))
    BY <1>1, <1>7
  <2> QED BY <1>1, <1>3, <1>7, <2>1, FrameRejected DEF IInv
<1>8. CASE f.kind = "repeated"
  <2>1. mac' = PrepareRxDoneAbort([n EXCEPT !.mcps.Status = "OK"])
    BY <1>1, <1>8
  <2> QED BY <1>1, <1>3, <1>8, <2>1, RepeatedRejected DEF IInv
<1>9. CASE f.kind = "abort"
  <2>1. mac' = PrepareRxDoneAbort(n)
    BY <1>1, <1>9
  <2> QED BY <1>1, <1>3, <1>9, <2>1, FrameRejected DEF IInv
<1>10. CASE f.kind = "accept"
  <2>1. mac' = IF mac.joined THEN PrepareRxDoneAbort(n) ELSE FinishRxDone(AcceptJoin(n))
    BY <1>1, <1>10
  <2> QED BY <1>1, <1>3, <1>10, <2>1, FrameRejected, JoinAnswered DEF IInv
<1>11. CASE f.kind = "badAccept"
  <2>1. mac' = IF mac.joined THEN PrepareRxDoneAbort(n) ELSE FinishRxDone(RefuseJoin(n))
    BY <1>1, <1>11
  <2> QED BY <1>1, <1>3, <1>11, <2>1, FrameRejected, JoinAnswered DEF IInv
<1> QED BY <1>4, <1>5, <1>6, <1>7, <1>8, <1>9, <1>10, <1>11

-----------------------------------------------------------------------------
(* The requests of the application.                                          *)

\* An idle MAC: what the invariant says of it.
LEMMA WhenIdle ==
  ASSUME IInv, mac.state = {}
  PROVE  /\ Idle(mac) /\ ~Over(mac) /\ ~Listening(mac) /\ ~Done(mac) /\ ~OnAir(mac)
         /\ ~mac.ackRetry /\ "McpsReq" \notin mac.flags /\ ~IsQueued(mac.queue, "JOIN")
         /\ ~mac.joined => mac.queue = <<>>
         /\ ~(mac.nodeAck /\ mac.mcps.AckReceived)
<1>1. /\ Idle(mac) /\ ~Over(mac) /\ ~Listening(mac) /\ ~Done(mac) /\ ~OnAir(mac)
  BY DEF IInv, Phase, InPhase, Idle, Sensing, Delayed, Imminent, OnAir, Listening, Over
<1> QED BY <1>1 DEF IInv, Acks, Uplink, Joins

\* The MAC after a request that leaves it idle.
LEMMA StaysIdle ==
  ASSUME IInv, mac.state = {}, NEW r \in Macs,
         r.state = {}, r.timers = {}, Resting(r), r.radio = "RXC" => r.class = "C",
         r.class \in {"A"} \cup Classes,
         r.flags \ {"MlmeReq"} = mac.flags \ {"MlmeReq"}, r.joined = mac.joined,
         r.ackRetry = mac.ackRetry, r.ackCnt \in 1 .. r.ackMax, r.nodeAck => mac.nodeAck,
         r.mcps.AckReceived => mac.mcps.AckReceived, r.joinTrials = mac.joinTrials,
         r.mlmeRequest = mac.mlmeRequest, Queue(r), ~IsQueued(r.queue, "JOIN"),
         ~r.joined => r.queue = <<>>
  PROVE  Sound(r)
<1>1. /\ Idle(mac) /\ ~Done(mac) /\ ~mac.ackRetry /\ "McpsReq" \notin mac.flags
      /\ ~(mac.nodeAck /\ mac.mcps.AckReceived)
  BY WhenIdle
<1>2. "McpsReq" \notin r.flags /\ ~Done(r)
  BY <1>1 DEF Done
<1>3. Idle(r) /\ ~Over(r) /\ ~Listening(r) /\ ~OnAir(r) /\ ~Sensing(r) /\ ~Delayed(r) /\ ~Imminent(r)
  BY DEF Idle, Sensing, Delayed, Imminent, OnAir, Listening, Over
<1>4. Phase(r)
  BY <1>2, <1>3 DEF Phase, InPhase
<1>5. Acks(r)
  BY <1>1, <1>3 DEF Acks
<1>6. Uplink(r)
  BY <1>2 DEF Uplink
<1>7. Joins(r)
  BY <1>3 DEF Joins, IInv
<1> QED BY <1>4, <1>5, <1>6, <1>7

\* A request that Send refuses leaves the procedure as it is.
LEMMA McpsRefused ==
  ASSUME IInv, NEW m1 \in Macs, mac.state \cap {"TX_RUNNING", "TX_DELAYED"} = {},
         ~Listening(mac), ~Over(mac),
         Kept(m1, mac, {"ackCnt", "ackMax", "mcps", "nodeAck", "frame"}),
         m1.ackCnt \in 1 .. m1.ackMax, ~m1.mcps.AckReceived, ~m1.nodeAck
  PROVE  Sound(m1)
<1>1. /\ m1.class = mac.class /\ m1.state = mac.state /\ m1.radio = mac.radio
      /\ m1.flags = mac.flags /\ m1.timers = mac.timers /\ m1.ackRetry = mac.ackRetry
      /\ m1.joined = mac.joined /\ m1.queue = mac.queue /\ m1.joinTrials = mac.joinTrials
      /\ m1.mlmeRequest = mac.mlmeRequest /\ m1.rxSlot = mac.rxSlot
  BY DEF Kept, Fields
<1>2. /\ Idle(m1) <=> Idle(mac)
      /\ Sensing(m1) <=> Sensing(mac)
      /\ Delayed(m1) <=> Delayed(mac)
      /\ Imminent(m1) <=> Imminent(mac)
      /\ OnAir(m1) <=> OnAir(mac)
      /\ Over(m1) <=> Over(mac)
      /\ Done(m1) <=> Done(mac)
  BY <1>1 DEF Idle, Sensing, Delayed, Imminent, OnAir, Over, Done, Others, Resting
<1>3. Listening(m1) <=> Listening(mac)
  BY <1>1 DEF Listening, Others, Windows, Resting
<1>4. ~OnAir(mac) /\ "AckTimeout" \notin mac.timers
  BY DEF IInv, Phase, InPhase, Idle, Sensing, Delayed, Imminent, OnAir, Others
<1>5. Phase(m1)
  BY <1>1, <1>2, <1>3 DEF Phase, InPhase, IInv
<1>6. Acks(m1)
  BY <1>1, <1>2, <1>3, <1>4 DEF Acks, IInv
<1>7. Uplink(m1)
  BY <1>1 DEF Uplink, IInv
<1>8. Joins(m1)
  BY <1>1, <1>2 DEF Joins, IInv
<1>9. Queue(m1)
  BY <1>1 DEF Queue, IInv
<1> QED BY <1>5, <1>6, <1>7, <1>8, <1>9

\* A request for an uplink keeps the invariant.
LEMMA McpsRequestStep ==
  ASSUME IInv, OrderlyUse, NEW type \in Uplinks, NEW out \in Outcomes, McpsRequest(type, out)
  PROVE  IInv'
<1> DEFINE max == IF type = "CONFIRMED" THEN NbTrials ELSE 1
           fr  == IF ~mac.joined THEN "NONE" ELSE IF mac.counterUsed THEN "REUSED" ELSE "FRESH"
           mc  == [Request |-> "UNCONFIRMED", Status |-> "ERROR", AckReceived |-> FALSE]
           m1  == [mac EXCEPT !.ackCnt = 1, !.ackMax = max, !.mcps = mc, !.nodeAck = FALSE,
                              !.frame = fr]
           ack == type = "CONFIRMED"
           m2  == [m1 EXCEPT !.nodeAck = ack, !.sent = 0, !.heardAck = FALSE]
           s   == ScheduleTx(m2, out)
           m3  == [s EXCEPT !.mcps.Request = type]
<1>1. type \in {"CONFIRMED", "UNCONFIRMED"} /\ mac \in Macs
  BY ConfigurationAssumption DEF IInv
<1>2. max \in {1, NbTrials} /\ 1 \in 1 .. max /\ 1 \in Nat /\ 0 \in 0 .. SentCap
      /\ mc \in [Request : {"CONFIRMED", "UNCONFIRMED"}, Status : Results, AckReceived : BOOLEAN]
      /\ fr \in {"NONE", "JOIN", "FRESH", "REUSED"} /\ ack \in BOOLEAN /\ mc.AckReceived = FALSE
  BY <1>1, BoundsAssumption DEF Results
<1>3. /\ mac.state \cap {"TX_RUNNING", "TX_DELAYED"} = {} /\ "McpsReq" \notin mac.flags
      /\ mac' = IF mac.joined /\ out # "LENGTH" THEN Mark(m3, {"McpsReq"}) ELSE m1
  BY DEF McpsRequest, OrderlyUse
<1> HIDE DEF max, fr, mc, ack
<1>4. m1 \in Macs
  BY <1>1, <1>2, ZenonT(40) DEF Macs
<1>5. /\ Kept(m1, mac, {"ackCnt", "ackMax", "mcps", "nodeAck", "frame"})
      /\ m1.ackCnt = 1 /\ m1.ackMax = max /\ m1.mcps = mc /\ ~m1.nodeAck
  BY <1>1 DEF Macs, Kept, Fields
<1>6. Idle(mac) \/ Sensing(mac)
  BY <1>3 DEF IInv, Phase, InPhase, Idle, Sensing, Delayed, Imminent, OnAir, Listening, Over
<1>7. ~Listening(mac) /\ ~Over(mac)
  BY <1>3 DEF Listening, Over
<1>8. CASE ~(mac.joined /\ out # "LENGTH")
  <2>1. mac' = m1
    BY <1>3, <1>8
  <2>2. m1.ackCnt \in 1 .. m1.ackMax /\ ~m1.mcps.AckReceived
    BY <1>2, <1>5
  <2> HIDE DEF m1, Sound
  <2>3. Sound(m1)
    BY <1>3, <1>4, <1>5, <1>7, <2>2, McpsRefused
  <2> QED BY <2>1, <2>3 DEF IInv
<1>9. CASE mac.joined /\ out # "LENGTH"
  <2>1. mac' = Mark(m3, {"McpsReq"})
    BY <1>3, <1>9
  <2>2. mac.state = {}
    BY <1>3, <1>9, <1>7 DEF IInv, Uplink, Joins
  <2>3. /\ Idle(mac) /\ ~Done(mac) /\ ~mac.ackRetry /\ ~IsQueued(mac.queue, "JOIN")
    BY <2>2, WhenIdle
  <2> HIDE DEF m1
  <2>4. m2 \in Macs
    BY <1>2, <1>4 DEF Macs
  <2>5. Kept(m2, m1, {"nodeAck", "sent", "heardAck"})
    BY <1>4 DEF Macs, Kept, Fields
  <2> HIDE DEF m2
  <2>6. /\ s \in Macs /\ Kept(s, m2, {"state", "timers", "radio"})
        /\ out = "CAD" => /\ s.state = m2.state \cup {"CAD_RUNNING"}
                          /\ s.timers = m2.timers \cup {"CadTimeout"} /\ s.radio = "CAD"
        /\ out = "DELAY" => /\ s.state = m2.state \cup {"TX_DELAYED"}
                            /\ s.timers = m2.timers \cup {"TxDelayed"} /\ s.radio = m2.radio
    BY <2>4, Scheduled
  <2> HIDE DEF s
  <2>7. m3 \in Macs
    BY <1>1, <2>6 DEF Macs
  <2>8. Kept(m3, s, {"mcps"}) /\ m3.mcps.AckReceived = s.mcps.AckReceived
    BY <2>6 DEF Macs, Kept, Fields
  <2> HIDE DEF m3
  <2>9. mac' \in Macs /\ Kept(mac', m3, {"flags"}) /\ mac'.flags = m3.flags \cup {"McpsReq"}
    BY <2>1, <2>7, BaseTypes, BaseEffects
  <2>10. /\ m2.state = mac.state /\ m2.timers = mac.timers /\ m2.radio = mac.radio
         /\ m3.flags = mac.flags /\ s.mcps = mc
         /\ mac'.state = s.state /\ mac'.timers = s.timers /\ mac'.radio = s.radio
         /\ mac'.mcps = m3.mcps /\ mac'.ackCnt = 1 /\ mac'.ackMax = max
    BY <1>5, <2>5, <2>6, <2>8, <2>9 DEF Kept, Fields
  <2>11. /\ mac'.class = mac.class /\ mac'.ackRetry = mac.ackRetry /\ mac'.joined = mac.joined
         /\ mac'.queue = mac.queue /\ mac'.joinTrials = mac.joinTrials
         /\ mac'.mlmeRequest = mac.mlmeRequest
    BY <1>5, <2>5, <2>6, <2>8, <2>9 DEF Kept, Fields
  <2>12. ~mac'.mcps.AckReceived
    BY <1>2, <2>8, <2>10
  <2>13. (Sensing(mac') /\ mac'.radio = "CAD") \/ (Delayed(mac') /\ mac'.radio = mac.radio)
    BY <1>9, <2>3, <2>6, <2>10 DEF Idle, Sensing, Delayed, Others, Resting, Outcomes
  <2>14. /\ ~Over(mac') /\ ~Listening(mac') /\ ~OnAir(mac') /\ mac'.state # {}
         /\ "AckTimeout" \notin mac'.timers /\ "MacStateCheck" \notin mac'.timers
    BY <1>9, <2>3, <2>6, <2>10, <2>13 DEF Idle, Sensing, Delayed, Over, Listening, OnAir, Outcomes
  <2>15. ~Done(mac') /\ "McpsReq" \in mac'.flags
    BY <2>3, <2>9, <2>10 DEF Done
  <2>16. Phase(mac')
    BY <2>11, <2>13, <2>14, <2>15 DEF Phase, InPhase, IInv
  <2>17. Acks(mac')
    BY <1>2, <2>3, <2>10, <2>11, <2>12, <2>14 DEF Acks
  <2>18. Uplink(mac')
    BY <1>9, <2>11, <2>14, <2>15 DEF Uplink
  <2>19. Joins(mac')
    BY <1>9, <2>3, <2>11 DEF Joins, IInv
  <2>20. Queue(mac')
    BY <2>11, <2>14 DEF Queue, IInv
  <2> QED BY <2>9, <2>16, <2>17, <2>18, <2>19, <2>20 DEF IInv
<1> QED BY <1>8, <1>9

\* A queued request goes to the end of the queue.
LEMMA QueueAppended ==
  ASSUME NEW q \in Seq(MlmeElement), NEW r \in {"JOIN", "LINK_CHECK"}, NEW st \in Results
  PROVE  LET a == Append(q, Queued(r, st, FALSE)) IN
         /\ a \in Seq(MlmeElement) /\ Len(a) = Len(q) + 1 /\ DOMAIN a = 1 .. Len(q) + 1
         /\ \A i \in DOMAIN q : a[i] = q[i]
         /\ a[Len(q) + 1] = Queued(r, st, FALSE)
<1>1. Queued(r, st, FALSE) \in MlmeElement
  BY DEF Queued, MlmeElement
<1> DEFINE e == Queued(r, st, FALSE)
           a == Append(q, e)
<1>2. e \in MlmeElement
  BY <1>1
<1> HIDE DEF e
<1>3. a \in Seq(MlmeElement) /\ Len(a) = Len(q) + 1
  BY <1>2
<1>4. (\A i \in 1 .. Len(q) : a[i] = q[i]) /\ a[Len(q) + 1] = e
  BY <1>2
<1>5. DOMAIN a = 1 .. Len(a) /\ DOMAIN q = 1 .. Len(q)
  BY <1>3
<1> QED BY <1>3, <1>4, <1>5 DEF e

\* A join request keeps the invariant.
LEMMA JoinStep ==
  ASSUME IInv, NEW out \in Outcomes \ {"LENGTH"}, Join(out)
  PROVE  IInv'
<1> DEFINE q  == Append(mac.queue, Queued("JOIN", "JOIN_FAIL", FALSE))
           n  == ResetMacParameters(mac)
           m1 == [n EXCEPT !.queue = q, !.joinTrials = 0, !.joinMax = MaxJoinTrials,
                           !.frame = "JOIN", !.mcps.AckReceived = FALSE, !.sent = 0]
           m2 == Mark(m1, {"MlmeReq"})
<1>1. mac.state = {} /\ ~mac.joined /\ mac \in Macs
  BY DEF Join, MlmeRequest, IInv
<1>2. /\ Idle(mac) /\ ~Done(mac) /\ "McpsReq" \notin mac.flags /\ mac.queue = <<>>
      /\ mac.mlmeRequest = "JOIN"
  BY <1>1, WhenIdle DEF IInv, Joins
<1>3. mac.queue \in Seq(MlmeElement)
  BY <1>1 DEF Macs
<1>4. q \in Seq(MlmeElement) /\ Len(q) = 1 /\ DOMAIN q = {1}
      /\ q[1] = Queued("JOIN", "JOIN_FAIL", FALSE)
  <2>1. Len(mac.queue) = 0
    BY <1>2
  <2> HIDE DEF q
  <2>2. /\ q \in Seq(MlmeElement) /\ Len(q) = Len(mac.queue) + 1
        /\ DOMAIN q = 1 .. Len(mac.queue) + 1
        /\ q[Len(mac.queue) + 1] = Queued("JOIN", "JOIN_FAIL", FALSE)
    BY <1>3, QueueAppended DEF Results, q
  <2>3. Len(mac.queue) + 1 = 1 /\ 1 .. 1 = {1}
    BY <2>1
  <2> QED BY <2>2, <2>3
<1>5. /\ n \in Macs /\ Kept(n, mac, Restarted)
      /\ n.ackMax = 1 /\ n.ackCnt = 1 /\ ~n.ackRetry /\ ~n.nodeAck
  BY <1>1, ParametersReset
<1>6. n.queue = mac.queue
  BY <1>5 DEF Kept, Fields, Restarted
<1>7. mac' = ScheduleTx(m2, out)
  BY <1>5, <1>6 DEF Join, Macs
<1> HIDE DEF n, q
<1>8. m1 \in Macs
  <2>1. 0 \in Nat /\ 0 \in 0 .. SentCap /\ MaxJoinTrials \in {1, MaxJoinTrials}
    BY BoundsAssumption
  <2> QED BY <1>4, <1>5, <2>1 DEF Macs
<1>9. /\ Kept(m1, n, {"queue", "joinTrials", "joinMax", "frame", "mcps", "sent"})
      /\ m1.queue = q /\ m1.joinTrials = 0 /\ m1.mcps.AckReceived = FALSE
  BY <1>5 DEF Macs, Kept, Fields
<1> HIDE DEF m1
<1>10. m2 \in Macs /\ Kept(m2, m1, {"flags"}) /\ m2.flags = m1.flags \cup {"MlmeReq"}
  BY <1>8, BaseTypes, BaseEffects
<1> HIDE DEF m2
<1>11. /\ mac' \in Macs /\ Kept(mac', m2, {"state", "timers", "radio"})
       /\ out = "CAD" => /\ mac'.state = m2.state \cup {"CAD_RUNNING"}
                         /\ mac'.timers = m2.timers \cup {"CadTimeout"} /\ mac'.radio = "CAD"
       /\ out = "DELAY" => /\ mac'.state = m2.state \cup {"TX_DELAYED"}
                           /\ mac'.timers = m2.timers \cup {"TxDelayed"}
                           /\ mac'.radio = m2.radio
  BY <1>7, <1>10, Scheduled
<1>12. /\ m2.state = mac.state /\ m2.timers = mac.timers /\ m2.radio = mac.radio
       /\ m1.flags = mac.flags /\ mac'.flags = m2.flags /\ mac'.class = mac.class
       /\ mac'.joined = mac.joined /\ mac'.mlmeRequest = mac.mlmeRequest
  BY <1>5, <1>9, <1>10, <1>11 DEF Kept, Fields, Restarted
<1>13. /\ mac'.queue = q /\ mac'.joinTrials = 0 /\ mac'.mcps = m1.mcps
       /\ mac'.ackMax = n.ackMax /\ mac'.ackCnt = n.ackCnt /\ mac'.ackRetry = n.ackRetry
       /\ mac'.nodeAck = n.nodeAck
  BY <1>9, <1>10, <1>11 DEF Kept, Fields
<1>14. (Sensing(mac') /\ mac'.radio = "CAD") \/ (Delayed(mac') /\ mac'.radio = mac.radio)
  BY <1>2, <1>11, <1>12 DEF Idle, Sensing, Delayed, Others, Resting, Outcomes
<1>15. /\ ~Over(mac') /\ ~Listening(mac') /\ ~OnAir(mac') /\ mac'.state # {}
       /\ "AckTimeout" \notin mac'.timers /\ "MacStateCheck" \notin mac'.timers
  BY <1>2, <1>11, <1>12, <1>14 DEF Idle, Sensing, Delayed, Over, Listening, OnAir, Outcomes
<1>16. ~Done(mac') /\ "McpsReq" \notin mac'.flags /\ "MlmeReq" \in mac'.flags
  BY <1>2, <1>10, <1>12 DEF Done
<1>17. Phase(mac')
  BY <1>12, <1>14, <1>15, <1>16 DEF Phase, InPhase, IInv
<1>18. Acks(mac')
  <2>1. mac'.ackCnt \in 1 .. mac'.ackMax
    BY <1>5, <1>13
  <2> QED BY <1>5, <1>13, <1>15, <2>1 DEF Acks
<1>19. /\ IsQueued(mac'.queue, "JOIN") /\ mac'.queue[1].Status = "JOIN_FAIL"
       /\ ~mac'.queue[1].RestrictCommon
  BY <1>4, <1>13 DEF IsQueued, Queued
<1>20. Uplink(mac')
  BY <1>16, <1>19 DEF Uplink
<1>21. Joins(mac')
  <2>1. 0 \in 0 .. MaxJoinTrials /\ 0 < MaxJoinTrials
    BY BoundsAssumption
  <2> QED BY <1>1, <1>2, <1>4, <1>5, <1>12, <1>13, <1>15, <1>16, <1>19, <2>1 DEF Joins
<1>22. Queue(mac')
  <2>0. 1 <= QueueLen
    BY BoundsAssumption
  <2>1. Len(mac'.queue) <= QueueLen
    BY <1>4, <1>13, <2>0
  <2>2. \A i \in DOMAIN mac'.queue : ~mac'.queue[i].RestrictCommon
    BY <1>4, <1>13, <1>19
  <2> QED BY <1>15, <2>1, <2>2 DEF Queue
<1> QED BY <1>11, <1>17, <1>18, <1>20, <1>21, <1>22 DEF IInv

\* A link check request keeps the invariant.
LEMMA LinkCheckStep ==
  ASSUME IInv, NEW fits \in BOOLEAN, LinkCheck(fits)
  PROVE  IInv'
<1> DEFINE q  == Append(mac.queue, Queued("LINK_CHECK", "ERROR", FALSE))
           m1 == [mac EXCEPT !.queue = q]
           m2 == [mac EXCEPT !.nodeAck = FALSE]
<1>1. /\ mac.state = {} /\ mac.joined /\ mac \in Macs /\ Len(mac.queue) < QueueLen
      /\ mac.queue \in Seq(MlmeElement) /\ mac.class \in {"A"} \cup Classes
      /\ mac.radio = "RXC" => mac.class = "C"
  BY DEF LinkCheck, MlmeRequest, IInv, Macs, Phase
<1>2. /\ Idle(mac) /\ ~IsQueued(mac.queue, "JOIN") /\ mac.ackCnt \in 1 .. mac.ackMax
      /\ Queue(mac)
  BY <1>1, WhenIdle DEF IInv, Acks
<1>3. /\ q \in Seq(MlmeElement) /\ Len(q) = Len(mac.queue) + 1
      /\ DOMAIN q = 1 .. Len(mac.queue) + 1 /\ (\A i \in DOMAIN mac.queue : q[i] = mac.queue[i])
      /\ q[Len(mac.queue) + 1] = Queued("LINK_CHECK", "ERROR", FALSE)
  BY <1>1, QueueAppended DEF Results
<1>4. mac' = CASE fits -> Mark(m1, {"MlmeReq"})
               [] ~fits /\ mac.queue = <<>> -> Unmark(m2, {"MlmeReq"})
               [] OTHER -> Mark(m2, {"MlmeReq"})
  BY DEF LinkCheck
<1>5. \/ mac' = Mark(m1, {"MlmeReq"})
      \/ mac' \in {Mark(m2, {"MlmeReq"}), Unmark(m2, {"MlmeReq"})}
  BY <1>4
<1> HIDE DEF q
<1>6. /\ m1 \in Macs /\ m2 \in Macs
  BY <1>1, <1>3, ZenonT(30) DEF Macs
<1>7. /\ Kept(m1, mac, {"queue"}) /\ m1.queue = q
      /\ Kept(m2, mac, {"nodeAck"}) /\ ~m2.nodeAck
  BY <1>1 DEF Macs, Kept, Fields
<1> HIDE DEF m1, m2
<1>8. \/ /\ mac' \in Macs /\ Kept(mac', mac, {"queue", "flags"}) /\ mac'.queue = q
         /\ mac'.flags \ {"MlmeReq"} = mac.flags \ {"MlmeReq"}
      \/ /\ mac' \in Macs /\ Kept(mac', mac, {"nodeAck", "flags"}) /\ ~mac'.nodeAck
         /\ mac'.flags \ {"MlmeReq"} = mac.flags \ {"MlmeReq"}
  <2>1. m1.flags = mac.flags /\ m2.flags = mac.flags
    BY <1>7 DEF Kept, Fields
  <2>2. CASE mac' = Mark(m1, {"MlmeReq"})
    <3>1. mac' \in Macs /\ Kept(mac', m1, {"flags"}) /\ mac'.flags = m1.flags \cup {"MlmeReq"}
      BY <1>6, <2>2, BaseTypes, BaseEffects
    <3> QED BY <1>7, <2>1, <3>1 DEF Kept, Fields
  <2>3. CASE mac' = Mark(m2, {"MlmeReq"})
    <3>1. mac' \in Macs /\ Kept(mac', m2, {"flags"}) /\ mac'.flags = m2.flags \cup {"MlmeReq"}
      BY <1>6, <2>3, BaseTypes, BaseEffects
    <3> QED BY <1>7, <2>1, <3>1 DEF Kept, Fields
  <2>4. CASE mac' = Unmark(m2, {"MlmeReq"})
    <3>1. mac' \in Macs /\ Kept(mac', m2, {"flags"}) /\ mac'.flags = m2.flags \ {"MlmeReq"}
      BY <1>6, <2>4, BaseTypes, BaseEffects
    <3> QED BY <1>7, <2>1, <3>1 DEF Kept, Fields
  <2> QED BY <1>5, <2>2, <2>3, <2>4
<1>9. /\ mac' \in Macs /\ mac'.state = {} /\ mac'.timers = mac.timers /\ mac'.radio = mac.radio
      /\ mac'.class = mac.class /\ mac'.joined = mac.joined /\ mac'.ackRetry = mac.ackRetry
      /\ mac'.ackCnt = mac.ackCnt /\ mac'.ackMax = mac.ackMax /\ mac'.mcps = mac.mcps
      /\ mac'.joinTrials = mac.joinTrials /\ mac'.mlmeRequest = mac.mlmeRequest
      /\ mac'.flags \ {"MlmeReq"} = mac.flags \ {"MlmeReq"}
      /\ mac'.queue \in {q, mac.queue} /\ (mac'.nodeAck => mac.nodeAck)
  BY <1>1, <1>8 DEF Kept, Fields
<1>10. mac.timers = {} /\ Resting(mac)
  BY <1>2 DEF Idle
<1>11. Queue(mac') /\ ~IsQueued(mac'.queue, "JOIN")
  <2>1. CASE mac'.queue = mac.queue
    BY <1>2, <1>9, <2>1 DEF Queue
  <2>2. CASE mac'.queue = q
    <3>1. ~Queued("LINK_CHECK", "ERROR", FALSE).RestrictCommon
          /\ Queued("LINK_CHECK", "ERROR", FALSE).Request = "LINK_CHECK"
      BY DEF Queued
    <3>2. DOMAIN mac.queue = 1 .. Len(mac.queue) /\ Len(mac.queue) \in Nat /\ QueueLen \in Nat
      BY <1>1, BoundsAssumption
    <3>3. \A i \in DOMAIN q : ~q[i].RestrictCommon /\ q[i].Request # "JOIN"
      <4>1. \A i \in 1 .. Len(mac.queue) : ~q[i].RestrictCommon /\ q[i].Request # "JOIN"
        BY <1>2, <1>3, <3>2 DEF Queue, IsQueued
      <4>2. ~q[Len(mac.queue) + 1].RestrictCommon /\ q[Len(mac.queue) + 1].Request # "JOIN"
        BY <1>3, <3>1
      <4>3. \A i \in 1 .. Len(mac.queue) + 1 : i \in 1 .. Len(mac.queue) \/ i = Len(mac.queue) + 1
        BY <3>2
      <4> QED BY <1>3, <4>1, <4>2, <4>3
    <3>4. Len(q) <= QueueLen
      BY <1>1, <1>3, <3>2
    <3> QED BY <1>9, <1>10, <2>2, <3>3, <3>4 DEF Queue, IsQueued
  <2> QED BY <1>9, <2>1, <2>2
<1>12. Resting(mac') /\ mac'.ackCnt \in 1 .. mac'.ackMax
  BY <1>2, <1>9, <1>10 DEF Resting
<1> HIDE DEF Sound
<1>13. Sound(mac')
  BY <1>1, <1>9, <1>10, <1>11, <1>12, StaysIdle
<1> QED BY <1>13 DEF IInv

\* A change of the device class keeps the invariant.
LEMMA SwitchClassStep ==
  ASSUME IInv, OrderlyUse, NEW class \in Classes, SwitchClass(class)
  PROVE  IInv'
<1> DEFINE n  == [mac EXCEPT !.class = class]
           m1 == Sleep(n)
           m2 == [m1 EXCEPT !.nodeAck = FALSE]
<1>1. /\ mac.state = {} /\ mac \in Macs /\ class \in {"A", "C"}
      /\ mac' = IF class = "C" THEN OpenContinuousRx2Window(m2) ELSE m1
  BY ConfigurationAssumption DEF SwitchClass, OrderlyUse, IInv
<1>2. /\ Idle(mac) /\ ~IsQueued(mac.queue, "JOIN") /\ mac.ackCnt \in 1 .. mac.ackMax
      /\ Queue(mac) /\ (~mac.joined => mac.queue = <<>>)
  BY <1>1, WhenIdle DEF IInv, Acks
<1>3. n \in Macs
  BY <1>1 DEF Macs
<1>4. Kept(n, mac, {"class"}) /\ n.class = class
  BY <1>1 DEF Macs, Kept, Fields
<1> HIDE DEF n
<1>5. m1 \in Macs /\ Kept(m1, n, {"radio"}) /\ m1.radio = "SLEEP"
  BY <1>3, BaseTypes, BaseEffects
<1> HIDE DEF m1
<1>6. m2 \in Macs
  BY <1>5 DEF Macs
<1>7. Kept(m2, m1, {"nodeAck"}) /\ ~m2.nodeAck
  BY <1>5 DEF Macs, Kept, Fields
<1> HIDE DEF m2
<1>8. m1.class = class /\ m2.class = class /\ m2.radio = "SLEEP" /\ m2.timers = mac.timers
      /\ Kept(m1, mac, {"class", "radio"})
  BY <1>4, <1>5, <1>7 DEF Kept, Fields
<1>9. /\ mac' \in Macs
      /\ Kept(mac', mac, {"class", "radio", "nodeAck", "timers", "rxSlot"})
      /\ mac'.class = class /\ mac'.radio = IF class = "C" THEN "RXC" ELSE "SLEEP"
      /\ mac'.timers \subseteq mac.timers /\ (mac'.nodeAck => mac.nodeAck)
  <2>1. CASE class = "C"
    <3>1. /\ mac' \in Macs /\ Kept(mac', m2, {"timers", "radio", "rxSlot"})
          /\ mac'.timers = m2.timers \ {"RxWindow2"} /\ mac'.radio = "RXC"
      BY <1>1, <1>6, <1>8, <2>1, ContinuousWindowOpened DEF RadioIdle
    <3>2. mac'.class = class /\ ~mac'.nodeAck
      BY <1>7, <1>8, <3>1 DEF Kept, Fields
    <3>3. Kept(mac', mac, {"class", "radio", "nodeAck", "timers", "rxSlot"})
      BY <1>7, <1>8, <3>1 DEF Kept
    <3> QED BY <1>8, <2>1, <3>1, <3>2, <3>3
  <2>2. CASE class # "C"
    BY <1>1, <1>5, <1>8, <2>2 DEF Kept, Fields
  <2> QED BY <2>1, <2>2
<1>10. /\ mac'.state = {} /\ mac'.joined = mac.joined /\ mac'.ackRetry = mac.ackRetry
       /\ mac'.ackCnt = mac.ackCnt /\ mac'.ackMax = mac.ackMax /\ mac'.mcps = mac.mcps
       /\ mac'.joinTrials = mac.joinTrials /\ mac'.mlmeRequest = mac.mlmeRequest
       /\ mac'.flags = mac.flags /\ mac'.queue = mac.queue
  BY <1>1, <1>9 DEF Kept, Fields
<1>11. mac'.timers = {} /\ Resting(mac') /\ mac'.ackCnt \in 1 .. mac'.ackMax
       /\ (mac'.radio = "RXC" => mac'.class = "C")
  BY <1>2, <1>9, <1>10 DEF Idle, Resting
<1>12. Queue(mac')
  BY <1>2, <1>10, <1>11 DEF Queue
<1> HIDE DEF Sound
<1>13. Sound(mac')
  BY <1>1, <1>2, <1>9, <1>10, <1>11, <1>12, StaysIdle
<1> QED BY <1>13 DEF IInv

-----------------------------------------------------------------------------
(* The MAC state check.                                                      *)

\* What the paragraphs of the state check may change before the confirms, and
\* the two ways in which they leave a procedure that they found done.
EndFields == {"state", "timers", "radio", "flags", "ackRetry", "nodeAck", "ackCnt", "ackMax",
              "mcps", "nbRep", "counterUsed", "frame"}

\* The procedure ends, and the radio is left as it is.
Ended(r, n) == /\ r.state \subseteq {"TX_RUNNING"} /\ r.timers = {} /\ r.radio = n.radio
               /\ r.flags = n.flags

\* The frame is sent again: it waits for its channel or for the duty cycle.
Again(r, n) ==
  /\ r.flags = n.flags \ {"MacDone"}
  /\ \/ /\ r.state \ {"TX_RUNNING"} = {"CAD_RUNNING"} /\ r.timers = {"CadTimeout"}
        /\ r.radio = "CAD"
     \/ /\ r.state \ {"TX_RUNNING"} = {"TX_DELAYED"} /\ r.timers = {"TxDelayed"}
        /\ r.radio = n.radio

\* The join request in the queue was accepted.
JoinAccepted(n) == IsQueued(n.queue, "JOIN") /\ Len(n.queue) = 1 /\ n.queue[1].Status = "OK"

\* A procedure that the state check finds done, its own timer being stopped
\* and no ACK being waited for.
FoundDone(n) ==
  /\ n \in Macs /\ n.state \in {{"TX_RUNNING"}, {"TX_RUNNING", "RX_ABORT"}}
  /\ n.timers = {} /\ Resting(n) /\ Done(n)
  /\ n.ackCnt \in 1 .. n.ackMax /\ (n.ackRetry => n.nodeAck)
  /\ n.nodeAck /\ n.mcps.AckReceived => "McpsInd" \in n.flags

\* The first two paragraphs of the state check.
LEMMA AbortAndTimeoutEnded ==
  ASSUME NEW n, FoundDone(n)
  PROVE  LET e == EndAbort(n)
             m == IF TxTimedOut(e) THEN EndTimedOut(e) ELSE e IN
         /\ m \in Macs /\ Kept(m, n, {"state", "mcps"}) /\ m.state \subseteq {"TX_RUNNING"}
         /\ m.mcps.Request = n.mcps.Request /\ m.mcps.Status = n.mcps.Status
         /\ m.mcps.AckReceived <=> n.mcps.AckReceived /\ ~TxTimedOut(n)
         /\ TxTimedOut(m) <=> TxTimedOut(n)
         /\ TxTimedOut(n) \/ "RX_ABORT" \in n.state => m.state = {}
<1> DEFINE e == EndAbort(n)
           k == [e EXCEPT !.mcps.AckReceived = FALSE]
           t == Clear(k, {"TX_RUNNING"})
           m == IF TxTimedOut(e) THEN EndTimedOut(e) ELSE e
<1>1. n \in Macs /\ n.state \in {{"TX_RUNNING"}, {"TX_RUNNING", "RX_ABORT"}}
  BY DEF FoundDone
<1>2. /\ e \in Macs /\ Kept(e, n, {"state"}) /\ e.state \subseteq {"TX_RUNNING"}
      /\ "RX_ABORT" \in n.state => e.state = {}
  <2>1. CASE "RX_ABORT" \in n.state
    <3>1. e = Clear(n, {"RX_ABORT", "TX_RUNNING"})
      BY <2>1 DEF EndAbort
    <3> HIDE DEF e
    <3>2. e \in Macs /\ Kept(e, n, {"state"}) /\ e.state = n.state \ {"RX_ABORT", "TX_RUNNING"}
      BY <1>1, <3>1, BaseTypes, BaseEffects
    <3> QED BY <1>1, <3>2
  <2>2. CASE "RX_ABORT" \notin n.state
    BY <1>1, <2>2 DEF EndAbort, Kept
  <2> QED BY <2>1, <2>2
<1>3. EndTimedOut(e) = t
  BY DEF EndTimedOut
<1> HIDE DEF e
<1>4. k \in Macs
  BY <1>2 DEF Macs
<1>5. /\ Kept(k, e, {"mcps"}) /\ ~k.mcps.AckReceived /\ k.mcps.Status = e.mcps.Status
      /\ k.mcps.Request = e.mcps.Request
  BY <1>2 DEF Macs, Kept, Fields
<1> HIDE DEF k
<1>6. t \in Macs /\ Kept(t, k, {"state"}) /\ t.state = k.state \ {"TX_RUNNING"}
  BY <1>4, BaseTypes, BaseEffects
<1> HIDE DEF t
<1>7. /\ e.flags = n.flags /\ e.mcps = n.mcps /\ e.common = n.common
      /\ t.flags = e.flags /\ t.mcps = k.mcps /\ t.common = e.common /\ k.state = e.state
  BY <1>2, <1>5, <1>6 DEF Kept, Fields
<1>8. Kept(t, n, {"state", "mcps"}) /\ Kept(e, n, {"state", "mcps"})
  BY <1>2, <1>5, <1>6 DEF Kept
<1>9. /\ TxTimedOut(e) <=> TxTimedOut(n)
      /\ TxTimedOut(t) <=> TxTimedOut(n)
  BY <1>5, <1>7 DEF TxTimedOut, RequestPending
<1>10. CASE TxTimedOut(e)
  <2>1. m = t
    BY <1>3, <1>10
  <2> HIDE DEF m
  <2>2. /\ m.state = {} /\ ~m.mcps.AckReceived
        /\ m.mcps.Request = n.mcps.Request /\ m.mcps.Status = n.mcps.Status
    BY <1>2, <1>5, <1>6, <1>7, <2>1
  <2>3. m \in Macs /\ Kept(m, n, {"state", "mcps"})
    BY <1>6, <1>8, <2>1
  <2>4. TxTimedOut(m) <=> TxTimedOut(n)
    BY <1>9, <2>1
  <2>5. m.state \subseteq {"TX_RUNNING"}
    BY <2>2
  <2> QED BY <1>9, <1>10, <2>2, <2>3, <2>4, <2>5 DEF e, m
<1>11. CASE ~TxTimedOut(e)
  <2>1. m = e
    BY <1>11
  <2> HIDE DEF m
  <2> QED BY <1>2, <1>7, <1>8, <1>9, <1>11, <2>1 DEF e
<1> QED BY <1>10, <1>11

\* The frame is sent again: SendDelayed, MacDone being cleared first.
LEMMA SentAgain ==
  ASSUME NEW n, NEW m \in Macs, NEW out \in {"CAD", "DELAY"}, m.ackCnt \in 1 .. m.ackMax,
         m.state \subseteq {"TX_RUNNING"}, m.timers = {}, m.radio = n.radio, m.flags = n.flags
  PROVE  LET r == SendDelayed(Unmark(m, {"MacDone"}), out) IN
         /\ r \in Macs /\ Kept(r, m, EndFields) /\ Again(r, n) /\ r.mcps = m.mcps
         /\ r.ackCnt \in 1 .. r.ackMax /\ (r.nodeAck => m.nodeAck) /\ (r.ackRetry => m.ackRetry)
<1> DEFINE u == Unmark(m, {"MacDone"})
           r == SendDelayed(u, out)
<1>1. u \in Macs /\ Kept(u, m, {"flags"}) /\ u.flags = m.flags \ {"MacDone"}
  BY BaseTypes, BaseEffects
<1> HIDE DEF u
<1>2. /\ u.ackCnt = m.ackCnt /\ u.ackMax = m.ackMax /\ u.nodeAck = m.nodeAck
      /\ u.ackRetry = m.ackRetry /\ u.state = m.state /\ u.timers = m.timers
      /\ u.radio = m.radio /\ u.mcps = m.mcps
  BY <1>1 DEF Kept, Fields
<1>3. /\ r \in Macs /\ Kept(r, u, Restarted \cup {"state", "timers", "radio", "frame"})
      /\ out = "CAD" => /\ r.state = (u.state \ {"TX_DELAYED"}) \cup {"CAD_RUNNING"}
                        /\ r.timers = (u.timers \ {"TxDelayed"}) \cup {"CadTimeout"}
                        /\ r.radio = "CAD"
      /\ out = "DELAY" => /\ r.state = u.state \cup {"TX_DELAYED"}
                          /\ r.timers = u.timers \cup {"TxDelayed"} /\ r.radio = u.radio
      /\ r.ackCnt \in 1 .. r.ackMax
      /\ r.nodeAck => u.nodeAck
      /\ r.ackRetry => u.ackRetry /\ r.nodeAck = u.nodeAck
  <2>1. out \in Outcomes /\ u.ackCnt \in 1 .. u.ackMax
    BY <1>2 DEF Outcomes
  <2> QED BY <1>1, <2>1, DelayedSent
<1> HIDE DEF r
<1>4. Kept(r, m, EndFields)
  BY <1>1, <1>3 DEF Kept, EndFields, Restarted
<1>5. r.flags = u.flags /\ r.mcps = u.mcps
  BY <1>3 DEF Kept, Fields, Restarted
<1>6. Again(r, n)
  BY <1>1, <1>2, <1>3, <1>5 DEF Again
<1> QED BY <1>2, <1>3, <1>4, <1>5, <1>6 DEF r, u

\* A join procedure ends, or its request is sent again within its trials.
LEMMA JoinEnded ==
  ASSUME NEW n, NEW m \in Macs, NEW out \in {"CAD", "DELAY"}, m.ackCnt \in 1 .. m.ackMax,
         m.state \subseteq {"TX_RUNNING"}, m.timers = {}, m.radio = n.radio, m.flags = n.flags
  PROVE  LET r == EndJoin(m, out) IN
         /\ r \in Macs /\ Kept(r, m, EndFields) /\ r.mcps = m.mcps
         /\ r.ackCnt \in 1 .. r.ackMax /\ (r.nodeAck => m.nodeAck) /\ (r.ackRetry => m.ackRetry)
         /\ \/ Ended(r, n) /\ r.state = {}
            \/ Again(r, n) /\ ~JoinAccepted(m) /\ m.joinTrials < MaxJoinTrials
<1> DEFINE r == EndJoin(m, out)
           ok == \E i \in DOMAIN m.queue : IsFirst(m.queue, i, "JOIN") /\ m.queue[i].Status = "OK"
           k  == [m EXCEPT !.counterUsed = FALSE, !.nbRep = 0]
           s  == SendDelayed(Unmark(m, {"MacDone"}), out)
<1>1. r = IF ok THEN Clear(k, {"TX_RUNNING"})
          ELSE IF LastJoinTrial(m) THEN Clear(m, {"TX_RUNNING"}) ELSE s
  BY DEF EndJoin
<1>2. k \in Macs
  <2>1. 0 \in 0 .. ChannelsNbRep
    BY BoundsAssumption
  <2> QED BY <2>1 DEF Macs
<1>3. Kept(k, m, {"counterUsed", "nbRep"})
  BY DEF Macs, Kept, Fields
<1>4. ASSUME NEW o \in Macs, Kept(o, m, {"counterUsed", "nbRep"}), r = Clear(o, {"TX_RUNNING"})
      PROVE  /\ r \in Macs /\ Kept(r, m, EndFields) /\ r.mcps = m.mcps
             /\ r.ackCnt \in 1 .. r.ackMax /\ (r.nodeAck => m.nodeAck)
             /\ (r.ackRetry => m.ackRetry) /\ Ended(r, n) /\ r.state = {}
  <2> HIDE DEF r
  <2>1. r \in Macs /\ Kept(r, o, {"state"}) /\ r.state = o.state \ {"TX_RUNNING"}
    BY <1>4, BaseTypes, BaseEffects
  <2>2. Kept(r, m, EndFields)
    BY <1>4, <2>1 DEF Kept, EndFields
  <2>3. /\ r.mcps = m.mcps /\ r.ackCnt = m.ackCnt /\ r.ackMax = m.ackMax /\ o.state = m.state
        /\ r.nodeAck = m.nodeAck /\ r.ackRetry = m.ackRetry /\ r.timers = m.timers
        /\ r.radio = m.radio /\ r.flags = m.flags
    BY <1>4, <2>1 DEF Kept, Fields
  <2> QED BY <2>1, <2>2, <2>3 DEF Ended
<1> HIDE DEF r, k, s
<1>5. CASE ok
  BY <1>1, <1>2, <1>3, <1>4, <1>5 DEF r
<1>6. CASE ~ok /\ LastJoinTrial(m)
  <2>1. Kept(m, m, {"counterUsed", "nbRep"})
    BY DEF Kept
  <2> QED BY <1>1, <1>4, <1>6, <2>1 DEF r
<1>7. CASE ~ok /\ ~LastJoinTrial(m)
  <2>1. r = s
    BY <1>1, <1>7
  <2>2. /\ s \in Macs /\ Kept(s, m, EndFields) /\ Again(s, n) /\ s.mcps = m.mcps
        /\ s.ackCnt \in 1 .. s.ackMax /\ (s.nodeAck => m.nodeAck) /\ (s.ackRetry => m.ackRetry)
    BY SentAgain DEF s
  <2>3. m.joinTrials < MaxJoinTrials
    <3>1. m.joinTrials \in Nat /\ m.joinMax \in {1, MaxJoinTrials}
      BY DEF Macs
    <3> QED BY <1>7, <3>1, BoundsAssumption DEF LastJoinTrial
  <2>4. ~JoinAccepted(m)
    <3>1. m.queue \in Seq(MlmeElement)
      BY DEF Macs
    <3>2. JoinAccepted(m) => /\ DOMAIN m.queue = {1} /\ m.queue[1].Request = "JOIN"
                             /\ m.queue[1].Status = "OK"
      BY <3>1 DEF JoinAccepted, IsQueued
    <3>3. JoinAccepted(m) => 1 \in DOMAIN m.queue /\ IsFirst(m.queue, 1, "JOIN") /\ m.queue[1].Status = "OK"
      BY <3>2 DEF IsFirst
    <3> QED BY <1>7, <3>3
  <2> QED BY <2>1, <2>2, <2>3, <2>4 DEF r
<1> QED BY <1>5, <1>6, <1>7

\* An unconfirmed uplink ends or is repeated.
LEMMA UnconfirmedEnded ==
  ASSUME NEW n, NEW m \in Macs, NEW out \in {"CAD", "DELAY"}, m.ackCnt \in 1 .. m.ackMax,
         m.state \subseteq {"TX_RUNNING"}, m.timers = {}, m.radio = n.radio, m.flags = n.flags
  PROVE  LET r == EndUnconfirmed(m, out) IN
         /\ r \in Macs /\ Kept(r, m, EndFields) /\ r.mcps = m.mcps
         /\ r.ackCnt \in 1 .. r.ackMax /\ (r.nodeAck => m.nodeAck) /\ (r.ackRetry => m.ackRetry)
         /\ Ended(r, n) \/ Again(r, n)
<1> DEFINE r == EndUnconfirmed(m, out)
           last == m.nbRep >= ChannelsNbRep \/ "McpsInd" \in m.flags
           k == CountUplink([m EXCEPT !.nbRep = 0])
           e == Clear(k, {"TX_RUNNING"})
           s == SendDelayed(Unmark(m, {"MacDone"}), out)
<1>1. r = IF last THEN e ELSE s
  BY DEF EndUnconfirmed
<1>2. k \in Macs
  <2>1. 0 \in 0 .. ChannelsNbRep
    BY BoundsAssumption
  <2> QED BY <2>1 DEF CountUplink, Macs
<1>3. Kept(k, m, {"counterUsed", "nbRep"})
  BY DEF CountUplink, Macs, Kept, Fields
<1> HIDE DEF k
<1>4. e \in Macs /\ Kept(e, k, {"state"}) /\ e.state = k.state \ {"TX_RUNNING"}
  BY <1>2, BaseTypes, BaseEffects
<1>5. /\ s \in Macs /\ Kept(s, m, EndFields) /\ Again(s, n) /\ s.mcps = m.mcps
      /\ s.ackCnt \in 1 .. s.ackMax /\ (s.nodeAck => m.nodeAck) /\ (s.ackRetry => m.ackRetry)
  BY SentAgain
<1> HIDE DEF e, s, r, last
<1>6. Kept(e, m, EndFields)
  BY <1>3, <1>4 DEF Kept, EndFields
<1>7. /\ e.mcps = m.mcps /\ e.ackCnt = m.ackCnt /\ e.ackMax = m.ackMax /\ k.state = m.state
      /\ e.nodeAck = m.nodeAck /\ e.ackRetry = m.ackRetry /\ e.timers = m.timers
      /\ e.radio = m.radio /\ e.flags = m.flags
  BY <1>3, <1>4 DEF Kept, Fields
<1>8. Ended(e, n)
  BY <1>4, <1>7 DEF Ended
<1>9. CASE last
  BY <1>1, <1>4, <1>6, <1>7, <1>8, <1>9 DEF r
<1>10. CASE ~last
  BY <1>1, <1>5, <1>10 DEF r
<1> QED BY <1>9, <1>10

\* Finish without an ACK being involved: a procedure of a join or of an
\* unconfirmed uplink ends, or its frame is sent again.
LEMMA FinishedWithoutAck ==
  ASSUME NEW n, FoundDone(n), ~n.nodeAck, NEW out \in {"CAD", "DELAY"}
  PROVE  LET r == Finish(n, out) IN
         /\ r \in Macs /\ Kept(r, n, EndFields)
         /\ r.ackCnt \in 1 .. r.ackMax /\ ~r.nodeAck /\ ~r.ackRetry
         /\ Ended(r, n) \/ Again(r, n)
         /\ JoinProcedure(n) =>
              \/ Ended(r, n) /\ r.state = {}
              \/ Again(r, n) /\ ~JoinAccepted(n) /\ n.joinTrials < MaxJoinTrials
<1> DEFINE e == EndAbort(n)
           m == IF TxTimedOut(e) THEN EndTimedOut(e) ELSE e
           w == EndWithoutAck(m, out)
           k == CountUplink([w EXCEPT !.ackRetry = FALSE, !.nodeAck = FALSE])
           v == EndReceived(w)
<1>1. /\ m \in Macs /\ Kept(m, n, {"state", "mcps"}) /\ m.state \subseteq {"TX_RUNNING"}
      /\ TxTimedOut(m) <=> TxTimedOut(n)
      /\ TxTimedOut(n) => m.state = {}
  BY AbortAndTimeoutEnded
<1>2. Finish(n, out) = Retry(v, out)
  BY DEF Finish
<1> HIDE DEF m
<1>3. /\ m.flags = n.flags /\ m.timers = n.timers /\ m.radio = n.radio
      /\ m.ackCnt = n.ackCnt /\ m.ackMax = n.ackMax /\ m.nodeAck = n.nodeAck
      /\ m.ackRetry = n.ackRetry /\ m.queue = n.queue /\ m.mlmeRequest = n.mlmeRequest
      /\ m.joinTrials = n.joinTrials
  BY <1>1 DEF Kept, Fields
<1>4. /\ m.ackCnt \in 1 .. m.ackMax /\ m.timers = {} /\ ~m.nodeAck /\ ~m.ackRetry
      /\ m.state \in {{}, {"TX_RUNNING"}}
  <2>1. m.state \in {{}, {"TX_RUNNING"}}
    BY <1>1
  <2> QED BY <1>3, <2>1 DEF FoundDone
<1>5. /\ JoinProcedure(m) <=> JoinProcedure(n)
      /\ RequestPending(m) <=> RequestPending(n)
      /\ JoinAccepted(m) <=> JoinAccepted(n)
  BY <1>3 DEF JoinProcedure, RequestPending, JoinAccepted
<1>6. w = IF ~RequestPending(m) \/ TxTimedOut(m) THEN m
          ELSE IF JoinProcedure(m) THEN EndJoin(m, out) ELSE EndUnconfirmed(m, out)
  BY <1>4 DEF EndWithoutAck
<1> HIDE DEF w
<1>7. /\ w \in Macs /\ Kept(w, m, EndFields)
      /\ w.ackCnt \in 1 .. w.ackMax /\ ~w.nodeAck /\ ~w.ackRetry
      /\ Ended(w, n) \/ Again(w, n)
      /\ JoinProcedure(n) =>
           \/ Ended(w, n) /\ w.state = {}
           \/ Again(w, n) /\ ~JoinAccepted(n) /\ n.joinTrials < MaxJoinTrials
  <2>1. CASE ~RequestPending(m) \/ TxTimedOut(m)
    <3>1. w = m
      BY <1>6, <2>1
    <3>2. JoinProcedure(n) => RequestPending(n)
      BY DEF JoinProcedure, RequestPending
    <3>3. Ended(m, n) /\ (JoinProcedure(n) => m.state = {})
      BY <1>1, <1>3, <1>4, <1>5, <2>1, <3>2 DEF Ended
    <3> QED BY <1>1, <1>4, <3>1, <3>3 DEF Kept
  <2>2. CASE RequestPending(m) /\ ~TxTimedOut(m) /\ JoinProcedure(m)
    <3>1. w = EndJoin(m, out)
      BY <1>6, <2>2
    <3>2. /\ w \in Macs /\ Kept(w, m, EndFields)
          /\ w.ackCnt \in 1 .. w.ackMax /\ (w.nodeAck => m.nodeAck) /\ (w.ackRetry => m.ackRetry)
          /\ \/ Ended(w, n) /\ w.state = {}
             \/ Again(w, n) /\ ~JoinAccepted(m) /\ m.joinTrials < MaxJoinTrials
      BY <1>1, <1>3, <1>4, <3>1, JoinEnded
    <3> QED BY <1>3, <1>4, <1>5, <3>2
  <2>3. CASE RequestPending(m) /\ ~TxTimedOut(m) /\ ~JoinProcedure(m)
    <3>1. w = EndUnconfirmed(m, out)
      BY <1>6, <2>3
    <3>2. /\ w \in Macs /\ Kept(w, m, EndFields)
          /\ w.ackCnt \in 1 .. w.ackMax /\ (w.nodeAck => m.nodeAck) /\ (w.ackRetry => m.ackRetry)
          /\ Ended(w, n) \/ Again(w, n)
      BY <1>1, <1>3, <1>4, <3>1, UnconfirmedEnded
    <3> QED BY <1>4, <1>5, <2>3, <3>2
  <2> QED BY <2>1, <2>2, <2>3
<1>8. k \in Macs
  BY <1>7 DEF CountUplink, Macs
<1>9. Kept(k, w, {"ackRetry", "nodeAck", "counterUsed"}) /\ ~k.ackRetry /\ ~k.nodeAck
  BY <1>7 DEF CountUplink, Macs, Kept, Fields
<1>10. v = w \/ v = Clear(k, {"TX_RUNNING"})
  BY DEF EndReceived
<1> HIDE DEF k, v
<1>11. /\ v \in Macs /\ Kept(v, w, {"ackRetry", "nodeAck", "counterUsed", "state"})
       /\ ~v.ackRetry /\ ~v.nodeAck /\ v.state \in {w.state, w.state \ {"TX_RUNNING"}}
  <2>1. CASE v = w
    BY <1>7, <2>1 DEF Kept
  <2>2. CASE v = Clear(k, {"TX_RUNNING"})
    <3>1. v \in Macs /\ Kept(v, k, {"state"}) /\ v.state = k.state \ {"TX_RUNNING"}
      BY <1>8, <2>2, BaseTypes, BaseEffects
    <3>2. k.state = w.state /\ v.ackRetry = k.ackRetry /\ v.nodeAck = k.nodeAck
      BY <1>9, <3>1 DEF Kept, Fields
    <3>3. Kept(v, w, {"ackRetry", "nodeAck", "counterUsed", "state"})
      BY <1>9, <3>1 DEF Kept
    <3> QED BY <1>9, <3>1, <3>2, <3>3
  <2> QED BY <1>10, <2>1, <2>2
<1>12. /\ v.ackCnt = w.ackCnt /\ v.ackMax = w.ackMax /\ v.timers = w.timers
       /\ v.radio = w.radio /\ v.flags = w.flags
  BY <1>11 DEF Kept, Fields
<1>13. Kept(v, n, EndFields)
  BY <1>1, <1>7, <1>11 DEF Kept, EndFields
<1>14. /\ Ended(w, n) => Ended(v, n)
       /\ Again(w, n) => Again(v, n)
       /\ w.state = {} => v.state = {}
  BY <1>11, <1>12 DEF Ended, Again
<1>15. Finish(n, out) = v
  BY <1>2, <1>11 DEF Retry
<1> QED BY <1>7, <1>11, <1>12, <1>13, <1>14, <1>15

\* GiveUp ends the procedure.
LEMMA GivenUp ==
  ASSUME NEW m \in Macs
  PROVE  LET r == GiveUp(m) IN
         /\ r \in Macs /\ Kept(r, m, {"nodeAck", "mcps", "counterUsed", "state"})
         /\ ~r.nodeAck /\ r.state = m.state \ {"TX_RUNNING"} /\ ~r.counterUsed
         /\ ~r.mcps.AckReceived /\ r.mcps.Request = m.mcps.Request
         /\ r.mcps.Status = m.mcps.Status
<1> DEFINE k == CountUplink([m EXCEPT !.nodeAck = FALSE, !.mcps.AckReceived = FALSE])
           r == Clear(k, {"TX_RUNNING"})
<1>1. GiveUp(m) = r
  BY DEF GiveUp
<1>2. k \in Macs
  BY DEF CountUplink, Macs
<1>3. /\ Kept(k, m, {"nodeAck", "mcps", "counterUsed"}) /\ ~k.nodeAck /\ ~k.counterUsed
      /\ ~k.mcps.AckReceived /\ k.mcps.Request = m.mcps.Request /\ k.mcps.Status = m.mcps.Status
  BY DEF CountUplink, Macs, Kept, Fields
<1> HIDE DEF k
<1>4. r \in Macs /\ Kept(r, k, {"state"}) /\ r.state = k.state \ {"TX_RUNNING"}
  BY <1>2, BaseTypes, BaseEffects
<1> HIDE DEF r
<1>5. Kept(r, m, {"nodeAck", "mcps", "counterUsed", "state"})
  BY <1>3, <1>4 DEF Kept
<1>6. /\ r.nodeAck = k.nodeAck /\ k.state = m.state /\ r.mcps = k.mcps
      /\ r.counterUsed = k.counterUsed
  BY <1>3, <1>4 DEF Kept, Fields
<1> QED BY <1>1, <1>3, <1>4, <1>5, <1>6

\* The retry of a confirmed uplink.
LEMMA Retried ==
  ASSUME NEW n, NEW v \in Macs, NEW out \in Outcomes, Ended(v, n), v.ackCnt \in 1 .. v.ackMax,
         v.nodeAck => ~v.mcps.AckReceived
  PROVE  LET r == Retry(v, out) IN
         /\ r \in Macs /\ Kept(r, v, EndFields)
         /\ r.ackCnt \in 1 .. r.ackMax /\ ~r.ackRetry /\ (r.nodeAck => v.nodeAck)
         /\ r.nodeAck => ~r.mcps.AckReceived
         /\ Ended(r, n) \/ Again(r, n)
<1> DEFINE r  == Retry(v, out)
           m1 == [v EXCEPT !.ackRetry = FALSE]
           m2 == [m1 EXCEPT !.ackCnt = @ + 1]
           k  == [m2 EXCEPT !.mcps.Status = "SIZE"]
           s  == ScheduleTx(m2, out)
           u  == Unmark(s, {"MacDone"})
<1>0. /\ v.state \subseteq {"TX_RUNNING"} /\ v.timers = {} /\ v.ackRetry \in BOOLEAN
      /\ v.ackCnt \in Nat /\ v.ackMax \in Nat /\ v.radio = n.radio /\ v.flags = n.flags
  BY BoundsAssumption DEF Ended, Macs
<1>1. r = IF ~v.ackRetry \/ "TX_DELAYED" \in v.state THEN v
          ELSE IF LastTrial(v) THEN GiveUp(m1)
          ELSE IF out = "LENGTH" THEN GiveUp(k)
          ELSE u
  BY DEF Retry
<1>2. m1 \in Macs
  BY DEF Macs
<1>3. Kept(m1, v, {"ackRetry"}) /\ ~m1.ackRetry
  BY DEF Macs, Kept, Fields
<1>4. m1.ackCnt = v.ackCnt
  BY <1>3 DEF Kept, Fields
<1> HIDE DEF m1, r
<1>5. m2 \in Macs /\ Kept(m2, m1, {"ackCnt"}) /\ m2.ackCnt = v.ackCnt + 1
  <2> DEFINE c == m1.ackCnt + 1
  <2>1. c \in Nat /\ c = v.ackCnt + 1
    BY <1>0, <1>4
  <2> HIDE DEF c
  <2>2. [m1 EXCEPT !.ackCnt = c] \in Macs
    BY <1>2, <2>1, ZenonT(40) DEF Macs
  <2>3. Kept([m1 EXCEPT !.ackCnt = c], m1, {"ackCnt"}) /\ [m1 EXCEPT !.ackCnt = c].ackCnt = c
    BY <1>2 DEF Macs, Kept, Fields
  <2>4. m2 = [m1 EXCEPT !.ackCnt = c]
    BY DEF c
  <2> HIDE DEF m2
  <2> QED BY <2>1, <2>2, <2>3, <2>4
<1> HIDE DEF m2
<1>6. k \in Macs
  BY <1>5 DEF Macs, Results
<1>7. Kept(k, m2, {"mcps"})
  BY <1>5 DEF Macs, Kept, Fields
<1> HIDE DEF k
<1>8. /\ m2.ackMax = v.ackMax /\ m2.ackRetry = m1.ackRetry /\ m2.nodeAck = v.nodeAck
      /\ m2.state = v.state /\ m2.timers = v.timers /\ m2.radio = v.radio /\ m2.flags = v.flags
      /\ m2.mcps = v.mcps /\ m1.ackMax = v.ackMax /\ m1.state = v.state
      /\ m1.timers = v.timers /\ m1.radio = v.radio /\ m1.flags = v.flags
  BY <1>3, <1>5 DEF Kept, Fields
<1>9. /\ k.ackMax = v.ackMax /\ k.ackRetry = m1.ackRetry /\ k.ackCnt = m2.ackCnt
      /\ k.state = v.state /\ k.timers = v.timers /\ k.radio = v.radio /\ k.flags = v.flags
  BY <1>7, <1>8 DEF Kept, Fields
<1>10. CASE ~v.ackRetry
  <2>1. r = v
    BY <1>1, <1>10
  <2> QED BY <1>10, <2>1 DEF r, Kept
<1>11. ASSUME NEW o \in Macs, Kept(o, v, {"ackRetry", "ackCnt", "mcps"}), r = GiveUp(o),
              o.ackCnt \in 1 .. o.ackMax, ~o.ackRetry
       PROVE  /\ r \in Macs /\ Kept(r, v, EndFields)
              /\ r.ackCnt \in 1 .. r.ackMax /\ ~r.ackRetry /\ ~r.nodeAck /\ Ended(r, n)
  <2>1. /\ r \in Macs /\ Kept(r, o, {"nodeAck", "mcps", "counterUsed", "state"})
        /\ ~r.nodeAck /\ r.state = o.state \ {"TX_RUNNING"}
    BY <1>11, GivenUp
  <2>2. Kept(r, v, EndFields)
    BY <1>11, <2>1 DEF Kept, EndFields
  <2>3. /\ r.ackCnt = o.ackCnt /\ r.ackMax = o.ackMax /\ r.ackRetry = o.ackRetry
        /\ r.timers = v.timers /\ r.radio = v.radio /\ r.flags = v.flags /\ o.state = v.state
    BY <1>11, <2>1 DEF Kept, Fields
  <2>4. Ended(r, n)
    BY <1>0, <2>1, <2>3 DEF Ended
  <2> QED BY <1>11, <2>1, <2>2, <2>3, <2>4
<1>12. CASE v.ackRetry /\ LastTrial(v)
  <2>1. r = GiveUp(m1)
    BY <1>0, <1>1, <1>12
  <2>2. Kept(m1, v, {"ackRetry", "ackCnt", "mcps"}) /\ m1.ackCnt \in 1 .. m1.ackMax
    BY <1>3, <1>4, <1>8 DEF Kept
  <2> QED BY <1>2, <1>3, <1>11, <2>1, <2>2 DEF r
<1>13. v.ackRetry /\ ~LastTrial(v) => m2.ackCnt \in 1 .. m2.ackMax
  BY <1>0, <1>5, <1>8 DEF LastTrial
<1>14. CASE v.ackRetry /\ ~LastTrial(v) /\ out = "LENGTH"
  <2>1. r = GiveUp(k)
    BY <1>0, <1>1, <1>14
  <2>2. Kept(k, v, {"ackRetry", "ackCnt", "mcps"}) /\ k.ackCnt \in 1 .. k.ackMax /\ ~k.ackRetry
    BY <1>3, <1>5, <1>7, <1>8, <1>9, <1>13, <1>14 DEF Kept
  <2> QED BY <1>6, <1>11, <2>1, <2>2 DEF r
<1>15. CASE v.ackRetry /\ ~LastTrial(v) /\ out # "LENGTH"
  <2>1. r = u
    BY <1>0, <1>1, <1>15
  <2>2. /\ s \in Macs /\ Kept(s, m2, {"state", "timers", "radio"})
        /\ out = "CAD" => /\ s.state = m2.state \cup {"CAD_RUNNING"}
                          /\ s.timers = m2.timers \cup {"CadTimeout"} /\ s.radio = "CAD"
        /\ out = "DELAY" => /\ s.state = m2.state \cup {"TX_DELAYED"}
                            /\ s.timers = m2.timers \cup {"TxDelayed"} /\ s.radio = m2.radio
    BY <1>5, Scheduled
  <2> HIDE DEF s
  <2>3. u \in Macs /\ Kept(u, s, {"flags"}) /\ u.flags = s.flags \ {"MacDone"}
    BY <2>2, BaseTypes, BaseEffects
  <2> HIDE DEF u
  <2>4. /\ u.state = s.state /\ u.timers = s.timers /\ u.radio = s.radio
        /\ s.flags = m2.flags /\ u.ackCnt = m2.ackCnt /\ u.ackMax = m2.ackMax
        /\ u.nodeAck = m2.nodeAck /\ u.ackRetry = m2.ackRetry /\ u.mcps = m2.mcps
    BY <2>2, <2>3 DEF Kept, Fields
  <2>5. Kept(u, v, EndFields)
    BY <1>3, <1>5, <2>2, <2>3 DEF Kept, EndFields
  <2>6. Again(u, n)
    BY <1>0, <1>8, <1>15, <2>2, <2>3, <2>4 DEF Again, Outcomes
  <2>7. /\ u.ackCnt \in 1 .. u.ackMax /\ ~u.ackRetry /\ (u.nodeAck => v.nodeAck)
        /\ u.nodeAck => ~u.mcps.AckReceived
    BY <1>3, <1>8, <1>13, <1>15, <2>4
  <2> QED BY <2>1, <2>3, <2>5, <2>6, <2>7 DEF r
<1> QED BY <1>0, <1>10, <1>12, <1>14, <1>15

\* Finish when an ACK was asked for.
LEMMA FinishedWithAck ==
  ASSUME NEW n, FoundDone(n), n.nodeAck, NEW out \in Outcomes
  PROVE  LET r == Finish(n, out) IN
         /\ r \in Macs /\ Kept(r, n, EndFields)
         /\ r.ackCnt \in 1 .. r.ackMax /\ ~r.ackRetry
         /\ r.nodeAck => ~r.mcps.AckReceived
         /\ Ended(r, n) \/ Again(r, n)
<1> DEFINE e == EndAbort(n)
           m == IF TxTimedOut(e) THEN EndTimedOut(e) ELSE e
           w == EndWithoutAck(m, out)
           k == CountUplink([m EXCEPT !.ackRetry = FALSE, !.nodeAck = FALSE])
           v == EndReceived(w)
<1>1. /\ m \in Macs /\ Kept(m, n, {"state", "mcps"}) /\ m.state \subseteq {"TX_RUNNING"}
      /\ m.mcps.AckReceived <=> n.mcps.AckReceived /\ ~TxTimedOut(n)
  BY AbortAndTimeoutEnded
<1>2. Finish(n, out) = Retry(v, out)
  BY DEF Finish
<1> HIDE DEF m
<1>3. /\ m.flags = n.flags /\ m.timers = n.timers /\ m.radio = n.radio
      /\ m.ackCnt = n.ackCnt /\ m.ackMax = n.ackMax /\ m.nodeAck = n.nodeAck
  BY <1>1 DEF Kept, Fields
<1>4. w = m
  BY <1>3 DEF EndWithoutAck
<1> HIDE DEF w
<1>5. k \in Macs
  BY <1>1 DEF CountUplink, Macs
<1>6. Kept(k, m, {"ackRetry", "nodeAck", "counterUsed"}) /\ ~k.nodeAck
  BY <1>1 DEF CountUplink, Macs, Kept, Fields
<1>7. v = IF "McpsInd" \in m.flags /\ (m.mcps.AckReceived \/ m.ackCnt > m.ackMax)
            THEN Clear(k, {"TX_RUNNING"}) ELSE m
  BY <1>4 DEF EndReceived
<1> HIDE DEF k, v
<1>8. /\ v \in Macs /\ Kept(v, n, EndFields) /\ Ended(v, n) /\ v.ackCnt \in 1 .. v.ackMax
      /\ v.nodeAck => ~v.mcps.AckReceived
  <2>1. Ended(m, n) /\ m.ackCnt \in 1 .. m.ackMax
    BY <1>1, <1>3 DEF FoundDone, Ended
  <2>2. CASE v = m
    <3>1. ~m.mcps.AckReceived
      <4>1. m.mcps.AckReceived => "McpsInd" \in m.flags
        BY <1>1, <1>3 DEF FoundDone
      <4>2. CASE m.mcps.AckReceived
        <5>1. m = Clear(k, {"TX_RUNNING"})
          BY <1>7, <2>2, <4>1, <4>2
        <5>2. m.nodeAck = k.nodeAck
          BY <1>5, <5>1, BaseEffects DEF Kept, Fields
        <5> QED BY <1>3, <1>6, <5>2
      <4> QED BY <4>2
    <3>2. Kept(m, n, EndFields)
      BY <1>1 DEF Kept, EndFields
    <3> QED BY <1>1, <2>1, <2>2, <3>1, <3>2
  <2>3. CASE v = Clear(k, {"TX_RUNNING"})
    <3>1. v \in Macs /\ Kept(v, k, {"state"}) /\ v.state = k.state \ {"TX_RUNNING"}
      BY <1>5, <2>3, BaseTypes, BaseEffects
    <3>2. /\ v.nodeAck = k.nodeAck /\ k.state = m.state /\ v.timers = m.timers
          /\ v.radio = m.radio /\ v.flags = m.flags /\ v.ackCnt = m.ackCnt /\ v.ackMax = m.ackMax
      BY <1>6, <3>1 DEF Kept, Fields
    <3>3. Kept(v, n, EndFields)
      BY <1>1, <1>6, <3>1 DEF Kept, EndFields
    <3>4. Ended(v, n)
      BY <1>1, <1>3, <2>1, <3>1, <3>2 DEF Ended
    <3> QED BY <1>6, <2>1, <3>1, <3>2, <3>3, <3>4
  <2> QED BY <1>7, <2>2, <2>3
<1>9. /\ Retry(v, out) \in Macs /\ Kept(Retry(v, out), v, EndFields)
      /\ Retry(v, out).ackCnt \in 1 .. Retry(v, out).ackMax /\ ~Retry(v, out).ackRetry
      /\ Retry(v, out).nodeAck => ~Retry(v, out).mcps.AckReceived
      /\ Ended(Retry(v, out), n) \/ Again(Retry(v, out), n)
  BY <1>8, Retried
<1>10. Kept(Retry(v, out), n, EndFields)
  BY <1>8, <1>9 DEF Kept
<1> QED BY <1>2, <1>9, <1>10

\* When every element of the queue has its answer, all of them are delivered.
LEMMA ConfirmsDelivered ==
  ASSUME NEW m \in Macs, \A i \in DOMAIN m.queue : m.queue[i].ReadyToHandle
  PROVE  LET r == Deliver(m) IN
         /\ r \in Macs /\ Kept(r, m, {"flags", "queue", "mlmeRequest"})
         /\ r.flags \subseteq m.flags /\ "McpsReq" \notin r.flags /\ "MacDone" \notin r.flags
         /\ "MlmeReq" \notin r.flags
         /\ \/ /\ "MlmeReq" \in m.flags /\ r.queue = <<>>
               /\ r.mlmeRequest = IF m.queue = <<>> THEN m.mlmeRequest
                                  ELSE m.queue[Len(m.queue)].Request
            \/ /\ "MlmeReq" \notin m.flags /\ r.queue = m.queue
               /\ r.mlmeRequest = m.mlmeRequest
<1> DEFINE m1 == Unmark(m, {"McpsReq"})
           d  == DeliverMlme(m1)
           m2 == IF "MlmeReq" \in m1.flags THEN d ELSE m1
           r  == Unmark(m2, {"MacDone"})
<1>1. m1 \in Macs /\ Kept(m1, m, {"flags"}) /\ m1.flags = m.flags \ {"McpsReq"}
  BY BaseTypes, BaseEffects
<1>2. Deliver(m) = r
  BY DEF Deliver
<1> HIDE DEF m1
<1>3. m1.queue = m.queue /\ m1.mlmeRequest = m.mlmeRequest /\ m.queue \in Seq(MlmeElement)
  <2>1. m.queue \in Seq(MlmeElement)
    BY DEF Macs
  <2> QED BY <1>1, <2>1 DEF Kept, Fields
<1>4. /\ d \in Macs /\ Kept(d, m1, {"flags", "queue", "mlmeRequest"}) /\ d.queue = <<>>
      /\ d.flags = m1.flags \ {"MlmeReq"}
      /\ d.mlmeRequest = IF m.queue = <<>> THEN m.mlmeRequest
                         ELSE m.queue[Len(m.queue)].Request
  <2> DEFINE q == m1.mlmeRequest
             x == IF m1.queue = <<>> THEN q ELSE m1.queue[Len(m1.queue)].Request
             f == m1.flags \ {"MlmeReq"}
             o == [m1 EXCEPT !.queue = <<>>, !.mlmeRequest = x, !.flags = f]
  <2>1. Unanswered(m1.queue) = <<>>
    <3>1. \A i \in DOMAIN m1.queue : m1.queue[i].ReadyToHandle
      BY <1>3
    <3>2. m1.queue \in Seq(MlmeElement)
      BY <1>3
    <3> QED BY <3>1, <3>2, NothingUnanswered
  <2>2. d = o
    BY <1>1, <2>1 DEF DeliverMlme, Macs
  <2>3. x \in {"JOIN", "LINK_CHECK"}
    <3>1. m1.mlmeRequest \in {"JOIN", "LINK_CHECK"}
      BY <1>1 DEF Macs
    <3>2. CASE m1.queue # <<>>
      <4>1. Len(m1.queue) \in DOMAIN m1.queue
        BY <1>3, <3>2
      <4>2. m1.queue[Len(m1.queue)] \in MlmeElement
        BY <1>3, <4>1
      <4> QED BY <3>2, <4>2 DEF MlmeElement
    <3> QED BY <3>1, <3>2
  <2>4. f \in SUBSET FlagBits /\ <<>> \in Seq(MlmeElement)
    BY <1>1 DEF Macs
  <2>5. x = IF m.queue = <<>> THEN m.mlmeRequest ELSE m.queue[Len(m.queue)].Request
    BY <1>3
  <2> HIDE DEF x, f, d
  <2>6. o \in Macs
    BY <1>1, <2>3, <2>4 DEF Macs
  <2>7. /\ Kept(o, m1, {"flags", "queue", "mlmeRequest"}) /\ o.queue = <<>> /\ o.flags = f
        /\ o.mlmeRequest = x
    BY <1>1 DEF Macs, Kept, Fields
  <2> HIDE DEF o
  <2> QED BY <2>2, <2>5, <2>6, <2>7 DEF f
<1> HIDE DEF d
<1>5. CASE "MlmeReq" \in m1.flags
  <2>1. m2 = d
    BY <1>5
  <2> HIDE DEF m2
  <2>2. r \in Macs /\ Kept(r, d, {"flags"}) /\ r.flags = d.flags \ {"MacDone"}
    BY <1>4, <2>1, BaseTypes, BaseEffects
  <2> HIDE DEF r
  <2>3. Kept(r, m, {"flags", "queue", "mlmeRequest"})
    BY <1>1, <1>4, <2>2 DEF Kept
  <2>4. r.queue = d.queue /\ r.mlmeRequest = d.mlmeRequest
    BY <2>2 DEF Kept, Fields
  <2> QED BY <1>1, <1>2, <1>4, <1>5, <2>2, <2>3, <2>4
<1>6. CASE "MlmeReq" \notin m1.flags
  <2>1. m2 = m1
    BY <1>6
  <2> HIDE DEF m2
  <2>2. r \in Macs /\ Kept(r, m1, {"flags"}) /\ r.flags = m1.flags \ {"MacDone"}
    BY <1>1, <2>1, BaseTypes, BaseEffects
  <2> HIDE DEF r
  <2>3. Kept(r, m, {"flags", "queue", "mlmeRequest"})
    BY <1>1, <2>2 DEF Kept
  <2>4. r.queue = m1.queue /\ r.mlmeRequest = m1.mlmeRequest
    BY <2>2 DEF Kept, Fields
  <2> QED BY <1>1, <1>2, <1>3, <1>6, <2>2, <2>3, <2>4
<1> QED BY <1>5, <1>6

\* The indication of a received frame opens the continuous window of class C.
LEMMA Indicated ==
  ASSUME NEW m, Sound(m), ~(m.nodeAck /\ m.mcps.AckReceived)
  PROVE  Sound(Indicate(m))
<1> DEFINE u == Unmark(m, {"McpsInd", "McpsIndSkip"})
           r == Indicate(m)
<1>1. m \in Macs /\ m.class \in {"A", "C"}
  BY DEF Macs
<1>2. u \in Macs /\ Kept(u, m, {"flags"}) /\ u.flags = m.flags \ {"McpsInd", "McpsIndSkip"}
  BY <1>1, BaseTypes, BaseEffects
<1>3. r = IF "McpsInd" \notin m.flags THEN m
          ELSE IF m.class = "C" THEN OpenContinuousRx2Window(u) ELSE u
  BY DEF Indicate
<1> HIDE DEF u, r
<1>4. u.class = m.class /\ u.timers = m.timers /\ u.radio = m.radio
  BY <1>2 DEF Kept, Fields
<1>5. CASE "McpsInd" \notin m.flags
  BY <1>3, <1>5 DEF r
<1>6. CASE "McpsInd" \in m.flags
  <2>1. /\ r \in Macs /\ Kept(r, m, {"flags", "timers", "radio", "rxSlot"})
        /\ r.flags = m.flags \ {"McpsInd", "McpsIndSkip"}
        /\ m.class = "A" => r.timers = m.timers /\ r.radio = m.radio /\ r.rxSlot = m.rxSlot
        /\ m.class = "C" => /\ r.timers = m.timers \ {"RxWindow2"}
                            /\ r.radio = IF RadioIdle(m) THEN "RXC" ELSE m.radio
    <3>1. CASE m.class = "C"
      <4>1. /\ r \in Macs /\ Kept(r, u, {"timers", "radio", "rxSlot"})
            /\ r.timers = u.timers \ {"RxWindow2"}
            /\ r.radio = IF RadioIdle(u) THEN "RXC" ELSE u.radio
        BY <1>2, <1>3, <1>4, <1>6, <3>1, ContinuousWindowOpened
      <4>2. r.flags = u.flags /\ Kept(r, m, {"flags", "timers", "radio", "rxSlot"})
        BY <1>2, <4>1 DEF Kept, Fields
      <4> QED BY <1>2, <1>4, <3>1, <4>1, <4>2 DEF RadioIdle
    <3>2. CASE m.class = "A"
      <4>1. r = u
        BY <1>3, <1>6, <3>2
      <4>2. Kept(u, m, {"flags", "timers", "radio", "rxSlot"}) /\ u.rxSlot = m.rxSlot
        BY <1>2 DEF Kept, Fields
      <4> QED BY <1>2, <1>4, <3>2, <4>1, <4>2
    <3> QED BY <1>1, <3>1, <3>2
  <2>2. /\ r.class = m.class /\ r.state = m.state /\ r.joined = m.joined /\ r.nodeAck = m.nodeAck
        /\ r.ackRetry = m.ackRetry /\ r.ackCnt = m.ackCnt /\ r.ackMax = m.ackMax
        /\ r.mcps = m.mcps /\ r.common = m.common /\ r.queue = m.queue
        /\ r.mlmeRequest = m.mlmeRequest /\ r.joinTrials = m.joinTrials
    BY <2>1 DEF Kept, Fields
  <2>3. InPhase(m) /\ r.timers = m.timers
    <3>1. InPhase(m)
      BY DEF Phase
    <3>2. m.class = "C" => "RxWindow2" \notin m.timers
      BY <3>1 DEF InPhase, Idle, Sensing, Delayed, Imminent, OnAir, Listening, Over, Others
    <3> QED BY <1>1, <2>1, <3>1, <3>2
  <2>4. /\ Idle(m) => Idle(r)
        /\ Sensing(m) <=> Sensing(r)
        /\ Delayed(m) <=> Delayed(r)
        /\ Imminent(m) <=> Imminent(r)
        /\ OnAir(m) <=> OnAir(r)
        /\ Over(m) <=> Over(r)
        /\ Done(m) <=> Done(r)
    <3>1. CASE m.class = "A"
      BY <2>1, <2>2, <2>3, <3>1 DEF Idle, Sensing, Delayed, Imminent, OnAir, Over, Done, Others,
         Resting
    <3>2. CASE m.class = "C" /\ RadioIdle(m)
      <4>1. m.radio \in {"SLEEP", "CAD"} /\ r.radio = "RXC"
        BY <2>1, <3>2 DEF RadioIdle
      <4>2. m.radio = "CAD" => Sensing(m)
        BY <2>3 DEF InPhase, Idle, Delayed, Imminent, OnAir, Listening, Over, Resting
      <4>3. CASE m.radio = "CAD"
        <5>1. Sensing(r)
          BY <2>2, <2>3, <4>1, <4>2, <4>3 DEF Sensing, Others
        <5>2. /\ ~Idle(m) /\ ~Delayed(m) /\ ~Imminent(m) /\ ~OnAir(m) /\ ~Over(m)
              /\ ~Delayed(r) /\ ~Imminent(r) /\ ~OnAir(r) /\ ~Over(r)
          BY <2>2, <2>3, <4>1, <4>2, <4>3 DEF Sensing, Idle, Delayed, Imminent, OnAir, Over, Others
        <5> QED BY <2>1, <4>2, <4>3, <5>1, <5>2 DEF Done
      <4>4. CASE m.radio = "SLEEP"
        <5>1. ~Sensing(r)
          <6>1. Sensing(r) => "CadTimeout" \in m.timers
            BY <2>3 DEF Sensing, Others
          <6>2. "CadTimeout" \in m.timers => Sensing(m)
            BY <2>3 DEF InPhase, Idle, Delayed, Imminent, OnAir, Listening, Over, Others, Windows
          <6> QED BY <4>4, <6>1, <6>2 DEF Sensing
        <5> QED BY <2>1, <2>2, <2>3, <4>1, <4>4, <5>1 DEF Idle, Sensing, Delayed, Imminent, OnAir,
              Over, Done, Others, Resting
      <4> QED BY <4>1, <4>3, <4>4
    <3>3. CASE m.class = "C" /\ ~RadioIdle(m)
      BY <2>1, <2>2, <2>3, <3>3 DEF Idle, Sensing, Delayed, Imminent, OnAir, Over, Done, Others,
         Resting
    <3> QED BY <1>1, <3>1, <3>2, <3>3
  <2>5. Listening(m) <=> Listening(r)
    <3>1. CASE m.class = "A"
      BY <2>1, <2>2, <2>3, <3>1 DEF Listening, Others, Windows, Resting
    <3>2. CASE m.class = "C"
      <4>1. m.radio = "CAD" => ~Listening(m) /\ ~Listening(r)
        <5>1. m.radio = "CAD" => "CAD_RUNNING" \in m.state
          BY <2>3 DEF InPhase, Idle, Sensing, Delayed, Imminent, OnAir, Listening, Over, Resting
        <5> QED BY <2>2, <5>1 DEF Listening
      <4>2. m.radio # "CAD" => (Resting(m) <=> Resting(r)) /\ (m.radio = "RX" <=> r.radio = "RX")
        BY <2>1, <3>2 DEF RadioIdle, Resting
      <4>3. Others(m) = {"RxWindow1", "AckTimeout"} /\ r.radio = "RXC" /\ m.radio = "SLEEP" => ~Listening(m)
        BY <3>2 DEF Listening
      <4>4. m.radio = "SLEEP" /\ "RxWindow1" \in m.timers => FALSE
        BY <2>3, <3>2 DEF InPhase, Idle, Sensing, Delayed, Imminent, OnAir, Listening, Over, Others,
           Windows
      <4>5. CASE m.radio # "CAD"
        <5>1. Others(r) = Others(m)
          BY <2>3 DEF Others
        <5>2. Others(m) = {"RxWindow1", "AckTimeout"} => (m.radio = "RXC" <=> r.radio = "RXC")
          <6>1. Others(m) = {"RxWindow1", "AckTimeout"} => m.radio # "SLEEP"
            BY <4>4 DEF Others
          <6> QED BY <2>1, <3>2, <4>5, <6>1 DEF RadioIdle
        <5> QED BY <2>2, <2>3, <3>2, <4>2, <4>5, <5>1, <5>2 DEF Listening
      <4> QED BY <4>1, <4>5
    <3> QED BY <1>1, <3>1, <3>2
  <2>6. Phase(r)
    <3>1. r.radio = "RXC" => r.class = "C"
      BY <1>1, <2>1, <2>2 DEF Phase
    <3> QED BY <2>2, <2>4, <2>5, <3>1 DEF Phase, InPhase
  <2>7. Acks(r)
    BY <2>2, <2>3, <2>4, <2>5 DEF Acks, TimedOut
  <2>8. /\ "McpsReq" \in r.flags <=> "McpsReq" \in m.flags
        /\ "MlmeReq" \in r.flags <=> "MlmeReq" \in m.flags
    BY <2>1
  <2>9. Uplink(r)
    BY <2>2, <2>8 DEF Uplink
  <2>10. Joins(r)
    BY <2>1, <2>2, <2>3, <2>4, <2>8 DEF Joins
  <2>11. Queue(r)
    BY <2>2, <2>3 DEF Queue
  <2> QED BY <2>1, <2>6, <2>7, <2>9, <2>10, <2>11 DEF r
<1> QED BY <1>5, <1>6

\* A state check that changes nothing starts its timer again.
LEMMA StopStart ==
  ASSUME NEW m \in Macs, "MacStateCheck" \in m.timers
  PROVE  TimerStart(TimerStop(m, "MacStateCheck"), "MacStateCheck") = m
<1> DEFINE t == (m.timers \ {"MacStateCheck"}) \cup {"MacStateCheck"}
<1>1. TimerStart(TimerStop(m, "MacStateCheck"), "MacStateCheck") = [m EXCEPT !.timers = t]
  BY DEF TimerStart, TimerStop, Macs
<1>2. t = m.timers
  OBVIOUS
<1> HIDE DEF t
<1>3. [m EXCEPT !.timers = t] = m
  BY <1>2 DEF Macs
<1> QED BY <1>1, <1>3

\* What the paragraphs of the state check make of a procedure that was found
\* done, and that nothing of the application's requests is lost with it.
Checked(r, n) ==
  /\ r \in Macs /\ Kept(r, n, EndFields) /\ r.ackCnt \in 1 .. r.ackMax /\ ~r.ackRetry
  /\ r.nodeAck => n.nodeAck /\ ~r.mcps.AckReceived
  /\ Ended(r, n) \/ Again(r, n)
  /\ JoinProcedure(n) /\ ~n.nodeAck =>
       \/ Ended(r, n) /\ r.state = {}
       \/ Again(r, n) /\ ~JoinAccepted(n) /\ n.joinTrials < MaxJoinTrials

\* What the state check finds when the procedure is done.
LEMMA FoundByCheck ==
  ASSUME NEW m, Sound(m), "MacStateCheck" \in m.timers, Done(m), "AckTimeout" \notin m.timers
  PROVE  LET n == TimerStop(m, "MacStateCheck") IN FoundDone(n) /\ Kept(n, m, {"timers"})
<1> DEFINE n == TimerStop(m, "MacStateCheck")
<1>1. m \in Macs
  OBVIOUS
<1>2. n \in Macs /\ Kept(n, m, {"timers"}) /\ n.timers = m.timers \ {"MacStateCheck"}
  BY <1>1, BaseTypes, BaseEffects DEF Timers
<1> HIDE DEF n
<1>3. /\ n.state = m.state /\ n.radio = m.radio /\ n.flags = m.flags /\ n.ackCnt = m.ackCnt
      /\ n.ackMax = m.ackMax /\ n.ackRetry = m.ackRetry /\ n.nodeAck = m.nodeAck
      /\ n.mcps = m.mcps
  BY <1>2 DEF Kept, Fields
<1>4. Over(m)
  BY DEF Phase
<1>5. n.timers = {} /\ Resting(n) /\ Done(n) /\ n.state \in {{"TX_RUNNING"}, {"TX_RUNNING", "RX_ABORT"}}
  BY <1>2, <1>3, <1>4 DEF Over, Others, Resting, Done
<1>6. /\ n.ackCnt \in 1 .. n.ackMax /\ (n.ackRetry => n.nodeAck)
      /\ n.nodeAck /\ n.mcps.AckReceived => "McpsInd" \in n.flags
  BY <1>3 DEF Acks
<1>7. FoundDone(n)
  BY <1>2, <1>5, <1>6 DEF FoundDone
<1> QED BY <1>2, <1>7 DEF n

\* What it makes of it.
LEMMA FinishedChecked ==
  ASSUME NEW n, FoundDone(n), NEW out \in Outcomes, out = "LENGTH" => n.nodeAck
  PROVE  Checked(Finish(n, out), n)
<1> DEFINE r == Finish(n, out)
<1>1. CASE n.nodeAck
  <2>1. /\ r \in Macs /\ Kept(r, n, EndFields)
        /\ r.ackCnt \in 1 .. r.ackMax /\ ~r.ackRetry
        /\ r.nodeAck => ~r.mcps.AckReceived
        /\ Ended(r, n) \/ Again(r, n)
    BY <1>1, FinishedWithAck
  <2> HIDE DEF r
  <2>2. Checked(r, n)
    BY <1>1, <2>1 DEF Checked
  <2> QED BY <2>2 DEF r
<1>2. CASE ~n.nodeAck
  <2>1. out \in {"CAD", "DELAY"}
    BY <1>2 DEF Outcomes
  <2>2. /\ r \in Macs /\ Kept(r, n, EndFields)
        /\ r.ackCnt \in 1 .. r.ackMax /\ ~r.nodeAck /\ ~r.ackRetry
        /\ Ended(r, n) \/ Again(r, n)
        /\ JoinProcedure(n) =>
             \/ Ended(r, n) /\ r.state = {}
             \/ Again(r, n) /\ ~JoinAccepted(n) /\ n.joinTrials < MaxJoinTrials
    BY <1>2, <2>1, FinishedWithoutAck
  <2> HIDE DEF r
  <2>3. Checked(r, n)
    BY <1>2, <2>2 DEF Checked
  <2> QED BY <2>3 DEF r
<1> QED BY <1>1, <1>2

\* The procedure has ended: the state check delivers the confirms.
LEMMA EndDelivered ==
  ASSUME NEW m, Sound(m), "MacStateCheck" \in m.timers, Done(m), "AckTimeout" \notin m.timers,
         NEW r, Checked(r, TimerStop(m, "MacStateCheck")), r.state = {}
  PROVE  Sound(Deliver(r)) /\ ~(Deliver(r).nodeAck /\ Deliver(r).mcps.AckReceived)
<1> DEFINE n == TimerStop(m, "MacStateCheck")
           d == Deliver(r)
<1>1. FoundDone(n) /\ Kept(n, m, {"timers"})
  BY FoundByCheck
<1>2. r \in Macs /\ Ended(r, n) /\ Kept(r, n, EndFields)
  BY DEF Checked, Again
<1>3. /\ r.timers = {} /\ r.radio = m.radio /\ r.flags = m.flags /\ Resting(r)
      /\ r.class = m.class /\ r.joined = m.joined /\ r.queue = m.queue
      /\ r.mlmeRequest = m.mlmeRequest /\ r.joinTrials = m.joinTrials
      /\ r.nodeAck => m.nodeAck /\ ~r.mcps.AckReceived
  <2>1. n.radio = m.radio /\ n.flags = m.flags /\ n.nodeAck = m.nodeAck
    BY <1>1 DEF Kept, Fields
  <2>2. /\ r.class = m.class /\ r.joined = m.joined /\ r.queue = m.queue
        /\ r.mlmeRequest = m.mlmeRequest /\ r.joinTrials = m.joinTrials
    BY <1>1, <1>2 DEF Kept, Fields, EndFields
  <2>3. r.nodeAck => n.nodeAck /\ ~r.mcps.AckReceived
    BY DEF Checked
  <2> QED BY <1>1, <1>2, <2>1, <2>2, <2>3 DEF Ended, FoundDone, Resting
<1>4. r.ackCnt \in 1 .. r.ackMax /\ ~r.ackRetry
  BY DEF Checked
<1> HIDE DEF n
<1>5. /\ Len(m.queue) <= QueueLen /\ \A i \in DOMAIN m.queue : ~m.queue[i].RestrictCommon
      /\ \A i \in DOMAIN m.queue : m.queue[i].ReadyToHandle
  BY DEF Queue
<1>6. /\ d \in Macs /\ Kept(d, r, {"flags", "queue", "mlmeRequest"})
      /\ "McpsReq" \notin d.flags /\ "MacDone" \notin d.flags
      /\ \/ /\ "MlmeReq" \in r.flags /\ d.queue = <<>>
            /\ d.mlmeRequest = IF r.queue = <<>> THEN r.mlmeRequest
                               ELSE r.queue[Len(r.queue)].Request
         \/ /\ "MlmeReq" \notin r.flags /\ d.queue = r.queue
            /\ d.mlmeRequest = r.mlmeRequest
  BY <1>2, <1>3, <1>5, ConfirmsDelivered
<1> HIDE DEF d
<1>7. /\ d.state = {} /\ d.timers = {} /\ d.radio = m.radio /\ d.class = m.class
      /\ d.joined = m.joined /\ d.joinTrials = m.joinTrials /\ d.nodeAck = r.nodeAck
      /\ d.ackRetry = r.ackRetry /\ d.ackCnt = r.ackCnt /\ d.ackMax = r.ackMax
      /\ d.mcps = r.mcps
  BY <1>3, <1>6 DEF Kept, Fields
<1>8. /\ Idle(d) /\ ~Sensing(d) /\ ~Delayed(d) /\ ~Imminent(d) /\ ~OnAir(d) /\ ~Listening(d)
      /\ ~Over(d) /\ ~Done(d)
  BY <1>3, <1>6, <1>7
     DEF Idle, Sensing, Delayed, Imminent, OnAir, Listening, Over, Done, Resting
<1>9. Phase(d)
  BY <1>7, <1>8 DEF Phase, InPhase
<1>10. Acks(d)
  BY <1>3, <1>4, <1>7, <1>8 DEF Acks
<1>11. Uplink(d)
  BY <1>6, <1>7 DEF Uplink
<1>12. m.state # {} /\ m.queue \in Seq(MlmeElement)
  <2>1. m.state # {}
    BY DEF Phase, InPhase, Idle, Sensing, Delayed, Imminent, OnAir, Listening, Over
  <2> QED BY <2>1 DEF Macs
<1>13. ~IsQueued(d.queue, "JOIN")
  <2>1. ~IsQueued(<<>>, "JOIN")
    BY DEF IsQueued
  <2>2. IsQueued(m.queue, "JOIN") => "MlmeReq" \in m.flags
    BY DEF Joins
  <2> QED BY <1>3, <1>6, <2>1, <2>2
<1>14. ASSUME ~d.joined
       PROVE  ~d.nodeAck /\ d.mlmeRequest = "JOIN" /\ d.queue = <<>>
  <2>1. IsQueued(m.queue, "JOIN") /\ ~m.nodeAck /\ m.mlmeRequest = "JOIN"
    BY <1>7, <1>12, <1>14 DEF Joins
  <2>2. Len(m.queue) = 1 /\ "MlmeReq" \in m.flags
    BY <2>1 DEF Joins
  <2>3. m.queue # <<>> /\ m.queue[Len(m.queue)].Request = "JOIN"
    BY <1>12, <2>1, <2>2 DEF IsQueued
  <2> QED BY <1>3, <1>6, <1>7, <2>1, <2>2, <2>3
<1>15. Joins(d)
  <2>1. m.joinTrials \in 0 .. MaxJoinTrials
    BY DEF Joins
  <2> QED BY <1>7, <1>8, <1>13, <1>14, <2>1 DEF Joins
<1>16. Queue(d)
  <2>1. d.queue = <<>> \/ d.queue = m.queue
    BY <1>3, <1>6
  <2>2. Len(<<>>) <= QueueLen /\ DOMAIN <<>> = {}
    BY BoundsAssumption
  <2> QED BY <1>5, <1>7, <2>1, <2>2 DEF Queue
<1>17. Sound(d) /\ ~(d.nodeAck /\ d.mcps.AckReceived)
  BY <1>3, <1>6, <1>7, <1>9, <1>10, <1>11, <1>15, <1>16
<1> QED BY <1>17 DEF d

\* The procedure goes on: the state check runs again.
LEMMA CheckedLater ==
  ASSUME NEW m, Sound(m), "MacStateCheck" \in m.timers, Done(m), "AckTimeout" \notin m.timers,
         NEW r, Checked(r, TimerStop(m, "MacStateCheck")), r.state # {}
  PROVE  LET t == TimerStart(r, "MacStateCheck") IN
         Sound(t) /\ ~(t.nodeAck /\ t.mcps.AckReceived)
<1> DEFINE n == TimerStop(m, "MacStateCheck")
           t == TimerStart(r, "MacStateCheck")
<1>1. FoundDone(n) /\ Kept(n, m, {"timers"})
  BY FoundByCheck
<1>2. /\ r \in Macs /\ Kept(r, n, EndFields) /\ r.ackCnt \in 1 .. r.ackMax /\ ~r.ackRetry
      /\ r.nodeAck => n.nodeAck /\ ~r.mcps.AckReceived
      /\ Ended(r, n) \/ Again(r, n)
      /\ JoinProcedure(n) /\ ~n.nodeAck => Again(r, n) /\ ~JoinAccepted(n) /\ n.joinTrials < MaxJoinTrials
  BY DEF Checked
<1> HIDE DEF n
<1>3. t \in Macs /\ Kept(t, r, {"timers"}) /\ t.timers = r.timers \cup {"MacStateCheck"}
  BY <1>2, BaseTypes, BaseEffects DEF Timers
<1> HIDE DEF t
<1>4. /\ n.radio = m.radio /\ n.flags = m.flags /\ n.nodeAck = m.nodeAck /\ n.queue = m.queue
      /\ n.mlmeRequest = m.mlmeRequest /\ n.joinTrials = m.joinTrials
  BY <1>1 DEF Kept, Fields
<1>5. /\ r.class = m.class /\ r.joined = m.joined /\ r.queue = m.queue
      /\ r.mlmeRequest = m.mlmeRequest /\ r.joinTrials = m.joinTrials
  BY <1>1, <1>2 DEF Kept, Fields, EndFields
<1>6. /\ t.class = m.class /\ t.joined = m.joined /\ t.queue = m.queue
      /\ t.mlmeRequest = m.mlmeRequest /\ t.joinTrials = m.joinTrials
  BY <1>3, <1>5 DEF Kept, Fields
<1>7. /\ t.state = r.state /\ t.radio = r.radio /\ t.flags = r.flags /\ t.nodeAck = r.nodeAck
      /\ t.ackCnt = r.ackCnt /\ t.ackMax = r.ackMax /\ t.ackRetry = r.ackRetry /\ t.mcps = r.mcps
  BY <1>3 DEF Kept, Fields
<1>8. /\ m.state # {} /\ m.queue \in Seq(MlmeElement)
      /\ m.radio = "RXC" => m.class = "C"
      /\ m.class \in {"A"} \cup Classes
  <2>1. m.state # {}
    BY DEF Phase, InPhase, Idle, Sensing, Delayed, Imminent, OnAir, Listening, Over
  <2> QED BY <2>1 DEF Macs, Phase
<1>9. \/ Over(t) /\ Done(t) /\ Ended(r, n)
      \/ (Sensing(t) \/ Delayed(t)) /\ ~Done(t) /\ ~Over(t) /\ Again(r, n) /\ (t.radio = "RXC" => t.class = "C")
  <2>1. CASE Ended(r, n)
    <3>1. r.state = {"TX_RUNNING"}
      BY <2>1 DEF Ended
    <3> QED BY <1>1, <1>3, <1>4, <1>7, <2>1, <3>1 DEF Ended, Over, Done, Others, Resting, FoundDone
  <2>2. CASE Again(r, n)
    BY <1>1, <1>3, <1>4, <1>6, <1>7, <1>8, <2>2
       DEF Again, Sensing, Delayed, Over, Done, Others, Resting, FoundDone
  <2> QED BY <1>2, <2>1, <2>2
<1>10. ~OnAir(t) /\ ~Listening(t) /\ "AckTimeout" \notin t.timers
  <2>1. r.timers \in {{}, {"CadTimeout"}, {"TxDelayed"}}
    BY <1>2 DEF Ended, Again
  <2>2. Others(t) \in {{}, {"CadTimeout"}, {"TxDelayed"}}
    BY <1>3, <2>1 DEF Others
  <2> QED BY <2>1, <2>2, <1>3 DEF OnAir, Listening, Windows
<1>11. t.nodeAck => n.nodeAck /\ ~t.mcps.AckReceived
  BY <1>2, <1>7
<1>12. Phase(t)
  <2>1. CASE Over(t) /\ Done(t) /\ Ended(r, n)
    <3>1. t.radio = m.radio
      BY <1>4, <1>7, <2>1 DEF Ended
    <3> QED BY <1>6, <1>8, <2>1, <3>1 DEF Phase, InPhase
  <2>2. CASE (Sensing(t) \/ Delayed(t)) /\ ~Done(t) /\ ~Over(t) /\ (t.radio = "RXC" => t.class = "C")
    BY <1>6, <1>8, <2>2 DEF Phase, InPhase
  <2> QED BY <1>9, <2>1, <2>2
<1>13. Acks(t)
  BY <1>2, <1>7, <1>10, <1>11 DEF Acks
<1>14. /\ "McpsReq" \in t.flags <=> "McpsReq" \in m.flags
       /\ "MlmeReq" \in t.flags <=> "MlmeReq" \in m.flags
  BY <1>2, <1>4, <1>7 DEF Ended, Again
<1>15. Uplink(t)
  BY <1>6, <1>7, <1>8, <1>14 DEF Uplink
<1>16. ASSUME IsQueued(m.queue, "JOIN")
       PROVE  /\ Len(m.queue) = 1 /\ "MlmeReq" \in m.flags /\ "McpsReq" \notin m.flags
              /\ m.mlmeRequest = "JOIN" /\ ~m.nodeAck /\ (m.queue[1].Status = "OK" <=> m.joined)
              /\ m.joinTrials < MaxJoinTrials /\ ~m.joined
  <2>1. /\ Len(m.queue) = 1 /\ "MlmeReq" \in m.flags /\ "McpsReq" \notin m.flags
        /\ m.mlmeRequest = "JOIN" /\ ~m.nodeAck /\ (m.queue[1].Status = "OK" <=> m.joined)
    BY <1>16 DEF Joins
  <2>2. JoinProcedure(n) /\ ~n.nodeAck
    BY <1>4, <2>1 DEF JoinProcedure
  <2>3. ~JoinAccepted(n) /\ n.joinTrials < MaxJoinTrials
    BY <1>2, <2>2
  <2> QED BY <1>4, <1>16, <2>1, <2>3 DEF JoinAccepted
<1>17. m.joinTrials \in 0 .. MaxJoinTrials /\ (~m.joined => IsQueued(m.queue, "JOIN"))
  BY <1>8 DEF Joins
<1>18. t.nodeAck => m.nodeAck
  BY <1>4, <1>11
<1>19. Joins(t)
  BY <1>6, <1>7, <1>14, <1>16, <1>17, <1>18 DEF Joins
<1>20. Queue(t)
  BY <1>6 DEF Queue
<1> QED BY <1>3, <1>11, <1>12, <1>13, <1>15, <1>19, <1>20 DEF t

\* As long as the ACK may come, the state check changes nothing.
LEMMA StillWaiting ==
  ASSUME NEW m, Sound(m), "MacStateCheck" \in m.timers, Done(m), "AckTimeout" \in m.timers,
         NEW out
  PROVE  LET n == TimerStop(m, "MacStateCheck") IN Finish(n, out) = n
<1> DEFINE n == TimerStop(m, "MacStateCheck")
<1>1. m \in Macs /\ Over(m)
  BY DEF Phase
<1>2. m.class = "A" /\ m.state = {"TX_RUNNING"}
  BY <1>1 DEF Over
<1>3. m.nodeAck /\ ~m.ackRetry /\ ~m.mcps.AckReceived /\ ~TimedOut(m) /\ m.ackCnt \in 1 .. m.ackMax
  BY <1>2 DEF Acks
<1>4. n \in Macs /\ Kept(n, m, {"timers"})
  BY <1>1, BaseTypes, BaseEffects DEF Timers
<1> HIDE DEF n
<1>5. /\ n.state = {"TX_RUNNING"} /\ n.nodeAck /\ ~n.ackRetry /\ ~n.mcps.AckReceived
      /\ n.mcps = m.mcps /\ n.common = m.common /\ n.ackCnt \in 1 .. n.ackMax
  BY <1>2, <1>3, <1>4 DEF Kept, Fields
<1>6. EndAbort(n) = n
  BY <1>5 DEF EndAbort
<1>7. ~TxTimedOut(n)
  BY <1>3, <1>5 DEF TxTimedOut, TimedOut
<1>8. EndWithoutAck(n, out) = n
  BY <1>5 DEF EndWithoutAck
<1>9. EndReceived(n) = n
  <2>1. n.ackMax \in {1, NbTrials}
    BY <1>4 DEF Macs
  <2>2. ~(n.ackCnt > n.ackMax)
    BY <1>5, <2>1, BoundsAssumption
  <2> QED BY <1>5, <2>2 DEF EndReceived
<1>10. Retry(n, out) = n
  BY <1>5 DEF Retry
<1>11. Finish(n, out) = n
  BY <1>6, <1>7, <1>8, <1>9, <1>10 DEF Finish
<1> QED BY <1>11 DEF n

\* The state check keeps the invariant.
LEMMA MacStateCheckStep ==
  ASSUME OrderlyUse, IInv, NEW out \in Outcomes, MacStateCheck(out)
  PROVE  IInv'
<1> DEFINE n  == TimerStop(mac, "MacStateCheck")
           r  == Finish(n, out)
           m2 == IF "MacDone" \in n.flags THEN r ELSE n
           m3 == IF m2.state = {} THEN Deliver(m2) ELSE TimerStart(m2, "MacStateCheck")
<1>1. Sound(mac) /\ mac \in Macs
  BY DEF IInv
<1>2. "MacStateCheck" \in mac.timers /\ mac' = Indicate(m3)
  BY DEF MacStateCheck
<1>3. out = "LENGTH" => mac.nodeAck
  <2>1. ~DataRateMayChange
    <3>1. mac.class = "C" => "C" \in Classes
      BY <1>1 DEF Phase
    <3> QED BY <3>1 DEF OrderlyUse, DataRateMayChange
  <2> QED BY <2>1 DEF MacStateCheck
<1>4. /\ n \in Macs /\ Kept(n, mac, {"timers"}) /\ n.flags = mac.flags /\ n.nodeAck = mac.nodeAck
      /\ n.state = mac.state
  <2>1. n \in Macs /\ Kept(n, mac, {"timers"})
    BY <1>1, BaseTypes, BaseEffects DEF Timers
  <2> HIDE DEF n
  <2> QED BY <2>1 DEF Kept, Fields
<1>5. mac.state # {}
  BY <1>1, <1>2 DEF Phase, InPhase, Idle, Sensing, Delayed, Imminent, OnAir, Listening, Over
<1>6. TimerStart(n, "MacStateCheck") = mac
  BY <1>1, <1>2, StopStart
<1> HIDE DEF n, r
<1>7. Sound(m3) /\ ~(m3.nodeAck /\ m3.mcps.AckReceived)
  <2>1. CASE ~Done(mac)
    <3>1. m2 = n
      BY <1>4, <2>1 DEF Done
    <3>2. m3 = mac
      BY <1>4, <1>5, <1>6, <3>1
    <3>3. ~(mac.nodeAck /\ mac.mcps.AckReceived)
      BY <1>1, <2>1 DEF Acks
    <3> HIDE DEF m3, Sound
    <3> QED BY <1>1, <3>2, <3>3
  <2>2. CASE Done(mac) /\ "AckTimeout" \in mac.timers
    <3>1. r = n
      BY <1>1, <1>2, <2>2, StillWaiting DEF r, n
    <3>2. m2 = n
      BY <3>1
    <3>3. m3 = mac
      BY <1>4, <1>5, <1>6, <3>2
    <3>4. ~(mac.nodeAck /\ mac.mcps.AckReceived)
      BY <1>1, <2>2 DEF Acks
    <3> HIDE DEF m3, Sound
    <3> QED BY <1>1, <3>3, <3>4
  <2>3. CASE Done(mac) /\ "AckTimeout" \notin mac.timers
    <3>1. m2 = r
      BY <1>4, <2>3 DEF Done
    <3>2. FoundDone(n)
      BY <1>1, <1>2, <2>3, FoundByCheck DEF n
    <3>3. Checked(r, n)
      BY <1>3, <1>4, <3>2, FinishedChecked DEF r
    <3>4. CASE r.state = {}
      <4>1. m3 = Deliver(r)
        BY <3>1, <3>4
      <4>2. Sound(Deliver(r)) /\ ~(Deliver(r).nodeAck /\ Deliver(r).mcps.AckReceived)
        <5> HIDE DEF Sound
        <5> QED BY <1>1, <1>2, <2>3, <3>3, <3>4, EndDelivered DEF n
      <4> HIDE DEF m3, Sound
      <4> QED BY <4>1, <4>2
    <3>5. CASE r.state # {}
      <4> DEFINE t == TimerStart(r, "MacStateCheck")
      <4>1. m3 = t
        BY <3>1, <3>5
      <4>2. Sound(t) /\ ~(t.nodeAck /\ t.mcps.AckReceived)
        <5> HIDE DEF Sound
        <5> QED BY <1>1, <1>2, <2>3, <3>3, <3>5, CheckedLater DEF n
      <4> HIDE DEF m3, Sound, t
      <4> QED BY <4>1, <4>2
    <3> QED BY <3>4, <3>5
  <2> QED BY <2>1, <2>2, <2>3
<1> HIDE DEF m3
<1>8. Sound(Indicate(m3))
  <2> HIDE DEF Sound
  <2> QED BY <1>7, Indicated
<1> HIDE DEF Sound
<1> QED BY <1>2, <1>8 DEF IInv

-----------------------------------------------------------------------------
(* The invariant holds in every state.                                       *)

\* The invariant holds initially.
LEMMA InitEstablishes == Init => IInv
<1> SUFFICES ASSUME Init PROVE IInv
  OBVIOUS
<1>1. mac \in Macs
  <2>1. /\ 0 \in 0 .. ChannelsNbRep /\ 0 \in 0 .. SentCap /\ 1 \in 1 .. CadMax /\ 1 \in Nat
        /\ <<>> \in Seq(MlmeElement)
    BY BoundsAssumption
  <2>2. [Request |-> "UNCONFIRMED", Status |-> "OK", AckReceived |-> FALSE] \in
          [Request : {"CONFIRMED", "UNCONFIRMED"}, Status : Results, AckReceived : BOOLEAN]
    BY DEF Results
  <2>3. StartJoined \in BOOLEAN /\ "OK" \in Results
    BY ConfigurationAssumption DEF Results
  <2> QED BY <2>1, <2>2, <2>3 DEF Init, Macs
<1>2. /\ mac.class = "A" /\ mac.state = {} /\ mac.flags = {} /\ mac.timers = {}
      /\ mac.radio = "SLEEP" /\ ~mac.nodeAck /\ ~mac.ackRetry /\ mac.ackMax = 1 /\ mac.ackCnt = 1
      /\ mac.joinTrials = 0 /\ mac.mlmeRequest = "JOIN" /\ mac.queue = <<>>
  BY DEF Init
<1>3. /\ Idle(mac) /\ ~Sensing(mac) /\ ~Delayed(mac) /\ ~Imminent(mac) /\ ~OnAir(mac)
      /\ ~Listening(mac) /\ ~Over(mac) /\ ~Done(mac)
  BY <1>2 DEF Idle, Sensing, Delayed, Imminent, OnAir, Listening, Over, Done, Resting
<1>4. Phase(mac)
  BY <1>2, <1>3 DEF Phase, InPhase
<1>5. Acks(mac)
  BY <1>2, <1>3 DEF Acks
<1>6. ~IsQueued(mac.queue, "JOIN") /\ DOMAIN mac.queue = {} /\ Len(mac.queue) = 0
  BY <1>2 DEF IsQueued
<1>7. Uplink(mac)
  BY <1>2 DEF Uplink
<1>8. Joins(mac)
  BY <1>2, <1>3, <1>6, BoundsAssumption DEF Joins
<1>9. Queue(mac)
  BY <1>6, BoundsAssumption DEF Queue
<1> QED BY <1>1, <1>4, <1>5, <1>7, <1>8, <1>9 DEF IInv

\* Every step keeps it.
LEMMA StepKeeps ==
  ASSUME OrderlyUse, IInv, [Next]_mac
  PROVE  IInv'
<1> HIDE DEF Sound
<1>1. CASE UNCHANGED mac
  <2>1. Sound(mac) /\ mac' = mac
    BY <1>1 DEF IInv
  <2>2. Sound(mac')
    BY <2>1
  <2> QED BY <2>2 DEF IInv
<1>2. ASSUME NEW type \in Uplinks, NEW out \in Outcomes, McpsRequest(type, out) PROVE IInv'
  BY <1>2, McpsRequestStep
<1>3. ASSUME NEW out \in Outcomes \ {"LENGTH"}, Join(out) PROVE IInv'
  BY <1>3, JoinStep
<1>4. ASSUME NEW fits \in BOOLEAN, LinkCheck(fits) PROVE IInv'
  BY <1>4, LinkCheckStep
<1>5. ASSUME NEW class \in Classes, SwitchClass(class) PROVE IInv'
  BY <1>5, SwitchClassStep
<1>6. ASSUME NEW out \in Outcomes, MacStateCheck(out) PROVE IInv'
  BY <1>6, MacStateCheckStep
<1>7. ASSUME NEW out \in Outcomes, TxDelayed(out) PROVE IInv'
  BY <1>7, TxDelayedStep
<1>8. CASE TxImmediate
  BY <1>8, TxImmediateStep
<1>9. CASE RxWindow1
  BY <1>9, RxWindow1Step
<1>10. CASE RxWindow2
  BY <1>10, RxWindow2Step
<1>11. CASE AckTimeout
  BY <1>11, AckTimeoutStep
<1>12. ASSUME NEW busy \in BOOLEAN, CadDone(busy) PROVE IInv'
  BY <1>12, CadDoneStep
<1>13. CASE TxDone
  BY <1>13, TxDoneStep
<1>14. CASE TxTimeout
  BY <1>14, TxTimeoutStep
<1>15. ASSUME NEW f \in Downlinks, RxDone(f) PROVE IInv'
  <2>1. f \in Frames
    BY ConfigurationAssumption
  <2> QED BY <1>15, <2>1, RxDoneStep
<1>16. ASSUME NEW late \in BOOLEAN, RxError(late) \/ RxTimeout(late) PROVE IInv'
  BY <1>16, EndWindowStep
<1> QED BY <1>1, <1>2, <1>3, <1>4, <1>5, <1>6, <1>7, <1>8, <1>9, <1>10, <1>11, <1>12, <1>13, <1>14,
           <1>15, <1>16 DEF Next, Request, Timer, RadioEvent

\* It holds in every state, if the MAC is used in order.
LEMMA Invariance == ASSUME OrderlyUse PROVE Spec => []IInv
<1>1. IInv /\ [Next]_mac => IInv'
  BY StepKeeps
<1> QED BY InitEstablishes, <1>1, PTL DEF Spec

\* The MAC's variables and the radio keep their types, and the counters of
\* trials stay within the numbers asked for.
THEOREM TypesKept == ASSUME OrderlyUse PROVE Spec => []TypeOK
<1>1. IInv => TypeOK
  <2> SUFFICES ASSUME IInv PROVE TypeOK
    OBVIOUS
  <2>1. mac \in Macs /\ mac.ackCnt \in 1 .. mac.ackMax /\ mac.joinTrials \in 0 .. MaxJoinTrials
    BY DEF IInv, Acks, Joins
  <2>2. Len(mac.queue) <= QueueLen /\ \A i \in DOMAIN mac.queue : mac.queue[i] \in MlmeElement
    BY <2>1 DEF IInv, Queue, Macs
  <2> QED BY <2>1, <2>2 DEF TypeOK, Macs
<1> QED BY <1>1, Invariance, PTL

\* When LoRaMacState is idle, no frame is on its way to the radio.
THEOREM IdleMeansQuiet == ASSUME OrderlyUse PROVE Spec => []IdleIsQuiet
<1>1. IInv => IdleIsQuiet
  <2> SUFFICES ASSUME IInv, mac.state = {} PROVE IdleIsQuiet
    BY DEF IdleIsQuiet
  <2>1. Idle(mac)
    BY WhenIdle
  <2> QED BY <2>1 DEF Idle, Resting, IdleIsQuiet
<1> QED BY <1>1, Invariance, PTL

\* If the server acknowledges what asks for it, the MAC is never left waiting
\* for a call that nothing will make.
THEOREM AlwaysDriven == ASSUME OrderlyUse, ServerAcks PROVE Spec => []ProcedureIsDriven
<1>1. IInv => ProcedureIsDriven
  <2> SUFFICES ASSUME IInv, mac.state # {} \/ "McpsReq" \in mac.flags PROVE ProcedureIsDriven
    BY DEF ProcedureIsDriven
  <2>1. mac.state # {} /\ InPhase(mac) /\ (Over(mac) => Done(mac)) /\ mac.class \in {"A", "C"}
    BY DEF IInv, Uplink, Phase, Macs
  <2>2. CASE Over(mac)
    BY <2>1, <2>2 DEF Over, Done, ProcedureIsDriven
  <2>3. CASE OnAir(mac)
    BY <2>3 DEF OnAir, ProcedureIsDriven
  <2>4. CASE Sensing(mac) \/ Delayed(mac) \/ Imminent(mac) \/ Listening(mac)
    <3>1. Others(mac) # {}
      BY <2>4 DEF Sensing, Delayed, Imminent, Listening, Windows
    <3> QED BY <3>1 DEF Others, ProcedureIsDriven
  <2> QED BY <2>1, <2>2, <2>3, <2>4 DEF InPhase, Idle
<1> QED BY <1>1, Invariance, PTL

\* The confirm of a join request tells whether the device has joined.
THEOREM JoinsReported == ASSUME OrderlyUse PROVE Spec => JoinIsReported
<1> DEFINE A == \A i \in DOMAIN mac.queue :
                  mac.queue[i].Request = "JOIN" /\ ~IsQueued(mac'.queue, "JOIN") =>
                    (mac.queue[i].Status = "OK" <=> mac.joined)
<1>1. IInv /\ [Next]_mac => [A]_mac
  <2> SUFFICES ASSUME IInv, NEW i \in DOMAIN mac.queue, mac.queue[i].Request = "JOIN"
               PROVE  mac.queue[i].Status = "OK" <=> mac.joined
    OBVIOUS
  <2>1. IsQueued(mac.queue, "JOIN")
    BY DEF IsQueued
  <2>2. Len(mac.queue) = 1 /\ (mac.queue[1].Status = "OK" <=> mac.joined)
    BY <2>1 DEF IInv, Joins
  <2>3. mac.queue \in Seq(MlmeElement)
    BY DEF IInv, Macs
  <2>4. i = 1
    BY <2>2, <2>3
  <2> QED BY <2>2, <2>4
<1> QED BY <1>1, Invariance, PTL DEF Spec, JoinIsReported

-----------------------------------------------------------------------------
(* What a step may not do.                                                    *)

\* Only the state check takes the application's request back.
Pending(m) == "McpsReq" \in m.flags

\* The reception of a frame leaves the request pending.
LEMMA ReceptionKeepsPending ==
  ASSUME OrderlyUse, IInv, NEW f \in Frames, RxDone(f), Pending(mac)
  PROVE  Pending(mac')
<1>1. PICK n : /\ Heard(n) /\ n.joined = mac.joined /\ n.flags = mac.flags
               /\ n.class = "C" => f.kind = "data"
               /\ mac' =
                    CASE f.kind = "data"    -> FinishRxDone(ReceiveData(n, f))
                      [] f.kind = "proprietary" -> FinishRxDone(Mark(n, {"McpsInd"}))
                      [] f.kind = "unknown" -> FinishRxDone(PrepareRxDoneAbort(n))
                      [] f.kind = "repeated" ->
                           PrepareRxDoneAbort([n EXCEPT !.mcps.Status = "OK"])
                      [] f.kind = "abort" -> PrepareRxDoneAbort(n)
                      [] f.kind = "accept" ->
                           IF mac.joined THEN PrepareRxDoneAbort(n)
                                         ELSE FinishRxDone(AcceptJoin(n))
                      [] f.kind = "badAccept" ->
                           IF mac.joined THEN PrepareRxDoneAbort(n)
                                         ELSE FinishRxDone(RefuseJoin(n))
  BY Prelude DEF Kept, Fields
<1>2. n \in Macs /\ Pending(n) /\ n.class \in {"A", "C"}
  BY <1>1 DEF Heard, Pending, Macs
<1>3. ASSUME NEW m \in Macs, Pending(m) PROVE Pending(FinishRxDone(m))
  BY <1>3, ReceptionFinished DEF Pending
<1>4. ASSUME NEW m \in Macs, Pending(m), m.class = "A"
      PROVE  PrepareRxDoneAbort(m) \in Macs /\ Pending(PrepareRxDoneAbort(m))
  BY <1>4, ReceptionAborted DEF Pending
<1>5. n.joined
  BY <1>1, <1>2 DEF Heard, Pending
<1>6. CASE f.kind = "data"
  <2> DEFINE q  == IF f.answer THEN AnswerFirst(n.queue, "LINK_CHECK", "OK") ELSE n.queue
             k  == Acknowledged(n, f)
             h  == n.heardAck \/ f.ack
             m1 == [n EXCEPT !.mcps.Status = "OK", !.mcps.AckReceived = k, !.heardAck = h,
                             !.queue = q]
             new == {"McpsInd"} \cup (IF f.skip THEN {"McpsIndSkip"} ELSE {})
  <2>1. ReceiveData(n, f) = Mark(m1, new)
    BY DEF ReceiveData
  <2>2. /\ f.ack \in BOOLEAN /\ n.queue \in Seq(MlmeElement) /\ n.heardAck \in BOOLEAN
        /\ "OK" \in Results
    BY <1>2, <1>6 DEF Frames, Macs, Results
  <2>3. q \in Seq(MlmeElement) /\ k \in BOOLEAN /\ h \in BOOLEAN /\ new \in SUBSET FlagBits
    <3>1. AnswerFirst(n.queue, "LINK_CHECK", "OK") \in Seq(MlmeElement)
      BY <2>2, AnsweredFirst
    <3> QED BY <2>2, <3>1 DEF Acknowledged
  <2> HIDE DEF q, k, h, new
  <2>4. m1 \in Macs
    BY <1>2, <2>2, <2>3 DEF Macs
  <2>5. m1.flags = n.flags
    BY <1>2 DEF Macs
  <2> HIDE DEF m1
  <2>6. Mark(m1, new) \in Macs /\ Pending(Mark(m1, new))
    BY <1>2, <2>3, <2>4, <2>5, BaseTypes, BaseEffects DEF Pending
  <2> QED BY <1>1, <1>3, <1>6, <2>1, <2>6
<1>7. CASE f.kind = "proprietary"
  <2>1. Mark(n, {"McpsInd"}) \in Macs /\ Pending(Mark(n, {"McpsInd"}))
    BY <1>2, BaseTypes, BaseEffects DEF Pending
  <2> QED BY <1>1, <1>3, <1>7, <2>1
<1>8. CASE f.kind = "unknown"
  BY <1>1, <1>2, <1>3, <1>4, <1>8
<1>9. CASE f.kind = "repeated"
  <2> DEFINE m1 == [n EXCEPT !.mcps.Status = "OK"]
  <2>1. m1 \in Macs /\ m1.flags = n.flags /\ m1.class = n.class
    BY <1>2 DEF Macs, Results
  <2>2. n.class = "A" /\ mac' = PrepareRxDoneAbort(m1)
    BY <1>1, <1>2, <1>9
  <2> HIDE DEF m1
  <2> QED BY <1>2, <1>4, <2>1, <2>2 DEF Pending
<1>10. CASE f.kind \in {"abort", "accept", "badAccept"}
  <2>1. n.class = "A" /\ mac' = PrepareRxDoneAbort(n)
    BY <1>1, <1>2, <1>5, <1>10
  <2> QED BY <1>2, <1>4, <2>1
<1> QED BY <1>6, <1>7, <1>8, <1>9, <1>10 DEF Frames

\* So does a state check that does not find the procedure done.
LEMMA CheckKeepsPending ==
  ASSUME IInv, NEW out \in Outcomes, MacStateCheck(out), ~Done(mac)
  PROVE  /\ mac' = Indicate(mac)
         /\ Pending(mac) => Pending(mac')
         /\ OnAir(mac) => mac'.radio = "TX"
<1> DEFINE n  == TimerStop(mac, "MacStateCheck")
           m2 == IF "MacDone" \in n.flags THEN Finish(n, out) ELSE n
           m3 == IF m2.state = {} THEN Deliver(m2) ELSE TimerStart(m2, "MacStateCheck")
           u  == Unmark(mac, {"McpsInd", "McpsIndSkip"})
<1>1. mac \in Macs /\ "MacStateCheck" \in mac.timers /\ mac' = Indicate(m3)
  BY DEF IInv, MacStateCheck
<1>2. n.flags = mac.flags /\ n.state = mac.state
  <2>1. Kept(n, mac, {"timers"})
    BY <1>1, BaseEffects
  <2> HIDE DEF n
  <2> QED BY <2>1 DEF Kept, Fields
<1>3. mac.state # {}
  BY <1>1 DEF IInv, Phase, InPhase, Idle, Sensing, Delayed, Imminent, OnAir, Listening, Over
<1>4. TimerStart(n, "MacStateCheck") = mac
  BY <1>1, StopStart
<1> HIDE DEF n
<1>5. m3 = mac
  BY <1>2, <1>3, <1>4 DEF Done
<1> HIDE DEF m3
<1>6. u \in Macs /\ Kept(u, mac, {"flags"}) /\ u.flags = mac.flags \ {"McpsInd", "McpsIndSkip"}
  BY <1>1, BaseTypes, BaseEffects
<1>7. Indicate(mac) = IF "McpsInd" \notin mac.flags THEN mac
                      ELSE IF mac.class = "C" THEN OpenContinuousRx2Window(u) ELSE u
  BY DEF Indicate
<1> HIDE DEF u
<1>8. u.class = mac.class /\ u.radio = mac.radio
  BY <1>6 DEF Kept, Fields
<1>9. mac.class = "C" => /\ OpenContinuousRx2Window(u).flags = u.flags
                         /\ u.radio = "TX" => OpenContinuousRx2Window(u).radio = "TX"
  BY <1>6, <1>8, ContinuousWindowOpened DEF Kept, Fields, RadioIdle
<1> QED BY <1>1, <1>5, <1>6, <1>7, <1>8, <1>9 DEF Pending, OnAir

\* The radio is not put to sense the channel while it transmits.
THEOREM TransmissionsWhole == ASSUME OrderlyUse PROVE Spec => TransmissionNotCut
<1>1. IInv /\ [Next]_mac => [mac.radio = "TX" => mac'.radio # "CAD"]_mac
  <2> SUFFICES ASSUME IInv, Next, mac.radio = "TX" PROVE mac'.radio # "CAD"
    OBVIOUS
  <2>1. OnAir(mac) /\ ~Done(mac) /\ mac \in Macs
    BY DEF IInv, Phase, InPhase, Idle, Sensing, Delayed, Imminent, OnAir, Listening, Over, Resting
  <2>2. mac.state = {"TX_RUNNING"} /\ mac.timers = {"MacStateCheck", "TxTimeout"}
    BY <2>1 DEF OnAir
  <2>3. \/ \E out \in Outcomes : MacStateCheck(out)
        \/ TxDone \/ TxTimeout
    BY <2>2 DEF Next, Request, Timer, RadioEvent, McpsRequest, Join, LinkCheck, MlmeRequest,
         SwitchClass, TxDelayed, TxImmediate, RxWindow1, RxWindow2, AckTimeout, CadDone, RxDone,
         RxError, RxTimeout, Receiving
  <2>4. ASSUME NEW out \in Outcomes, MacStateCheck(out) PROVE mac'.radio = "TX"
    BY <2>1, <2>4, CheckKeepsPending
  <2>5. TxDone \/ TxTimeout => mac'.radio \in {"RXC", "SLEEP"}
    BY <2>1, TxDoneEffect, TxTimeoutEffect
  <2> QED BY <2>3, <2>4, <2>5
<1> QED BY <1>1, Invariance, PTL DEF Spec, TransmissionNotCut

\* No step but a state check confirms an uplink.
LEMMA OnlyCheckConfirms ==
  ASSUME OrderlyUse, IInv, Next, Pending(mac), ~Pending(mac')
  PROVE  \E out \in Outcomes : MacStateCheck(out)
<1>0. mac \in Macs
  BY DEF IInv
<1>1. ASSUME NEW out \in Outcomes, MacStateCheck(out)
      PROVE  \E o \in Outcomes : MacStateCheck(o)
  BY <1>1
<1>2. mac.state # {} /\ mac.joined
  BY DEF IInv, Uplink, Pending
<1>3. ASSUME NEW type \in Uplinks, NEW out \in Outcomes, McpsRequest(type, out) PROVE FALSE
  BY <1>3 DEF McpsRequest, OrderlyUse, Pending
<1>4. ASSUME NEW out \in Outcomes, Join(out) PROVE FALSE
  BY <1>2, <1>4 DEF Join, MlmeRequest
<1>5. ASSUME NEW fits \in BOOLEAN, LinkCheck(fits) PROVE FALSE
  BY <1>2, <1>5 DEF LinkCheck, MlmeRequest
<1>6. ASSUME NEW class \in Classes, SwitchClass(class) PROVE FALSE
  BY <1>2, <1>6 DEF SwitchClass, OrderlyUse
<1>7. ASSUME NEW out \in Outcomes, TxDelayed(out) PROVE FALSE
  <2> DEFINE s == SendDelayed(mac, out)
  <2>1. mac.ackCnt \in 1 .. mac.ackMax
    BY DEF IInv, Acks
  <2>2. Kept(s, mac, Restarted \cup {"state", "timers", "radio", "frame"})
    BY <1>0, <2>1, DelayedSent
  <2>3. mac' = s
    BY <1>7 DEF TxDelayed
  <2> HIDE DEF s
  <2> QED BY <2>2, <2>3 DEF Kept, Fields, Restarted, Pending
<1>8. CASE TxImmediate
  <2> DEFINE t == TimerStop(mac, "TxImmediate")
             s == SendFrameOnChannel(t)
  <2>1. t \in Macs /\ Kept(t, mac, {"timers"}) /\ mac' = s
    BY <1>0, <1>8, BaseTypes, BaseEffects DEF Timers, TxImmediate
  <2> HIDE DEF t
  <2>2. Kept(s, t, {"common", "queue", "mcps", "radio", "timers", "joinTrials",
                    "counterUsed", "sent", "state"})
    BY <2>1, FrameSent
  <2> HIDE DEF s
  <2> QED BY <2>1, <2>2 DEF Kept, Fields, Pending
<1>9. CASE RxWindow1
  BY <1>0, <1>9 DEF RxWindow1, Pending, Macs
<1>10. CASE RxWindow2
  BY <1>0, <1>10, SecondWindowOpened DEF RxWindow2, Pending, Kept, Fields
<1>11. CASE AckTimeout
  BY <1>0, <1>11, AckTimedOut DEF AckTimeout, Pending
<1>12. ASSUME NEW busy \in BOOLEAN, CadDone(busy) PROVE FALSE
  BY <1>0, <1>12, CadDoneEffect DEF Pending, Kept, Fields
<1>13. CASE TxDone
  BY <1>0, <1>13, TxDoneEffect DEF Pending, Kept, Fields
<1>14. CASE TxTimeout
  BY <1>0, <1>14, TxTimeoutEffect DEF Pending
<1>15. ASSUME NEW f \in Downlinks, RxDone(f) PROVE FALSE
  <2>1. f \in Frames
    BY ConfigurationAssumption
  <2> QED BY <1>15, <2>1, ReceptionKeepsPending
<1>16. ASSUME NEW late \in BOOLEAN, RxError(late) \/ RxTimeout(late) PROVE FALSE
  <2>1. mac' = EndWindow(mac, late)
    BY <1>16 DEF RxError, RxTimeout
  <2>2. mac.class \in {"A", "C"}
    BY <1>0 DEF Macs
  <2>3. EndWindow(mac, late).flags \in {mac.flags, mac.flags \cup {"MacDone"}}
    BY <1>0, <2>2, WindowEnded
  <2> QED BY <2>1, <2>3 DEF Pending
<1> QED BY <1>1, <1>3, <1>4, <1>5, <1>6, <1>7, <1>8, <1>9, <1>10, <1>11, <1>12, <1>13, <1>14,
           <1>15, <1>16 DEF Next, Request, Timer, RadioEvent

\* An uplink is confirmed only when its windows are over and nothing of it is
\* left to be sent.
THEOREM ConfirmsAwaitWindows == ASSUME OrderlyUse PROVE Spec => ConfirmedAfterWindows
<1> DEFINE After == /\ mac.radio \notin {"CAD", "TX", "RX"}
                    /\ mac.timers \cap {"RxWindow1", "RxWindow2", "TxDelayed"} = {}
<1>1. IInv /\ [Next]_mac => [McpsConfirmed => After]_mac
  <2> SUFFICES ASSUME IInv, Next, Pending(mac), ~Pending(mac') PROVE After
    BY DEF McpsConfirmed, Pending
  <2>1. PICK out \in Outcomes : MacStateCheck(out)
    BY OnlyCheckConfirms
  <2>2. Over(mac)
    BY <2>1, CheckKeepsPending DEF IInv, Phase
  <2> QED BY <2>2 DEF Over, Others, Resting
<1> QED BY <1>1, Invariance, PTL DEF Spec, ConfirmedAfterWindows

-----------------------------------------------------------------------------
(***************************************************************************)
(* Proofs about what the transmission procedure does to one uplink: how    *)
(* often it is sent, under which counter, and what its confirm tells.      *)
(*                                                                         *)
(* They need that the application asks for nothing but to join and to send, *)
(* as the one in this repository does.  After a link check request a join  *)
(* procedure is recognised in an uplink, and the counters start again.     *)
(***************************************************************************)

OnlyJoins == Commands \subseteq {"JOIN"}

\* The frame has its next transmission before it.
ToSend(m) == m.state \cap {"CAD_RUNNING", "TX_DELAYED"} # {} \/ "TxImmediate" \in m.timers

\* The queue holds a join request or nothing.  One that was accepted was not
\* preceded by a transmission time-out.
Alone(m) ==
  /\ m.queue = <<>> \/ IsQueued(m.queue, "JOIN")
  /\ "MlmeReq" \in m.flags => IsQueued(m.queue, "JOIN")
  /\ m.joined /\ IsQueued(m.queue, "JOIN") => ~TimedOut(m)

\* The transmissions of the present request, against the trials of a confirmed
\* uplink and the repetitions of an unconfirmed one.  nbRep counts those that
\* the radio reported: one that timed out is missing.
Tried(m) ==
  /\ m.joined /\ m.state = {} => m.nbRep < ChannelsNbRep
  /\ Pending(m) =>
       /\ m.nodeAck <=> m.mcps.Request = "CONFIRMED"
       /\ ToSend(m) \/ m.radio = "TX" \/ TimedOut(m) \/ m.nodeAck => m.nbRep < ChannelsNbRep
       /\ m.nodeAck => m.sent <= IF ToSend(m) THEN m.ackCnt - 1 ELSE m.ackCnt
       /\ ~m.nodeAck =>
            m.sent <= IF m.radio = "TX" \/ (m.mcps.Status = "TX_TIMEOUT" /\ ~ToSend(m))
                        THEN m.nbRep + 1 ELSE m.nbRep

\* The confirm knows of the ACK; a frame that was rejected orders a retry.
Heeded(m) ==
  /\ Pending(m) /\ m.nodeAck => /\ m.heardAck <=> m.mcps.AckReceived
                                /\ m.mcps.AckReceived => ~TimedOut(m)
  /\ "RX_ABORT" \in m.state /\ m.nodeAck => m.ackRetry

\* As long as the radio reports what it sends, an uplink is prepared with a
\* counter not used before.
Fresh(m) ==
  ~TxMayTimeOut =>
    /\ ~TimedOut(m)
    /\ Pending(m) => m.frame = "FRESH"
    /\ ~Pending(m) /\ m.state # {} => m.frame # "REUSED"
    /\ m.joined /\ m.state = {} => ~m.counterUsed

Counted(m) == Alone(m) /\ Tried(m) /\ Heeded(m) /\ Fresh(m)

UInv == IInv /\ Counted(mac)

-----------------------------------------------------------------------------
(* Steps that touch the uplink's counts at most in their place.              *)

USE DEF StateBits, FlagBits, MacTimers, RadioTimers

\* What such a step must keep.
SameUplink(r, m) ==
  /\ IsQueued(r.queue, "JOIN") <=> IsQueued(m.queue, "JOIN")
  /\ m.queue = <<>> => r.queue = <<>>
  /\ "MlmeReq" \in r.flags <=> "MlmeReq" \in m.flags
  /\ Pending(r) <=> Pending(m)
  /\ r.joined = m.joined /\ r.nbRep = m.nbRep /\ r.sent = m.sent /\ r.ackCnt = m.ackCnt
  /\ r.heardAck = m.heardAck /\ r.frame = m.frame /\ r.counterUsed = m.counterUsed
  /\ r.mcps.Request = m.mcps.Request /\ r.mcps.AckReceived = m.mcps.AckReceived
  /\ Pending(m) => r.nodeAck = m.nodeAck

\* A step that keeps all of that, leaves the frame where it is between its
\* transmissions and brings no time-out, keeps the counts.
LEMMA Carried ==
  ASSUME NEW m, NEW r, Counted(m), SameUplink(r, m),
         r.state = {} <=> m.state = {},
         "RX_ABORT" \in r.state /\ r.nodeAck => r.ackRetry,
         TimedOut(r) => TimedOut(m),
         Pending(m) /\ ~m.nodeAck => r.mcps.Status = m.mcps.Status,
         Pending(m) => /\ ToSend(r) <=> ToSend(m)
                       /\ r.radio = "TX" <=> m.radio = "TX"
  PROVE  Counted(r)
<1>1. Alone(r)
  BY DEF Counted, Alone, SameUplink
<1>2. Tried(r)
  BY DEF Counted, Tried, SameUplink
<1>3. Heeded(r)
  BY DEF Counted, Heeded, SameUplink
<1>4. Fresh(r)
  BY DEF Counted, Fresh, SameUplink
<1> QED BY <1>1, <1>2, <1>3, <1>4 DEF Counted

\* Only these fields matter to SameUplink.
LEMMA FieldsSame ==
  ASSUME NEW m, NEW r,
         Kept(r, m, {"class", "state", "timers", "radio", "rxSlot", "ackRetry", "ackMax",
                     "joinTrials", "joinMax", "cadCnt", "mlmeRequest", "common", "flags"}),
         "McpsReq" \in r.flags <=> "McpsReq" \in m.flags,
         "MlmeReq" \in r.flags <=> "MlmeReq" \in m.flags
  PROVE  SameUplink(r, m) /\ r.mcps = m.mcps /\ r.nodeAck = m.nodeAck
BY DEF Kept, Fields, SameUplink, Pending

\* The channel was sensed: the frame is still to be sent.
LEMMA CadDoneCounts ==
  ASSUME UInv, NEW busy \in BOOLEAN, CadDone(busy)
  PROVE  Counted(mac')
<1>1. /\ Kept(mac', mac, {"state", "timers", "radio", "cadCnt"})
      /\ mac'.radio = "SLEEP"
      /\ \/ /\ mac'.state = (mac.state \ {"CAD_RUNNING"}) \cup {"TX_DELAYED"}
            /\ mac'.timers = (mac.timers \ {"CadTimeout"}) \cup {"TxDelayed"}
         \/ /\ mac'.state = (mac.state \ {"CAD_RUNNING"}) \cup {"TX_RUNNING"}
            /\ mac'.timers = (mac.timers \ {"CadTimeout"}) \cup {"TxImmediate"}
  BY CadDoneEffect DEF UInv, IInv, Sound
<1>2. Sensing(mac)
  BY DEF CadDone, UInv, IInv, Sound, Phase, InPhase, Idle, Delayed, Imminent, OnAir, Listening,
     Over, Others, Resting, Windows
<1>3. mac'.common = mac.common /\ mac'.flags = mac.flags /\ mac'.ackRetry = mac.ackRetry
  BY <1>1 DEF Kept, Fields
<1>4. SameUplink(mac', mac) /\ mac'.mcps = mac.mcps /\ mac'.nodeAck = mac.nodeAck
  <2>1. Kept(mac', mac, {"class", "state", "timers", "radio", "rxSlot", "ackRetry", "ackMax",
                     "joinTrials", "joinMax", "cadCnt", "mlmeRequest", "common", "flags"})
    BY <1>1 DEF Kept
  <2> QED BY <1>3, <2>1, FieldsSame
<1>5. /\ ToSend(mac) /\ ToSend(mac') /\ mac.radio # "TX" /\ mac'.radio # "TX"
      /\ mac.state # {} /\ mac'.state # {} /\ "RX_ABORT" \notin mac'.state
  BY <1>1, <1>2 DEF Sensing, ToSend
<1>6. TimedOut(mac') <=> TimedOut(mac)
  BY <1>3, <1>4 DEF TimedOut
<1> QED BY <1>4, <1>5, <1>6, Carried DEF UInv

\* The first window opens after the transmission.
LEMMA RxWindow1Counts ==
  ASSUME UInv, RxWindow1
  PROVE  Counted(mac')
<1>1. /\ Kept(mac', mac, {"timers", "rxSlot", "radio"})
      /\ mac'.radio = "RX" /\ mac'.timers = (mac.timers \ {"RxWindow1"}) \cup {"RxTimeout"}
  BY DEF RxWindow1, UInv, IInv, Sound, Macs, Kept, Fields
<1>2. mac.radio # "TX"
  BY DEF RxWindow1, UInv, IInv, Sound, Phase, InPhase, Idle, Sensing, Delayed, Imminent, OnAir,
     Listening, Over, Others, Resting
<1>3. /\ mac'.common = mac.common /\ mac'.flags = mac.flags /\ mac'.ackRetry = mac.ackRetry
      /\ mac'.state = mac.state
  BY <1>1 DEF Kept, Fields
<1>4. SameUplink(mac', mac) /\ mac'.mcps = mac.mcps /\ mac'.nodeAck = mac.nodeAck
  <2>1. Kept(mac', mac, {"class", "state", "timers", "radio", "rxSlot", "ackRetry", "ackMax",
                     "joinTrials", "joinMax", "cadCnt", "mlmeRequest", "common", "flags"})
    BY <1>1 DEF Kept
  <2> QED BY <1>3, <2>1, FieldsSame
<1>5. (TimedOut(mac') <=> TimedOut(mac)) /\ (ToSend(mac') <=> ToSend(mac))
  BY <1>1, <1>3, <1>4 DEF TimedOut, ToSend
<1>6. "RX_ABORT" \in mac'.state /\ mac'.nodeAck => mac'.ackRetry
  BY <1>3, <1>4 DEF UInv, Counted, Heeded
<1> QED BY <1>1, <1>2, <1>3, <1>4, <1>5, <1>6, Carried DEF UInv

\* So does the second.
LEMMA RxWindow2Counts ==
  ASSUME UInv, RxWindow2
  PROVE  Counted(mac')
<1>0. mac \in Macs /\ mac' = OpenRx2(mac)
  BY DEF RxWindow2, UInv, IInv, Sound
<1>1. /\ Kept(mac', mac, {"timers", "rxSlot", "radio"})
      /\ mac'.timers \in {mac.timers \ {"RxWindow2"}, (mac.timers \ {"RxWindow2"}) \cup {"RxTimeout"}}
      /\ mac'.radio \in {mac.radio, "RXC", "RX"}
  <2>1. mac.class \in {"A", "C"}
    BY <1>0 DEF Macs
  <2> QED BY <1>0, <2>1, SecondWindowOpened
<1>2. mac.radio # "TX"
  BY DEF RxWindow2, UInv, IInv, Sound, Phase, InPhase, Idle, Sensing, Delayed, Imminent, OnAir,
     Listening, Over, Others, Resting
<1>3. /\ mac'.common = mac.common /\ mac'.flags = mac.flags /\ mac'.ackRetry = mac.ackRetry
      /\ mac'.state = mac.state
  BY <1>1 DEF Kept, Fields
<1>4. SameUplink(mac', mac) /\ mac'.mcps = mac.mcps /\ mac'.nodeAck = mac.nodeAck
  <2>1. Kept(mac', mac, {"class", "state", "timers", "radio", "rxSlot", "ackRetry", "ackMax",
                     "joinTrials", "joinMax", "cadCnt", "mlmeRequest", "common", "flags"})
    BY <1>1 DEF Kept
  <2> QED BY <1>3, <2>1, FieldsSame
<1>5. (TimedOut(mac') <=> TimedOut(mac)) /\ (ToSend(mac') <=> ToSend(mac))
  BY <1>1, <1>3, <1>4 DEF TimedOut, ToSend
<1>6. "RX_ABORT" \in mac'.state /\ mac'.nodeAck => mac'.ackRetry
  BY <1>3, <1>4 DEF UInv, Counted, Heeded
<1> QED BY <1>1, <1>2, <1>3, <1>4, <1>5, <1>6, Carried DEF UInv

\* The wait for the ACK ends: a retry may be ordered, and is not sent yet.
LEMMA AckTimeoutCounts ==
  ASSUME UInv, AckTimeout
  PROVE  Counted(mac')
<1>0. mac \in Macs /\ mac' = OnAckTimeout(mac)
  BY DEF AckTimeout, UInv, IInv, Sound
<1>1. /\ Kept(mac', mac, {"timers", "ackRetry", "flags"})
      /\ mac'.timers = mac.timers \ {"AckTimeout"} /\ mac'.ackRetry = (mac.ackRetry \/ mac.nodeAck)
      /\ mac'.flags \in {mac.flags, mac.flags \cup {"MacDone"}}
  BY <1>0, AckTimedOut
<1>3. mac'.common = mac.common /\ mac'.state = mac.state /\ mac'.radio = mac.radio
  BY <1>1 DEF Kept, Fields
<1>4. SameUplink(mac', mac) /\ mac'.mcps = mac.mcps /\ mac'.nodeAck = mac.nodeAck
  <2>1. Kept(mac', mac, {"class", "state", "timers", "radio", "rxSlot", "ackRetry", "ackMax",
                     "joinTrials", "joinMax", "cadCnt", "mlmeRequest", "common", "flags"})
    BY <1>1 DEF Kept
  <2> QED BY <1>1, <2>1, FieldsSame
<1>5. (TimedOut(mac') <=> TimedOut(mac)) /\ (ToSend(mac') <=> ToSend(mac))
  BY <1>1, <1>3, <1>4 DEF TimedOut, ToSend
<1>6. "RX_ABORT" \in mac'.state /\ mac'.nodeAck => mac'.ackRetry
  BY <1>1, <1>4
<1> QED BY <1>3, <1>4, <1>5, <1>6, Carried DEF UInv

\* A window ends without a frame: what the confirm tells of an ACK stays.
LEMMA EndWindowCounts ==
  ASSUME UInv, NEW late \in BOOLEAN, RxError(late) \/ RxTimeout(late)
  PROVE  Counted(mac')
<1>0. mac \in Macs /\ mac' = EndWindow(mac, late) /\ mac.class \in {"A", "C"}
  BY DEF RxError, RxTimeout, UInv, IInv, Sound, Macs
<1> DEFINE r == EndWindow(mac, late)
<1>1. /\ Kept(r, mac, {"timers", "radio", "rxSlot", "mcps", "common", "queue", "flags"})
      /\ r.mcps.AckReceived = mac.mcps.AckReceived
      /\ r.mcps.Request = mac.mcps.Request
      /\ r.mcps.Status \in {mac.mcps.Status, "RX_FAIL"}
      /\ mac.nodeAck \/ r.mcps.Status = mac.mcps.Status
      /\ r.common = "RX_FAIL" /\ r.queue = AnswerAll(mac.queue, "RX_FAIL")
      /\ r.timers \in {mac.timers \ {"RxTimeout"}, mac.timers \ {"RxTimeout", "RxWindow2"}}
      /\ r.radio \in {"RXC", "SLEEP"} /\ r.flags \in {mac.flags, mac.flags \cup {"MacDone"}}
  BY <1>0, WindowEnded
<1> HIDE DEF r
<1>2. mac.radio # "TX"
  BY DEF RxError, RxTimeout, Receiving, UInv, IInv, Sound, Phase, InPhase, Idle, Sensing, Delayed,
     Imminent, OnAir, Listening, Over, Others, Resting
<1>3. /\ r.joined = mac.joined /\ r.nbRep = mac.nbRep /\ r.sent = mac.sent /\ r.ackCnt = mac.ackCnt
      /\ r.heardAck = mac.heardAck /\ r.frame = mac.frame /\ r.counterUsed = mac.counterUsed
      /\ r.nodeAck = mac.nodeAck /\ r.state = mac.state /\ r.ackRetry = mac.ackRetry
  BY <1>1 DEF Kept, Fields
<1>4. /\ IsQueued(r.queue, "JOIN") <=> IsQueued(mac.queue, "JOIN")
      /\ mac.queue = <<>> => r.queue = <<>>
  BY <1>0, <1>1, QueueAnswered DEF UInv, IInv, Sound, Results
<1>5. SameUplink(r, mac)
  BY <1>1, <1>3, <1>4 DEF SameUplink, Pending
<1>6. (TimedOut(r) => TimedOut(mac)) /\ (ToSend(r) <=> ToSend(mac))
  BY <1>1, <1>3 DEF TimedOut, ToSend
<1>7. "RX_ABORT" \in r.state /\ r.nodeAck => r.ackRetry
  BY <1>3 DEF UInv, Counted, Heeded
<1>8. Counted(r)
  BY <1>1, <1>2, <1>3, <1>5, <1>6, <1>7, Carried DEF UInv
<1> QED BY <1>0, <1>8 DEF r

\* The frame goes on the air: one transmission more, within the trials left.
LEMMA TxImmediateCounts ==
  ASSUME UInv, TxImmediate
  PROVE  Counted(mac')
<1> DEFINE m == TimerStop(mac, "TxImmediate")
           r == SendFrameOnChannel(m)
<1>0. mac \in Macs /\ mac' = r /\ Counted(mac) /\ Queue(mac)
  BY DEF TxImmediate, UInv, IInv, Sound
<1>1. Imminent(mac) /\ "TxImmediate" \in mac.timers /\ mac.radio # "TX"
  BY DEF TxImmediate, UInv, IInv, Sound, Phase, InPhase, Idle, Sensing, Delayed, Imminent, OnAir,
     Listening, Over, Others, Resting, Windows
<1>2. m \in Macs /\ Kept(m, mac, {"timers"}) /\ m.timers = mac.timers \ {"TxImmediate"}
  BY <1>0, BaseTypes, BaseEffects DEF Timers
<1>3. /\ r \in Macs
      /\ Kept(r, m, {"common", "queue", "mcps", "radio", "timers", "joinTrials",
                     "counterUsed", "sent", "state"})
      /\ r.common = "ERROR" /\ r.queue = AnswerAll(m.queue, "ERROR")
      /\ r.mcps.Status = "ERROR" /\ r.mcps.AckReceived = m.mcps.AckReceived
      /\ r.mcps.Request = m.mcps.Request /\ r.sent <= m.sent + 1
      /\ r.radio = "TX" /\ r.timers = m.timers \cup {"MacStateCheck", "TxTimeout"}
      /\ r.state = m.state \cup {"TX_RUNNING"}
  BY <1>2, FrameSent
<1> HIDE DEF m, r
<1>4. /\ r.flags = mac.flags /\ r.joined = mac.joined /\ r.nodeAck = mac.nodeAck
      /\ r.ackRetry = mac.ackRetry /\ r.ackCnt = mac.ackCnt /\ r.nbRep = mac.nbRep
      /\ r.frame = mac.frame /\ r.heardAck = mac.heardAck
      /\ m.queue = mac.queue /\ m.sent = mac.sent /\ m.mcps = mac.mcps /\ m.state = mac.state
  BY <1>2, <1>3 DEF Kept, Fields
<1>5. /\ IsQueued(r.queue, "JOIN") <=> IsQueued(mac.queue, "JOIN")
      /\ mac.queue = <<>> => r.queue = <<>>
  BY <1>0, <1>3, <1>4, QueueAnswered DEF Results
<1>6. /\ ToSend(mac) /\ ~ToSend(r) /\ ~TimedOut(r) /\ r.state = {"TX_RUNNING"}
      /\ mac.state = {"TX_RUNNING"}
  BY <1>1, <1>2, <1>3, <1>4 DEF Imminent, Others, ToSend, TimedOut
<1>7. Alone(r)
  BY <1>0, <1>4, <1>5, <1>6 DEF Counted, Alone
<1>8. Tried(r)
  <2>1. /\ mac.sent \in Nat /\ mac.ackCnt \in Nat /\ mac.nbRep \in Nat /\ r.sent \in Nat
        /\ mac.nodeAck \in BOOLEAN
    BY <1>0, <1>3, BoundsAssumption DEF Macs
  <2>2. r.joined /\ r.state = {} => r.nbRep < ChannelsNbRep
    BY <1>6
  <2>3. ASSUME Pending(r)
        PROVE  /\ r.nodeAck <=> r.mcps.Request = "CONFIRMED"
               /\ r.nbRep < ChannelsNbRep
               /\ r.nodeAck => r.sent <= r.ackCnt
               /\ ~r.nodeAck => r.sent <= r.nbRep + 1
    <3>1. Pending(mac)
      BY <1>4, <2>3 DEF Pending
    <3>2. /\ mac.nodeAck <=> mac.mcps.Request = "CONFIRMED"
          /\ mac.nbRep < ChannelsNbRep
          /\ mac.nodeAck => mac.sent <= mac.ackCnt - 1
          /\ ~mac.nodeAck => mac.sent <= mac.nbRep
      BY <1>0, <1>1, <1>6, <3>1 DEF Counted, Tried
    <3> QED BY <1>3, <1>4, <2>1, <3>2
  <2> QED BY <1>3, <1>6, <2>2, <2>3 DEF Tried
<1>9. Heeded(r)
  BY <1>0, <1>3, <1>4, <1>6 DEF Counted, Heeded, Pending
<1>10. Fresh(r)
  BY <1>0, <1>4, <1>6 DEF Counted, Fresh, Pending
<1> QED BY <1>0, <1>7, <1>8, <1>9, <1>10 DEF Counted, r

\* The radio reports the transmission, and an unconfirmed uplink counts it.
LEMMA TxDoneCounts ==
  ASSUME UInv, TxDone
  PROVE  Counted(mac')
<1>0. mac \in Macs /\ Counted(mac)
  BY DEF UInv, IInv, Sound
<1>1. OnAir(mac) /\ Acks(mac) /\ mac.radio = "TX"
  BY DEF TxDone, UInv, IInv, Sound, Phase, InPhase, Idle, Sensing, Delayed, Imminent, OnAir,
     Listening, Over, Others, Resting, Windows
<1>2. /\ Kept(mac', mac, {"timers", "radio", "rxSlot", "mcps", "nbRep"})
      /\ mac'.timers \subseteq mac.timers \cup {"RxWindow1", "RxWindow2", "AckTimeout"}
      /\ mac'.radio \in {"RXC", "SLEEP"}
      /\ mac'.mcps.AckReceived = mac.mcps.AckReceived
      /\ mac'.mcps.Status \in {mac.mcps.Status, "OK"}
      /\ mac'.mcps.Request = mac.mcps.Request
      /\ mac'.nbRep = IF mac.nodeAck THEN mac.nbRep ELSE Least(mac.nbRep + 1, ChannelsNbRep)
  BY <1>0, TxDoneEffect
<1>3. /\ mac'.flags = mac.flags /\ mac'.joined = mac.joined /\ mac'.nodeAck = mac.nodeAck
      /\ mac'.ackRetry = mac.ackRetry /\ mac'.ackCnt = mac.ackCnt /\ mac'.sent = mac.sent
      /\ mac'.frame = mac.frame /\ mac'.heardAck = mac.heardAck /\ mac'.queue = mac.queue
      /\ mac'.state = mac.state /\ mac'.common = mac.common
  BY <1>2 DEF Kept, Fields
<1>4. /\ ~ToSend(mac) /\ ~ToSend(mac') /\ ~TimedOut(mac) /\ ~TimedOut(mac')
      /\ mac.state = {"TX_RUNNING"}
  BY <1>1, <1>2, <1>3 DEF OnAir, Acks, ToSend, TimedOut
<1>5. Alone(mac')
  BY <1>0, <1>3, <1>4 DEF Counted, Alone
<1>6. Tried(mac')
  <2>1. mac.sent \in Nat /\ mac.nbRep \in Nat /\ mac.nodeAck \in BOOLEAN /\ ChannelsNbRep \in Nat
    BY <1>0, BoundsAssumption DEF Macs
  <2>2. ASSUME Pending(mac')
        PROVE  /\ mac'.nodeAck <=> mac'.mcps.Request = "CONFIRMED"
               /\ mac'.nodeAck => mac'.nbRep < ChannelsNbRep /\ mac'.sent <= mac'.ackCnt
               /\ ~mac'.nodeAck => mac'.sent <= mac'.nbRep
    <3>1. Pending(mac)
      BY <1>3, <2>2 DEF Pending
    <3>2. /\ mac.nodeAck <=> mac.mcps.Request = "CONFIRMED"
          /\ mac.nbRep < ChannelsNbRep
          /\ mac.nodeAck => mac.sent <= mac.ackCnt
          /\ ~mac.nodeAck => mac.sent <= mac.nbRep + 1
      BY <1>0, <1>1, <1>4, <3>1 DEF Counted, Tried
    <3> QED BY <1>2, <1>3, <2>1, <3>2 DEF Least
  <2>3. ~(mac'.joined /\ mac'.state = {}) /\ mac'.radio # "TX"
    BY <1>2, <1>3, <1>4
  <2>4. ~(mac'.mcps.Status = "TX_TIMEOUT")
    BY <1>4 DEF TimedOut
  <2> QED BY <1>4, <2>2, <2>3, <2>4 DEF Tried
<1>7. Heeded(mac')
  BY <1>0, <1>2, <1>3, <1>4 DEF Counted, Heeded, Pending
<1>8. Fresh(mac')
  BY <1>0, <1>3, <1>4 DEF Counted, Fresh, Pending
<1> QED BY <1>5, <1>6, <1>7, <1>8 DEF Counted

\* The radio's own time-out: an unconfirmed uplink misses that transmission.
LEMMA TxTimeoutCounts ==
  ASSUME UInv, TxTimeout
  PROVE  Counted(mac')
<1>0. mac \in Macs /\ Counted(mac) /\ Queue(mac)
  BY DEF UInv, IInv, Sound
<1>1. /\ OnAir(mac) /\ Acks(mac) /\ mac.radio = "TX" /\ TxMayTimeOut
      /\ ~(mac.joined /\ IsQueued(mac.queue, "JOIN"))
      /\ ~(mac.nodeAck /\ mac.mcps.AckReceived)
  BY DEF TxTimeout, UInv, IInv, Sound, Phase, InPhase, Idle, Sensing, Delayed, Imminent, OnAir,
     Listening, Over, Others, Resting, Windows, Joins, Acks
<1>2. /\ Kept(mac', mac, {"timers", "radio", "rxSlot", "mcps", "common", "queue", "flags"})
      /\ mac'.timers \subseteq mac.timers
      /\ mac'.radio \in {"RXC", "SLEEP"}
      /\ mac'.mcps.AckReceived = mac.mcps.AckReceived
      /\ mac'.mcps.Request = mac.mcps.Request /\ mac'.mcps.Status = "TX_TIMEOUT"
      /\ mac'.queue = AnswerAll(mac.queue, "TX_TIMEOUT")
      /\ mac'.flags = mac.flags \cup {"MacDone"}
  BY <1>0, TxTimeoutEffect
<1>3. /\ mac'.joined = mac.joined /\ mac'.nodeAck = mac.nodeAck
      /\ mac'.ackRetry = mac.ackRetry /\ mac'.ackCnt = mac.ackCnt /\ mac'.sent = mac.sent
      /\ mac'.frame = mac.frame /\ mac'.heardAck = mac.heardAck
      /\ mac'.state = mac.state /\ mac'.nbRep = mac.nbRep
  BY <1>2 DEF Kept, Fields
<1>4. ~ToSend(mac) /\ ~ToSend(mac') /\ mac.state = {"TX_RUNNING"}
  BY <1>1, <1>2, <1>3 DEF OnAir, ToSend
<1>5. /\ IsQueued(mac'.queue, "JOIN") <=> IsQueued(mac.queue, "JOIN")
      /\ mac.queue = <<>> => mac'.queue = <<>>
  BY <1>0, <1>2, QueueAnswered DEF Results
<1>6. Alone(mac')
  BY <1>0, <1>1, <1>2, <1>3, <1>5 DEF Counted, Alone
<1>7. Tried(mac')
  BY <1>0, <1>1, <1>2, <1>3, <1>4 DEF Counted, Tried, Pending
<1>8. Heeded(mac')
  BY <1>0, <1>1, <1>2, <1>3, <1>4 DEF Counted, Heeded, Pending
<1>9. Fresh(mac')
  BY <1>1 DEF Fresh
<1> QED BY <1>6, <1>7, <1>8, <1>9 DEF Counted

-----------------------------------------------------------------------------
(* A frame that waited is sent again to its channel.                         *)

\* SendDelayed leaves an uplink as it is, and prepares a join request anew.
LEMMA DelayedKind ==
  ASSUME NEW m \in Macs, NEW out \in Outcomes
  PROVE  LET r == SendDelayed(m, out) IN
         /\ ~JoinProcedure(m) => Kept(r, m, {"state", "timers", "radio"})
         /\ JoinProcedure(m) => r.frame = "JOIN"
<1> DEFINE m1 == Clear(TimerStop(m, "TxDelayed"), {"TX_DELAYED"})
           m2 == IF JoinProcedure(m1) THEN [ResetMacParameters(m1) EXCEPT !.frame = "JOIN"] ELSE m1
           r  == ScheduleTx(m2, out)
<1>1. m1 \in Macs /\ Kept(m1, m, {"state", "timers"})
  BY DEF Clear, TimerStop, Macs, Kept, Fields
<1>2. SendDelayed(m, out) = r
  BY DEF SendDelayed
<1> HIDE DEF m1
<1>3. JoinProcedure(m1) <=> JoinProcedure(m)
  BY <1>1 DEF JoinProcedure, Kept, Fields
<1>4. CASE ~JoinProcedure(m)
  <2>1. m2 = m1
    BY <1>3, <1>4
  <2>2. Kept(r, m2, {"state", "timers", "radio"})
    BY <1>1, <2>1, Scheduled
  <2>3. Kept(r, m, {"state", "timers", "radio"})
    BY <1>1, <2>1, <2>2 DEF Kept
  <2> QED BY <1>2, <1>4, <2>3
<1>5. CASE JoinProcedure(m)
  <2> DEFINE n == ResetMacParameters(m1)
  <2>1. n \in Macs
    BY <1>1, ParametersReset
  <2>2. m2 = [n EXCEPT !.frame = "JOIN"]
    BY <1>3, <1>5
  <2> HIDE DEF n, m2
  <2>3. m2 \in Macs /\ m2.frame = "JOIN"
    <3>1. m2 \in Macs
      <4> HIDE DEF StateBits, FlagBits, MacTimers, RadioTimers
      <4> QED BY <2>1, <2>2, ZenonT(30) DEF Macs
    <3>2. m2.frame = "JOIN"
      BY <2>1, <2>2 DEF Macs
    <3> QED BY <3>1, <3>2
  <2>4. Kept(r, m2, {"state", "timers", "radio"})
    BY <2>3, Scheduled
  <2>5. r.frame = "JOIN"
    BY <2>3, <2>4 DEF Kept, Fields
  <2> QED BY <1>2, <1>5, <2>5
<1> QED BY <1>4, <1>5

\* A join request is sent again only when no uplink is pending.
LEMMA TxDelayedCounts ==
  ASSUME UInv, OrderlyUse, NEW out \in Outcomes, TxDelayed(out)
  PROVE  Counted(mac')
<1>0. mac \in Macs /\ Counted(mac) /\ Uplink(mac) /\ Joins(mac)
  BY DEF UInv, IInv, Sound
<1>1. Delayed(mac) /\ mac.radio # "TX"
  BY DEF TxDelayed, UInv, IInv, Sound, Phase, InPhase, Idle, Sensing, Delayed, Imminent, OnAir,
     Listening, Over, Others, Resting, Windows
<1>2. out \in {"CAD", "DELAY"}
  BY DEF TxDelayed, DataRateMayChange, OrderlyUse, Outcomes, UInv, IInv, Sound, Phase
<1>3. mac' = SendDelayed(mac, out) /\ mac.ackCnt \in 1 .. mac.ackMax
  BY DEF TxDelayed, UInv, IInv, Sound, Acks
<1>4. /\ Kept(mac', mac, Restarted \cup {"state", "timers", "radio", "frame"})
      /\ out = "CAD" => /\ mac'.state = (mac.state \ {"TX_DELAYED"}) \cup {"CAD_RUNNING"}
                        /\ mac'.timers = (mac.timers \ {"TxDelayed"}) \cup {"CadTimeout"}
                        /\ mac'.radio = "CAD"
      /\ out = "DELAY" => /\ mac'.state = mac.state \cup {"TX_DELAYED"}
                          /\ mac'.timers = mac.timers \cup {"TxDelayed"}
                          /\ mac'.radio = mac.radio
  BY <1>0, <1>3, DelayedSent
<1>5. /\ ~JoinProcedure(mac) => Kept(mac', mac, {"state", "timers", "radio"})
      /\ JoinProcedure(mac) => mac'.frame = "JOIN"
  BY <1>0, <1>3, DelayedKind
<1>6. /\ ToSend(mac) /\ ToSend(mac') /\ mac.radio # "TX" /\ mac'.radio # "TX"
      /\ mac.state # {} /\ mac'.state # {} /\ "RX_ABORT" \notin mac'.state
  BY <1>1, <1>2, <1>4 DEF Delayed, Resting, ToSend
<1>7. /\ mac'.mcps = mac.mcps /\ mac'.common = mac.common /\ mac'.flags = mac.flags
      /\ mac'.queue = mac.queue /\ mac'.joined = mac.joined
  BY <1>4 DEF Kept, Fields, Restarted
<1>8. TimedOut(mac') <=> TimedOut(mac)
  BY <1>7 DEF TimedOut
<1>9. CASE ~JoinProcedure(mac)
  <2>1. mac'.ackRetry = mac.ackRetry
    BY <1>5, <1>9 DEF Kept, Fields
  <2>2. Kept(mac', mac, {"class", "state", "timers", "radio", "rxSlot", "ackRetry", "ackMax",
                     "joinTrials", "joinMax", "cadCnt", "mlmeRequest", "common", "flags"})
    BY <1>5, <1>9 DEF Kept
  <2>3. SameUplink(mac', mac) /\ mac'.nodeAck = mac.nodeAck
    BY <1>7, <2>2, FieldsSame
  <2> QED BY <1>0, <1>6, <1>7, <1>8, <2>3, Carried
<1>10. CASE JoinProcedure(mac)
  <2>1. ~Pending(mac')
    BY <1>0, <1>7, <1>10 DEF JoinProcedure, Counted, Alone, Joins, Pending
  <2>2. Alone(mac') /\ Tried(mac') /\ Heeded(mac') /\ Fresh(mac')
    BY <1>0, <1>5, <1>6, <1>7, <1>8, <1>10, <2>1 DEF Counted, Alone, Tried, Heeded, Fresh
  <2> QED BY <2>2 DEF Counted
<1> QED BY <1>9, <1>10

-----------------------------------------------------------------------------
(* The reception of a frame.                                                 *)

\* What a received frame makes of an uplink whose windows are open: nothing but
\* that its ACK is heard and told.
AfterFrame(r, n) ==
  /\ r \in Macs
  /\ Kept(r, n, {"state", "timers", "flags", "ackRetry", "mcps", "heardAck", "queue", "joined",
                 "counterUsed"})
  /\ r.state \in {{"TX_RUNNING"}, {"TX_RUNNING", "RX_ABORT"}}
  /\ r.timers \subseteq {"MacStateCheck", "AckTimeout"}
  /\ "McpsReq" \in r.flags <=> "McpsReq" \in n.flags
  /\ "MlmeReq" \in r.flags <=> "MlmeReq" \in n.flags
  /\ IsQueued(r.queue, "JOIN") <=> IsQueued(n.queue, "JOIN")
  /\ n.queue = <<>> => r.queue = <<>>
  /\ r.mcps.Request = n.mcps.Request /\ ~TimedOut(r)
  /\ "RX_ABORT" \in r.state /\ r.nodeAck => r.ackRetry
  /\ ~n.heardAck => (r.heardAck <=> r.mcps.AckReceived)

\* The end of OnRadioRxDone, of a frame handled or rejected.
LEMMA FinishAfter ==
  ASSUME NEW n, NEW m, AfterFrame(m, n)
  PROVE  AfterFrame(FinishRxDone(m), n)
<1> DEFINE r == FinishRxDone(m)
<1>1. /\ r \in Macs /\ Kept(r, m, {"timers", "flags"})
      /\ r.timers \subseteq m.timers \cup {"MacStateCheck"}
      /\ r.flags \in {m.flags, m.flags \cup {"MacDone"}}
  BY ReceptionFinished DEF AfterFrame
<1> HIDE DEF r
<1>2. Kept(r, n, {"state", "timers", "flags", "ackRetry", "mcps", "heardAck", "queue", "joined",
                  "counterUsed"})
  BY <1>1 DEF AfterFrame, Kept
<1>3. /\ r.state = m.state /\ r.ackRetry = m.ackRetry /\ r.nodeAck = m.nodeAck /\ r.mcps = m.mcps
      /\ r.heardAck = m.heardAck /\ r.queue = m.queue /\ r.common = m.common
  BY <1>1 DEF Kept, Fields
<1>4. r.timers \subseteq {"MacStateCheck", "AckTimeout"}
  BY <1>1 DEF AfterFrame
<1>5. /\ "McpsReq" \in r.flags <=> "McpsReq" \in n.flags
      /\ "MlmeReq" \in r.flags <=> "MlmeReq" \in n.flags
  BY <1>1 DEF AfterFrame
<1>6. AfterFrame(r, n)
  BY <1>1, <1>2, <1>3, <1>4, <1>5 DEF AfterFrame, TimedOut
<1> QED BY <1>6 DEF r

\* A rejected frame of a confirmed uplink orders its retry.
LEMMA AbortAfter ==
  ASSUME NEW n, NEW m, m.class = "A", AfterFrame(m, n)
  PROVE  AfterFrame(PrepareRxDoneAbort(m), n)
<1> DEFINE r == PrepareRxDoneAbort(m)
<1>1. /\ r \in Macs /\ Kept(r, m, {"state", "timers", "flags", "ackRetry"})
      /\ r.state = m.state \cup {"RX_ABORT"}
      /\ r.timers \subseteq m.timers \cup {"MacStateCheck"}
      /\ r.flags = m.flags \cup {"McpsInd", "MacDone"}
      /\ r.ackRetry = (m.ackRetry \/ m.nodeAck)
  BY ReceptionAborted DEF AfterFrame
<1> HIDE DEF r
<1>2. Kept(r, n, {"state", "timers", "flags", "ackRetry", "mcps", "heardAck", "queue", "joined",
                  "counterUsed"})
  BY <1>1 DEF AfterFrame, Kept
<1>3. /\ r.nodeAck = m.nodeAck /\ r.mcps = m.mcps
      /\ r.heardAck = m.heardAck /\ r.queue = m.queue /\ r.common = m.common
  BY <1>1 DEF Kept, Fields
<1>4. /\ r.timers \subseteq {"MacStateCheck", "AckTimeout"}
      /\ r.state \in {{"TX_RUNNING"}, {"TX_RUNNING", "RX_ABORT"}}
  BY <1>1 DEF AfterFrame
<1>5. /\ "McpsReq" \in r.flags <=> "McpsReq" \in n.flags
      /\ "MlmeReq" \in r.flags <=> "MlmeReq" \in n.flags
      /\ r.nodeAck => r.ackRetry
  BY <1>1, <1>3 DEF AfterFrame
<1>6. AfterFrame(r, n)
  BY <1>1, <1>2, <1>3, <1>4, <1>5 DEF AfterFrame, TimedOut
<1> QED BY <1>6 DEF r

\* A data frame: the ACK it carries is heard, and the confirm is told.
LEMMA DataAfter ==
  ASSUME NEW n, Heard(n), NEW f \in Frames, f.kind = "data", f.ack => n.mcps.Request = "CONFIRMED"
  PROVE  AfterFrame(ReceiveData(n, f), n)
<1> DEFINE q   == IF f.answer THEN AnswerFirst(n.queue, "LINK_CHECK", "OK") ELSE n.queue
           w   == Acknowledged(n, f)
           h   == n.heardAck \/ f.ack
           k   == [n EXCEPT !.mcps.Status = "OK", !.mcps.AckReceived = w, !.heardAck = h,
                            !.queue = q]
           new == {"McpsInd"} \cup (IF f.skip THEN {"McpsIndSkip"} ELSE {})
           r   == Mark(k, new)
<1>0. /\ n \in Macs /\ n.state = {"TX_RUNNING"} /\ ~TimedOut(n)
      /\ n.timers \subseteq {"MacStateCheck", "AckTimeout"}
  BY DEF Heard
<1>1. ReceiveData(n, f) = r
  BY DEF ReceiveData
<1>2. /\ f.ack \in BOOLEAN /\ n.queue \in Seq(MlmeElement) /\ n.heardAck \in BOOLEAN
      /\ "OK" \in Results
  BY <1>0 DEF Frames, Macs, Results
<1>3. w \in BOOLEAN /\ h \in BOOLEAN /\ (w <=> f.ack) /\ (~n.heardAck => (h <=> w))
  BY <1>2 DEF Acknowledged
<1>4. /\ q \in Seq(MlmeElement)
      /\ IsQueued(q, "JOIN") <=> IsQueued(n.queue, "JOIN")
      /\ n.queue = <<>> => q = <<>>
  <2> DEFINE a == AnswerFirst(n.queue, "LINK_CHECK", "OK")
  <2>1. /\ a \in Seq(MlmeElement) /\ Len(a) = Len(n.queue) /\ DOMAIN a = DOMAIN n.queue
        /\ \A i \in DOMAIN n.queue : a[i].Request = n.queue[i].Request
    BY <1>2, AnsweredFirst
  <2> HIDE DEF a
  <2>2. IsQueued(a, "JOIN") <=> IsQueued(n.queue, "JOIN")
    BY <2>1 DEF IsQueued
  <2>3. n.queue = <<>> => a = <<>>
    BY <2>1
  <2>4. q \in {a, n.queue}
    BY DEF a
  <2> HIDE DEF q
  <2> QED BY <1>2, <2>1, <2>2, <2>3, <2>4
<1>5. new \subseteq {"McpsInd", "McpsIndSkip"}
  OBVIOUS
<1> HIDE DEF q, w, h, new
<1>6. k \in Macs
  BY <1>0, <1>2, <1>3, <1>4 DEF Macs
<1>7. /\ Kept(k, n, {"mcps", "heardAck", "queue"}) /\ k.mcps.Status = "OK" /\ k.queue = q
      /\ k.mcps.AckReceived = w /\ k.heardAck = h /\ k.mcps.Request = n.mcps.Request
  BY <1>0 DEF Macs, Kept, Fields
<1> HIDE DEF k
<1>8. r \in Macs /\ Kept(r, k, {"flags"}) /\ r.flags = k.flags \cup new
  BY <1>5, <1>6, BaseTypes, BaseEffects
<1> HIDE DEF r
<1>9. Kept(r, n, {"state", "timers", "flags", "ackRetry", "mcps", "heardAck", "queue", "joined",
                  "counterUsed"})
  BY <1>7, <1>8 DEF Kept
<1>10. /\ r.state = n.state /\ r.timers = n.timers /\ r.mcps = k.mcps /\ r.heardAck = h
       /\ r.queue = q /\ r.flags = n.flags \cup new /\ r.common = n.common
  BY <1>7, <1>8 DEF Kept, Fields
<1>11. /\ "McpsReq" \in r.flags <=> "McpsReq" \in n.flags
       /\ "MlmeReq" \in r.flags <=> "MlmeReq" \in n.flags
  BY <1>5, <1>10
<1>12. AfterFrame(r, n)
  BY <1>0, <1>3, <1>4, <1>7, <1>8, <1>9, <1>10, <1>11 DEF AfterFrame, TimedOut
<1> QED BY <1>1, <1>12

\* An accept or a refusal of the join request, before the device has joined.
LEMMA AnswerAfter ==
  ASSUME NEW n, Heard(n), ~n.mcps.AckReceived, ~n.joined
  PROVE  AfterFrame(AcceptJoin(n), n) /\ AfterFrame(RefuseJoin(n), n)
<1>0. /\ n \in Macs /\ n.state = {"TX_RUNNING"} /\ ~TimedOut(n) /\ IsQueued(n.queue, "JOIN")
      /\ n.timers \subseteq {"MacStateCheck", "AckTimeout"} /\ ~n.nodeAck
      /\ n.queue \in Seq(MlmeElement)
      /\ "McpsReq" \notin n.flags
  BY DEF Heard, Macs
<1>1. ASSUME NEW st \in {"OK", "JOIN_FAIL"}, NEW m \in Macs,
             Kept(m, n, {"queue", "joined", "counterUsed"}),
             m.queue = AnswerFirst(n.queue, "JOIN", st)
      PROVE  AfterFrame(m, n)
  <2>1. /\ m.state = n.state /\ m.timers = n.timers /\ m.flags = n.flags /\ m.mcps = n.mcps
        /\ m.heardAck = n.heardAck /\ m.common = n.common /\ m.nodeAck = n.nodeAck
    BY <1>1 DEF Kept, Fields
  <2>2. /\ m.queue \in Seq(MlmeElement) /\ Len(m.queue) = Len(n.queue)
        /\ DOMAIN m.queue = DOMAIN n.queue
        /\ \A i \in DOMAIN n.queue : m.queue[i].Request = n.queue[i].Request
    BY <1>0, <1>1, AnsweredFirst DEF Results
  <2>3. /\ IsQueued(m.queue, "JOIN") <=> IsQueued(n.queue, "JOIN")
        /\ n.queue = <<>> => m.queue = <<>>
    BY <1>0, <2>2 DEF IsQueued
  <2>4. Kept(m, n, {"state", "timers", "flags", "ackRetry", "mcps", "heardAck", "queue", "joined",
                    "counterUsed"})
    BY <1>1 DEF Kept
  <2>5. ~n.heardAck => (m.heardAck <=> m.mcps.AckReceived)
    BY <2>1
  <2> QED BY <1>0, <1>1, <2>1, <2>3, <2>4, <2>5 DEF AfterFrame, TimedOut
<1>2. AfterFrame(AcceptJoin(n), n)
  <2> DEFINE q == AnswerFirst(n.queue, "JOIN", "OK")
             m == [n EXCEPT !.queue = q, !.joined = TRUE, !.counterUsed = FALSE]
  <2>1. AcceptJoin(n) = m
    BY <1>0 DEF AcceptJoin
  <2>2. q \in Seq(MlmeElement)
    BY <1>0, AnsweredFirst DEF Results
  <2> HIDE DEF q
  <2>3. m \in Macs
    BY <1>0, <2>2 DEF Macs
  <2>4. Kept(m, n, {"queue", "joined", "counterUsed"}) /\ m.queue = q
    BY <1>0 DEF Macs, Kept, Fields
  <2> HIDE DEF m
  <2> QED BY <1>1, <2>1, <2>3, <2>4 DEF q
<1>3. AfterFrame(RefuseJoin(n), n)
  <2> DEFINE q == AnswerFirst(n.queue, "JOIN", "JOIN_FAIL")
             m == [n EXCEPT !.queue = q]
  <2>1. RefuseJoin(n) = m
    BY DEF RefuseJoin
  <2>2. q \in Seq(MlmeElement)
    BY <1>0, AnsweredFirst DEF Results
  <2> HIDE DEF q
  <2>3. m \in Macs
    BY <1>0, <2>2 DEF Macs
  <2>4. Kept(m, n, {"queue", "joined", "counterUsed"}) /\ m.queue = q
    BY <1>0 DEF Macs, Kept, Fields
  <2> HIDE DEF m
  <2> QED BY <1>1, <2>1, <2>3, <2>4 DEF q
<1> QED BY <1>2, <1>3

\* The counts before the frame are those after it.
LEMMA AfterFrameCounts ==
  ASSUME NEW m, NEW n, NEW r, Counted(m), Heard(n), Kept(n, m, {"timers", "radio", "mcps"}),
         n.mcps.Request = m.mcps.Request, ~ToSend(m), m.radio # "TX", ~TimedOut(m),
         ~(m.nodeAck /\ m.mcps.AckReceived), AfterFrame(r, n)
  PROVE  Counted(r)
<1>1. /\ n.class = m.class /\ n.state = m.state /\ n.flags = m.flags /\ n.joined = m.joined
      /\ n.nodeAck = m.nodeAck /\ n.ackMax = m.ackMax /\ n.ackCnt = m.ackCnt /\ n.nbRep = m.nbRep
      /\ n.queue = m.queue /\ n.frame = m.frame /\ n.sent = m.sent /\ n.heardAck = m.heardAck
  BY DEF Kept, Fields
<1>2. /\ r.radio = n.radio /\ r.nodeAck = n.nodeAck /\ r.ackCnt = n.ackCnt /\ r.nbRep = n.nbRep
      /\ r.frame = n.frame /\ r.sent = n.sent
  BY DEF AfterFrame, Kept, Fields
<1>3. /\ ~ToSend(r) /\ r.radio # "TX" /\ ~TimedOut(r) /\ r.state # {}
      /\ Pending(r) <=> Pending(m)
      /\ r.mcps.Request = m.mcps.Request
  BY <1>1, <1>2 DEF AfterFrame, Heard, ToSend, Pending
<1>4. Alone(r)
  BY <1>1, <1>3 DEF AfterFrame, Counted, Alone
<1>5. Tried(r)
  <2>1. ~(r.mcps.Status = "TX_TIMEOUT") /\ ~(m.mcps.Status = "TX_TIMEOUT")
    BY <1>3 DEF TimedOut
  <2> QED BY <1>1, <1>2, <1>3, <2>1 DEF Counted, Tried
<1>6. Heeded(r)
  <2>1. ASSUME Pending(r), r.nodeAck
        PROVE  r.heardAck <=> r.mcps.AckReceived
    <3>1. ~n.heardAck
      BY <1>1, <1>2, <1>3, <2>1 DEF Counted, Heeded
    <3> QED BY <3>1 DEF AfterFrame
  <2>2. "RX_ABORT" \in r.state /\ r.nodeAck => r.ackRetry
    BY DEF AfterFrame
  <2> QED BY <1>3, <2>1, <2>2 DEF Heeded
<1>7. Fresh(r)
  <2>1. m.state # {}
    BY <1>1 DEF Heard
  <2> QED BY <1>1, <1>2, <1>3, <2>1 DEF Counted, Fresh
<1> QED BY <1>4, <1>5, <1>6, <1>7 DEF Counted

\* Whatever frame is received, the counts are those before it.
LEMMA RxDoneCounts ==
  ASSUME UInv, OrderlyUse, NEW f \in Frames, RxDone(f)
  PROVE  Counted(mac')
<1>1. /\ mac.state = {"TX_RUNNING"} /\ ~ToSend(mac) /\ mac.radio # "TX" /\ ~TimedOut(mac)
      /\ ~(mac.nodeAck /\ mac.mcps.AckReceived)
  <2>1. Listening(mac) /\ ~Over(mac)
    <3>1. CASE mac.class = "A"
      BY <3>1 DEF RxDone, Receiving, UInv, IInv, Sound, Phase, InPhase, Idle, Sensing, Delayed,
           Imminent, OnAir, Listening, Over, Resting, Others, Windows
    <3>2. CASE mac.class = "C"
      <4>1. Expecting
        BY <3>2 DEF RxDone, OrderlyUse, UInv, IInv, Sound, Phase
      <4> QED BY <3>2, <4>1 DEF RxDone, Receiving, Expecting, UInv, IInv, Sound, Phase, InPhase,
           Idle, Sensing, Delayed, Imminent, OnAir, Listening, Over, Resting, Others, Windows
    <3> QED BY <3>1, <3>2 DEF UInv, IInv, Sound, Macs
  <2>2. ~TimedOut(mac) /\ ~(mac.nodeAck /\ mac.mcps.AckReceived)
    BY <2>1 DEF UInv, IInv, Sound, Acks
  <2>3. mac.state = {"TX_RUNNING"} /\ ~ToSend(mac) /\ mac.radio # "TX"
    BY <2>1 DEF Listening, ToSend, Windows, Others, Resting
  <2> QED BY <2>2, <2>3
<1>2. PICK n : /\ Heard(n) /\ ~n.mcps.AckReceived /\ n.mcps.Request = mac.mcps.Request
               /\ n.joined = mac.joined /\ n.nodeAck = mac.nodeAck
               /\ Kept(n, mac, {"timers", "radio", "mcps"})
               /\ n.class = "C" => f.kind = "data"
               /\ mac' =
                    CASE f.kind = "data"    -> FinishRxDone(ReceiveData(n, f))
                      [] f.kind = "proprietary" -> FinishRxDone(Mark(n, {"McpsInd"}))
                      [] f.kind = "unknown" -> FinishRxDone(PrepareRxDoneAbort(n))
                      [] f.kind = "repeated" ->
                           PrepareRxDoneAbort([n EXCEPT !.mcps.Status = "OK"])
                      [] f.kind = "abort" -> PrepareRxDoneAbort(n)
                      [] f.kind = "accept" ->
                           IF mac.joined THEN PrepareRxDoneAbort(n)
                                         ELSE FinishRxDone(AcceptJoin(n))
                      [] f.kind = "badAccept" ->
                           IF mac.joined THEN PrepareRxDoneAbort(n)
                                         ELSE FinishRxDone(RefuseJoin(n))
  BY Prelude DEF UInv
<1>3. /\ f.kind = "data" => (f.ack => n.mcps.Request = "CONFIRMED")
      /\ f.kind \in {"data", "proprietary", "unknown", "repeated", "abort", "accept", "badAccept"}
  BY <1>2 DEF RxDone, Frames
<1>4. n \in Macs /\ n.class \in {"A", "C"}
  BY <1>2 DEF Heard, Macs
<1>5. ASSUME NEW k \in Macs, Kept(k, n, {"flags", "mcps"}),
             k.flags \in {n.flags, n.flags \cup {"McpsInd"}}, ~k.mcps.AckReceived,
             k.mcps.Request = n.mcps.Request, k.mcps.Status \in {n.mcps.Status, "OK"}
      PROVE  AfterFrame(k, n)
  <2>1. /\ k.state = n.state /\ k.timers = n.timers /\ k.heardAck = n.heardAck
        /\ k.queue = n.queue /\ k.common = n.common
    BY <1>5 DEF Kept, Fields
  <2>2. Kept(k, n, {"state", "timers", "flags", "ackRetry", "mcps", "heardAck", "queue", "joined",
                    "counterUsed"})
    BY <1>5 DEF Kept
  <2>3. ~TimedOut(k) /\ k.state = {"TX_RUNNING"} /\ k.timers \subseteq {"MacStateCheck", "AckTimeout"}
    BY <1>2, <1>5, <2>1 DEF Heard, TimedOut
  <2>4. /\ "McpsReq" \in k.flags <=> "McpsReq" \in n.flags
        /\ "MlmeReq" \in k.flags <=> "MlmeReq" \in n.flags
    BY <1>5
  <2>5. ~n.heardAck => (k.heardAck <=> k.mcps.AckReceived)
    <3>1. n.heardAck \in BOOLEAN /\ k.mcps.AckReceived \in BOOLEAN
      BY <1>4, <1>5 DEF Macs
    <3> QED BY <1>5, <2>1, <3>1
  <2> QED BY <1>5, <2>1, <2>2, <2>3, <2>4, <2>5 DEF AfterFrame
<1>6. AfterFrame(n, n)
  <2>1. Kept(n, n, {"flags", "mcps"})
    BY DEF Kept
  <2> QED BY <1>2, <1>4, <1>5, <2>1
<1>7. AfterFrame(mac', n)
  <2>1. CASE f.kind = "data"
    BY <1>2, <1>3, <2>1, DataAfter, FinishAfter
  <2>2. CASE f.kind = "proprietary"
    <3> DEFINE k == Mark(n, {"McpsInd"})
    <3>1. k \in Macs /\ Kept(k, n, {"flags"}) /\ k.flags = n.flags \cup {"McpsInd"}
      BY <1>4, BaseTypes, BaseEffects
    <3>2. mac' = FinishRxDone(k)
      BY <1>2, <2>2
    <3> HIDE DEF k
    <3>3. Kept(k, n, {"flags", "mcps"}) /\ k.mcps = n.mcps
      BY <3>1 DEF Kept, Fields
    <3> QED BY <1>2, <1>5, <3>1, <3>2, <3>3, FinishAfter
  <2>3. CASE f.kind = "repeated"
    <3> DEFINE k == [n EXCEPT !.mcps.Status = "OK"]
    <3>1. k \in Macs
      BY <1>4 DEF Macs, Results
    <3>2. /\ Kept(k, n, {"flags", "mcps"}) /\ k.mcps.Status = "OK" /\ k.class = n.class
          /\ k.mcps.AckReceived = n.mcps.AckReceived /\ k.mcps.Request = n.mcps.Request
          /\ k.flags = n.flags
      BY <1>4 DEF Macs, Kept, Fields
    <3>3. mac' = PrepareRxDoneAbort(k) /\ n.class = "A"
      BY <1>2, <1>4, <2>3
    <3> HIDE DEF k
    <3> QED BY <1>2, <1>5, <3>1, <3>2, <3>3, AbortAfter
  <2>4. CASE f.kind \notin {"data", "proprietary", "repeated"}
    <3>1. n.class = "A"
      BY <1>2, <1>4, <2>4
    <3>2. mac' = PrepareRxDoneAbort(n) \/ mac' = FinishRxDone(PrepareRxDoneAbort(n))
            \/ (~n.joined /\ (mac' = FinishRxDone(AcceptJoin(n)) \/ mac' = FinishRxDone(RefuseJoin(n))))
      BY <1>2, <1>3, <2>4
    <3> QED BY <1>2, <1>6, <3>1, <3>2, AbortAfter, FinishAfter, AnswerAfter
  <2> QED BY <2>1, <2>2, <2>3, <2>4
<1> QED BY <1>1, <1>2, <1>7, AfterFrameCounts DEF UInv

-----------------------------------------------------------------------------
(* The state check of a finished procedure.                                  *)

\* EndReceived does nothing, or ends the uplink and counts it.
LEMMA EndReceivedEffect ==
  ASSUME NEW w \in Macs
  PROVE  LET v == EndReceived(w) IN
         \/ /\ v = w
            /\ ~("McpsInd" \in w.flags /\ (w.mcps.AckReceived \/ w.ackCnt > w.ackMax))
         \/ /\ v \in Macs /\ Kept(v, w, {"ackRetry", "nodeAck", "counterUsed", "state"})
            /\ v.state = w.state \ {"TX_RUNNING"}
            /\ ~v.nodeAck /\ ~v.ackRetry /\ ~v.counterUsed
            /\ "McpsInd" \in w.flags /\ (w.mcps.AckReceived \/ w.ackCnt > w.ackMax)
<1> DEFINE v == EndReceived(w)
           k == CountUplink([w EXCEPT !.ackRetry = FALSE, !.nodeAck = FALSE])
           c == "McpsInd" \in w.flags /\ (w.mcps.AckReceived \/ w.ackCnt > w.ackMax)
<1>1. v = IF c THEN Clear(k, {"TX_RUNNING"}) ELSE w
  BY DEF EndReceived
<1>2. k \in Macs
  BY DEF CountUplink, Macs
<1>3. Kept(k, w, {"ackRetry", "nodeAck", "counterUsed"}) /\ ~k.ackRetry /\ ~k.nodeAck /\ ~k.counterUsed
  BY DEF CountUplink, Macs, Kept, Fields
<1> HIDE DEF k, v
<1>4. CASE ~c
  BY <1>1, <1>4 DEF v
<1>5. CASE c
  <2>1. v \in Macs /\ Kept(v, k, {"state"}) /\ v.state = k.state \ {"TX_RUNNING"}
    BY <1>1, <1>2, <1>5, BaseTypes, BaseEffects
  <2>2. /\ v.nodeAck = k.nodeAck /\ v.ackRetry = k.ackRetry /\ v.counterUsed = k.counterUsed
        /\ k.state = w.state
    BY <1>3, <2>1 DEF Kept, Fields
  <2>3. Kept(v, w, {"ackRetry", "nodeAck", "counterUsed", "state"})
    BY <1>3, <2>1 DEF Kept
  <2> QED BY <1>3, <1>5, <2>1, <2>2, <2>3 DEF v
<1> QED BY <1>4, <1>5

\* SendDelayed for an unconfirmed uplink, and for a join request.
LEMMA SentAgainKind ==
  ASSUME NEW m \in Macs, NEW out \in {"CAD", "DELAY"}
  PROVE  LET r == SendDelayed(Unmark(m, {"MacDone"}), out) IN
         /\ ~JoinProcedure(m) => Kept(r, m, {"state", "timers", "radio", "flags"})
         /\ JoinProcedure(m) => r.frame = "JOIN"
<1> DEFINE u == Unmark(m, {"MacDone"})
           r == SendDelayed(u, out)
<1>1. u \in Macs /\ Kept(u, m, {"flags"}) /\ u.flags = m.flags \ {"MacDone"}
  BY BaseTypes, BaseEffects
<1> HIDE DEF u
<1>2. JoinProcedure(u) <=> JoinProcedure(m)
  BY <1>1 DEF JoinProcedure, Kept, Fields
<1>3. /\ ~JoinProcedure(u) => Kept(r, u, {"state", "timers", "radio"})
      /\ JoinProcedure(u) => r.frame = "JOIN"
  BY <1>1, DelayedKind DEF Outcomes
<1> HIDE DEF r
<1>4. Kept(r, u, {"state", "timers", "radio"}) => Kept(r, m, {"state", "timers", "radio", "flags"})
  BY <1>1 DEF Kept
<1> QED BY <1>2, <1>3, <1>4 DEF r, u

\* An unconfirmed uplink ends and is counted, or is repeated as it is.
LEMMA UnconfirmedCounts ==
  ASSUME NEW m \in Macs, NEW out \in {"CAD", "DELAY"}, m.ackCnt \in 1 .. m.ackMax,
         m.state \subseteq {"TX_RUNNING"}, m.timers = {}, ~JoinProcedure(m)
  PROVE  LET r == EndUnconfirmed(m, out) IN
         \/ r.state = {} /\ r.nbRep = 0 /\ ~r.counterUsed
         \/ /\ Kept(r, m, {"state", "timers", "radio", "flags"}) /\ Again(r, m)
            /\ m.nbRep < ChannelsNbRep
<1> DEFINE r == EndUnconfirmed(m, out)
           last == m.nbRep >= ChannelsNbRep \/ "McpsInd" \in m.flags
           k == CountUplink([m EXCEPT !.nbRep = 0])
           e == Clear(k, {"TX_RUNNING"})
           s == SendDelayed(Unmark(m, {"MacDone"}), out)
<1>1. r = IF last THEN e ELSE s
  BY DEF EndUnconfirmed
<1>2. CASE last
  <2>1. k \in Macs
    <3>1. 0 \in 0 .. ChannelsNbRep
      BY BoundsAssumption
    <3> QED BY <3>1 DEF CountUplink, Macs
  <2>2. k.state = m.state /\ k.nbRep = 0 /\ ~k.counterUsed
    BY DEF CountUplink, Macs
  <2> HIDE DEF k
  <2>3. Kept(e, k, {"state"}) /\ e.state = k.state \ {"TX_RUNNING"}
    BY <2>1, BaseEffects
  <2> HIDE DEF e
  <2>4. e.state = {} /\ e.nbRep = 0 /\ ~e.counterUsed
    BY <2>2, <2>3 DEF Kept, Fields
  <2> QED BY <1>1, <1>2, <2>4
<1>3. CASE ~last
  <2>1. Kept(s, m, {"state", "timers", "radio", "flags"})
    BY SentAgainKind
  <2>2. Again(s, m)
    BY SentAgain
  <2>3. m.nbRep < ChannelsNbRep
    <3>1. m.nbRep \in Nat /\ ChannelsNbRep \in Nat
      BY BoundsAssumption DEF Macs
    <3> QED BY <1>3, <3>1
  <2> HIDE DEF s, r, last
  <2> QED BY <1>1, <1>3, <2>1, <2>2, <2>3 DEF r
<1> QED BY <1>2, <1>3

\* A join procedure ends, leaving the counters started again if the device has
\* joined; or its request is sent again.
LEMMA JoinCounts ==
  ASSUME NEW m \in Macs, NEW out \in {"CAD", "DELAY"}, m.ackCnt \in 1 .. m.ackMax,
         m.state \subseteq {"TX_RUNNING"}, m.timers = {}, JoinProcedure(m)
  PROVE  LET r == EndJoin(m, out) IN
         \/ r.state = {} /\ (JoinAccepted(m) => r.nbRep = 0 /\ ~r.counterUsed)
         \/ r.frame = "JOIN" /\ ~JoinAccepted(m) /\ Again(r, m)
<1> DEFINE r == EndJoin(m, out)
           ok == \E i \in DOMAIN m.queue : IsFirst(m.queue, i, "JOIN") /\ m.queue[i].Status = "OK"
           k  == [m EXCEPT !.counterUsed = FALSE, !.nbRep = 0]
           e  == Clear(k, {"TX_RUNNING"})
           g  == Clear(m, {"TX_RUNNING"})
           s  == SendDelayed(Unmark(m, {"MacDone"}), out)
<1>1. r = IF ok THEN e ELSE IF LastJoinTrial(m) THEN g ELSE s
  BY DEF EndJoin
<1>2. JoinAccepted(m) => ok
  <2>1. m.queue \in Seq(MlmeElement)
    BY DEF Macs
  <2>2. JoinAccepted(m) => /\ DOMAIN m.queue = {1} /\ m.queue[1].Request = "JOIN"
                           /\ m.queue[1].Status = "OK"
    BY <2>1 DEF JoinAccepted, IsQueued
  <2>3. JoinAccepted(m) => /\ 1 \in DOMAIN m.queue /\ IsFirst(m.queue, 1, "JOIN")
                           /\ m.queue[1].Status = "OK"
    BY <2>2 DEF IsFirst
  <2> QED BY <2>3
<1>3. e.state = {} /\ e.nbRep = 0 /\ ~e.counterUsed
  <2>1. k \in Macs
    <3>1. 0 \in 0 .. ChannelsNbRep
      BY BoundsAssumption
    <3> QED BY <3>1 DEF Macs
  <2>2. k.state = m.state /\ k.nbRep = 0 /\ ~k.counterUsed
    BY DEF Macs
  <2> HIDE DEF k
  <2>3. Kept(e, k, {"state"}) /\ e.state = k.state \ {"TX_RUNNING"}
    BY <2>1, BaseEffects
  <2> HIDE DEF e
  <2> QED BY <2>2, <2>3 DEF Kept, Fields
<1>4. g.state = {}
  BY BaseEffects
<1>5. Again(s, m) /\ s.frame = "JOIN"
  BY SentAgain, SentAgainKind
<1> HIDE DEF r, ok, e, g, s
<1> QED BY <1>1, <1>2, <1>3, <1>4, <1>5 DEF r

\* What Finish leaves of a procedure without an ACK: its end, or a frame that
\* is about to be sent again.
LEMMA PlainFinished ==
  ASSUME NEW n, FoundDone(n), ~n.nodeAck, n.flags \cap {"McpsReq", "MlmeReq"} # {},
         NEW out \in {"CAD", "DELAY"}
  PROVE  LET r == Finish(n, out) IN
         /\ r.state = {} =>
              \/ TimedOut(n) /\ r.nbRep = n.nbRep
              \/ ~TimedOut(n) /\ ~JoinProcedure(n) /\ r.nbRep = 0 /\ ~r.counterUsed
              \/ ~TimedOut(n) /\ JoinProcedure(n)
                   /\ (JoinAccepted(n) => r.nbRep = 0 /\ ~r.counterUsed)
         /\ r.state # {} =>
              /\ ~TimedOut(n) /\ ToSend(r) /\ "RX_ABORT" \notin r.state
              /\ JoinProcedure(n) => r.frame = "JOIN"
              /\ ~JoinProcedure(n) =>
                   r.nbRep = n.nbRep /\ r.frame = n.frame /\ n.nbRep < ChannelsNbRep
         /\ r.mcps.Status = n.mcps.Status /\ r.mcps.Request = n.mcps.Request
<1> DEFINE e == EndAbort(n)
           m == IF TxTimedOut(e) THEN EndTimedOut(e) ELSE e
           w == EndWithoutAck(m, out)
           v == EndReceived(w)
<1>1. /\ m \in Macs /\ Kept(m, n, {"state", "mcps"}) /\ m.state \subseteq {"TX_RUNNING"}
      /\ TxTimedOut(m) <=> TxTimedOut(n)
      /\ TxTimedOut(n) => m.state = {}
      /\ m.mcps.Request = n.mcps.Request /\ m.mcps.Status = n.mcps.Status
  BY AbortAndTimeoutEnded
<1>2. Finish(n, out) = Retry(v, out)
  BY DEF Finish
<1> HIDE DEF m
<1>3. /\ m.flags = n.flags /\ m.timers = n.timers /\ m.nbRep = n.nbRep /\ m.frame = n.frame
      /\ m.ackCnt = n.ackCnt /\ m.ackMax = n.ackMax /\ m.nodeAck = n.nodeAck
      /\ m.ackRetry = n.ackRetry /\ m.queue = n.queue /\ m.mlmeRequest = n.mlmeRequest
      /\ m.radio = n.radio
  BY <1>1 DEF Kept, Fields
<1>4. m.ackCnt \in 1 .. m.ackMax /\ m.timers = {} /\ ~m.nodeAck /\ ~m.ackRetry
  BY <1>3 DEF FoundDone
<1>5. /\ JoinProcedure(m) <=> JoinProcedure(n)
      /\ JoinAccepted(m) <=> JoinAccepted(n)
      /\ RequestPending(m)
      /\ TxTimedOut(n) <=> TimedOut(n)
  BY <1>3 DEF JoinProcedure, RequestPending, JoinAccepted, TxTimedOut, TimedOut
<1>6. w = IF TxTimedOut(n) THEN m
          ELSE IF JoinProcedure(n) THEN EndJoin(m, out) ELSE EndUnconfirmed(m, out)
  BY <1>1, <1>4, <1>5 DEF EndWithoutAck
<1> HIDE DEF w
<1>7. w \in Macs /\ w.mcps = m.mcps /\ ~w.ackRetry
  <2>1. CASE TxTimedOut(n)
    BY <1>1, <1>4, <1>6, <2>1
  <2>2. CASE ~TxTimedOut(n) /\ JoinProcedure(n)
    BY <1>1, <1>4, <1>6, <2>2, JoinEnded
  <2>3. CASE ~TxTimedOut(n) /\ ~JoinProcedure(n)
    BY <1>1, <1>4, <1>6, <2>3, UnconfirmedEnded
  <2> QED BY <2>1, <2>2, <2>3
<1>8. /\ w.state = {} =>
           \/ TimedOut(n) /\ w.nbRep = n.nbRep
           \/ ~TimedOut(n) /\ ~JoinProcedure(n) /\ w.nbRep = 0 /\ ~w.counterUsed
           \/ ~TimedOut(n) /\ JoinProcedure(n)
                /\ (JoinAccepted(n) => w.nbRep = 0 /\ ~w.counterUsed)
      /\ w.state # {} =>
           /\ ~TimedOut(n) /\ Again(w, m)
           /\ JoinProcedure(n) => w.frame = "JOIN"
           /\ ~JoinProcedure(n) =>
                w.nbRep = n.nbRep /\ w.frame = n.frame /\ n.nbRep < ChannelsNbRep
  <2>1. CASE TxTimedOut(n)
    BY <1>1, <1>3, <1>5, <1>6, <2>1
  <2>2. CASE ~TxTimedOut(n) /\ JoinProcedure(n)
    <3>1. \/ w.state = {} /\ (JoinAccepted(m) => w.nbRep = 0 /\ ~w.counterUsed)
          \/ w.frame = "JOIN" /\ ~JoinAccepted(m) /\ Again(w, m)
      BY <1>1, <1>4, <1>5, <1>6, <2>2, JoinCounts
    <3>2. Again(w, m) => w.state # {}
      BY DEF Again
    <3> QED BY <1>5, <2>2, <3>1, <3>2
  <2>3. CASE ~TxTimedOut(n) /\ ~JoinProcedure(n)
    <3>1. \/ w.state = {} /\ w.nbRep = 0 /\ ~w.counterUsed
          \/ /\ Kept(w, m, {"state", "timers", "radio", "flags"}) /\ Again(w, m)
             /\ m.nbRep < ChannelsNbRep
      BY <1>1, <1>4, <1>5, <1>6, <2>3, UnconfirmedCounts
    <3>2. Again(w, m) => w.state # {}
      BY DEF Again
    <3>3. Kept(w, m, {"state", "timers", "radio", "flags"}) => w.nbRep = m.nbRep /\ w.frame = m.frame
      BY DEF Kept, Fields
    <3> QED BY <1>3, <1>5, <2>3, <3>1, <3>2, <3>3
  <2> QED BY <2>1, <2>2, <2>3
<1>9. /\ v.nbRep = w.nbRep /\ v.frame = w.frame /\ v.mcps = w.mcps /\ ~v.ackRetry
      /\ v.counterUsed => w.counterUsed
      /\ v.state \in {w.state, w.state \ {"TX_RUNNING"}} /\ v.timers = w.timers
  BY <1>7, EndReceivedEffect DEF Kept, Fields
<1> HIDE DEF v
<1>10. Again(w, m) => v.state # {} /\ ToSend(v) /\ "RX_ABORT" \notin v.state
  BY <1>9 DEF Again, ToSend
<1>11. Finish(n, out) = v
  BY <1>2, <1>9 DEF Retry
<1> QED BY <1>1, <1>7, <1>8, <1>9, <1>10, <1>11

\* Retry gives up, and counts the uplink, or sends it once more.
LEMMA RetryCounts ==
  ASSUME NEW v \in Macs, NEW out \in Outcomes, v.state \subseteq {"TX_RUNNING"}, v.timers = {},
         v.ackRetry, ~v.mcps.AckReceived
  PROVE  LET r == Retry(v, out) IN
         /\ r.nbRep = v.nbRep /\ r.frame = v.frame /\ r.mcps.Request = v.mcps.Request
         /\ r.mcps.Status \in {v.mcps.Status, "SIZE"} /\ ~r.mcps.AckReceived
         /\ \/ r.state = {} /\ ~r.counterUsed
            \/ /\ ToSend(r) /\ r.state # {} /\ "RX_ABORT" \notin r.state
               /\ r.ackCnt = v.ackCnt + 1
               /\ r.nodeAck = v.nodeAck
<1> DEFINE r  == Retry(v, out)
           m1 == [v EXCEPT !.ackRetry = FALSE]
           m2 == [m1 EXCEPT !.ackCnt = @ + 1]
           k  == [m2 EXCEPT !.mcps.Status = "SIZE"]
           s  == ScheduleTx(m2, out)
           u  == Unmark(s, {"MacDone"})
<1>1. r = IF LastTrial(v) THEN GiveUp(m1) ELSE IF out = "LENGTH" THEN GiveUp(k) ELSE u
  BY DEF Retry
<1>2. m1 \in Macs
  BY DEF Macs
<1>3. Kept(m1, v, {"ackRetry"})
  BY DEF Macs, Kept, Fields
<1>4. m1.ackCnt = v.ackCnt /\ v.ackCnt \in Nat
  BY <1>3 DEF Kept, Fields, Macs
<1> HIDE DEF m1, r
<1>5. m2 \in Macs /\ Kept(m2, m1, {"ackCnt"}) /\ m2.ackCnt = v.ackCnt + 1
  <2> DEFINE c == m1.ackCnt + 1
  <2>1. c \in Nat /\ c = v.ackCnt + 1
    BY <1>4
  <2> HIDE DEF c
  <2>2. [m1 EXCEPT !.ackCnt = c] \in Macs
    BY <1>2, <2>1, ZenonT(40) DEF Macs
  <2>3. Kept([m1 EXCEPT !.ackCnt = c], m1, {"ackCnt"}) /\ [m1 EXCEPT !.ackCnt = c].ackCnt = c
    BY <1>2 DEF Macs, Kept, Fields
  <2>4. m2 = [m1 EXCEPT !.ackCnt = c]
    BY DEF c
  <2> HIDE DEF m2
  <2> QED BY <2>1, <2>2, <2>3, <2>4
<1> HIDE DEF m2
<1>6. k \in Macs
  BY <1>5 DEF Macs, Results
<1>7. /\ Kept(k, m2, {"mcps"}) /\ k.mcps.Status = "SIZE" /\ k.mcps.Request = m2.mcps.Request
      /\ k.mcps.AckReceived = m2.mcps.AckReceived
  BY <1>5 DEF Macs, Kept, Fields
<1> HIDE DEF k
<1>8. /\ m1.nbRep = v.nbRep /\ m1.frame = v.frame /\ m1.mcps = v.mcps /\ m1.state = v.state
      /\ m2.nbRep = v.nbRep /\ m2.frame = v.frame /\ m2.mcps = v.mcps /\ m2.state = v.state
      /\ m2.timers = v.timers /\ m2.nodeAck = v.nodeAck
      /\ k.nbRep = v.nbRep /\ k.frame = v.frame /\ k.state = v.state
  BY <1>3, <1>5, <1>7 DEF Kept, Fields
<1>9. ASSUME NEW o \in Macs, r = GiveUp(o), o.nbRep = v.nbRep, o.frame = v.frame,
             o.mcps.Request = v.mcps.Request, o.mcps.Status \in {v.mcps.Status, "SIZE"},
             o.state = v.state
      PROVE  /\ r.nbRep = v.nbRep /\ r.frame = v.frame /\ r.mcps.Request = v.mcps.Request
             /\ r.mcps.Status \in {v.mcps.Status, "SIZE"} /\ ~r.mcps.AckReceived
             /\ r.state = {} /\ ~r.counterUsed
  <2>1. /\ Kept(r, o, {"nodeAck", "mcps", "counterUsed", "state"})
        /\ r.state = o.state \ {"TX_RUNNING"} /\ ~r.counterUsed
        /\ ~r.mcps.AckReceived /\ r.mcps.Request = o.mcps.Request
        /\ r.mcps.Status = o.mcps.Status
    BY <1>9, GivenUp
  <2>2. r.nbRep = o.nbRep /\ r.frame = o.frame
    BY <2>1 DEF Kept, Fields
  <2> QED BY <1>9, <2>1, <2>2
<1>10. CASE LastTrial(v)
  <2>1. r = GiveUp(m1)
    BY <1>1, <1>10
  <2> QED BY <1>2, <1>8, <1>9, <2>1 DEF r
<1>11. CASE ~LastTrial(v) /\ out = "LENGTH"
  <2>1. r = GiveUp(k)
    BY <1>1, <1>11
  <2> QED BY <1>6, <1>7, <1>8, <1>9, <2>1 DEF r
<1>12. CASE ~LastTrial(v) /\ out # "LENGTH"
  <2>1. r = u
    BY <1>1, <1>12
  <2>2. /\ s \in Macs /\ Kept(s, m2, {"state", "timers", "radio"})
        /\ out = "CAD" => s.state = m2.state \cup {"CAD_RUNNING"}
        /\ out = "DELAY" => s.state = m2.state \cup {"TX_DELAYED"}
    BY <1>5, Scheduled
  <2> HIDE DEF s
  <2>3. Kept(u, s, {"flags"})
    BY <2>2, BaseEffects
  <2> HIDE DEF u
  <2>4. /\ u.state = s.state /\ u.nbRep = v.nbRep /\ u.frame = v.frame /\ u.mcps = v.mcps
        /\ u.nodeAck = v.nodeAck /\ u.ackCnt = v.ackCnt + 1
    BY <1>5, <1>8, <2>2, <2>3 DEF Kept, Fields
  <2>5. ToSend(u) /\ u.state # {} /\ "RX_ABORT" \notin u.state
    BY <1>8, <1>12, <2>2, <2>4 DEF ToSend, Outcomes
  <2> QED BY <2>1, <2>4, <2>5 DEF r
<1> QED BY <1>10, <1>11, <1>12

\* What Finish leaves of a confirmed uplink.  Its confirm tells of the ACK as
\* it was when the procedure was done.
LEMMA AckFinished ==
  ASSUME NEW n, FoundDone(n), n.nodeAck, Pending(n), NEW out \in Outcomes,
         "RX_ABORT" \in n.state => n.ackRetry, n.mcps.AckReceived => ~TimedOut(n)
  PROVE  LET r == Finish(n, out) IN
         /\ r.nbRep = n.nbRep /\ r.frame = n.frame /\ r.mcps.Request = n.mcps.Request
         /\ r.mcps.Status \in {n.mcps.Status, "SIZE"}
         /\ r.mcps.AckReceived <=> n.mcps.AckReceived
         /\ r.state = {} => TimedOut(n) \/ ~r.counterUsed
         /\ r.state # {} =>
              /\ r.nodeAck /\ ~n.mcps.AckReceived /\ "RX_ABORT" \notin r.state
              /\ \/ ToSend(r) /\ r.ackCnt = n.ackCnt + 1
                 \/ ~ToSend(r) /\ r.ackCnt = n.ackCnt /\ ~TimedOut(n)
<1> DEFINE e == EndAbort(n)
           m == IF TxTimedOut(e) THEN EndTimedOut(e) ELSE e
           w == EndWithoutAck(m, out)
           v == EndReceived(w)
<1>1. /\ m \in Macs /\ Kept(m, n, {"state", "mcps"}) /\ m.state \subseteq {"TX_RUNNING"}
      /\ m.mcps.Request = n.mcps.Request /\ m.mcps.Status = n.mcps.Status
      /\ m.mcps.AckReceived <=> n.mcps.AckReceived /\ ~TxTimedOut(n)
      /\ TxTimedOut(n) \/ "RX_ABORT" \in n.state => m.state = {}
  BY AbortAndTimeoutEnded
<1>2. Finish(n, out) = Retry(v, out)
  BY DEF Finish
<1> HIDE DEF m
<1>3. /\ m.flags = n.flags /\ m.timers = n.timers /\ m.nbRep = n.nbRep /\ m.frame = n.frame
      /\ m.ackCnt = n.ackCnt /\ m.ackMax = n.ackMax /\ m.nodeAck = n.nodeAck
      /\ m.ackRetry = n.ackRetry
  BY <1>1 DEF Kept, Fields
<1>4. w = m
  BY <1>3 DEF EndWithoutAck
<1> HIDE DEF w
<1>5. TxTimedOut(n) <=> TimedOut(n)
  BY DEF TxTimedOut, TimedOut, RequestPending, Pending
<1>6. m.mcps.AckReceived <=> n.mcps.AckReceived
  BY <1>1, <1>5
<1>7. m.state \in {{}, {"TX_RUNNING"}} /\ m.timers = {} /\ ~(m.ackCnt > m.ackMax)
      /\ (n.mcps.AckReceived => "McpsInd" \in m.flags)
  <2>1. m.ackMax \in Nat /\ m.ackCnt \in 1 .. m.ackMax
    BY <1>1, <1>3, BoundsAssumption DEF FoundDone, Macs
  <2>2. m.state \in {{}, {"TX_RUNNING"}}
    BY <1>1
  <2> QED BY <1>3, <2>1, <2>2 DEF FoundDone
<1>8. \/ v = m /\ ~m.mcps.AckReceived
      \/ /\ v.state = {} /\ ~v.ackRetry /\ ~v.counterUsed
         /\ v.nbRep = m.nbRep /\ v.frame = m.frame /\ v.mcps = m.mcps
  <2>1. \/ /\ v = m
           /\ ~("McpsInd" \in m.flags /\ (m.mcps.AckReceived \/ m.ackCnt > m.ackMax))
        \/ /\ v \in Macs /\ Kept(v, m, {"ackRetry", "nodeAck", "counterUsed", "state"})
           /\ v.state = m.state \ {"TX_RUNNING"}
           /\ ~v.nodeAck /\ ~v.ackRetry /\ ~v.counterUsed
    BY <1>1, <1>4, EndReceivedEffect
  <2> HIDE DEF v
  <2>2. Kept(v, m, {"ackRetry", "nodeAck", "counterUsed", "state"}) =>
          v.nbRep = m.nbRep /\ v.frame = m.frame /\ v.mcps = m.mcps
    BY DEF Kept, Fields
  <2> QED BY <1>6, <1>7, <2>1, <2>2
<1> HIDE DEF v
<1>9. CASE v = m /\ ~m.mcps.AckReceived /\ m.ackRetry
  <2> DEFINE r == Retry(m, out)
  <2>1. /\ r.nbRep = m.nbRep /\ r.frame = m.frame /\ r.mcps.Request = m.mcps.Request
        /\ r.mcps.Status \in {m.mcps.Status, "SIZE"} /\ ~r.mcps.AckReceived
        /\ \/ r.state = {} /\ ~r.counterUsed
           \/ /\ ToSend(r) /\ r.state # {} /\ "RX_ABORT" \notin r.state
              /\ r.ackCnt = m.ackCnt + 1 /\ r.nodeAck = m.nodeAck
    BY <1>1, <1>7, <1>9, RetryCounts
  <2>2. Finish(n, out) = r
    BY <1>2, <1>9
  <2> HIDE DEF r
  <2> QED BY <1>1, <1>3, <1>6, <1>9, <2>1, <2>2
<1>10. CASE v = m /\ ~m.mcps.AckReceived /\ ~m.ackRetry
  <2>1. Finish(n, out) = m
    BY <1>2, <1>10 DEF Retry
  <2>2. m.state = {} => TimedOut(n)
    <3>1. "RX_ABORT" \notin n.state
      BY <1>3, <1>10
    <3>2. ~TxTimedOut(n) => m.state = n.state
      <4>1. e = n
        BY <3>1 DEF EndAbort
      <4>2. ~TxTimedOut(n) => m = n
        BY <4>1 DEF m
      <4> QED BY <4>2
    <3>3. n.state # {}
      BY DEF FoundDone
    <3> QED BY <1>5, <3>2, <3>3
  <2>3. ~ToSend(m)
    BY <1>7 DEF ToSend
  <2> QED BY <1>1, <1>3, <1>5, <1>6, <1>7, <1>10, <2>1, <2>2, <2>3
<1>11. CASE /\ v.state = {} /\ ~v.ackRetry /\ ~v.counterUsed
            /\ v.nbRep = m.nbRep /\ v.frame = m.frame /\ v.mcps = m.mcps
  <2>1. Finish(n, out) = v
    BY <1>2, <1>11 DEF Retry
  <2> QED BY <1>1, <1>3, <1>6, <1>11, <2>1
<1> QED BY <1>8, <1>9, <1>10, <1>11

\* What the state check finds: an uplink alone, or a join procedure alone.
Found(n) ==
  /\ FoundDone(n) /\ Counted(n) /\ ~ToSend(n)
  /\ Pending(n) => n.joined /\ n.queue = <<>> /\ "MlmeReq" \notin n.flags
  /\ ~Pending(n) => /\ JoinProcedure(n) /\ ~n.nodeAck /\ IsQueued(n.queue, "JOIN")
                    /\ n.joined => JoinAccepted(n)

\* The invariant says that it finds one of the two.
LEMMA FoundCounted ==
  ASSUME NEW m, Sound(m), Counted(m), "MacStateCheck" \in m.timers, Done(m),
         "AckTimeout" \notin m.timers
  PROVE  Found(TimerStop(m, "MacStateCheck"))
<1> DEFINE n == TimerStop(m, "MacStateCheck")
<1>1. FoundDone(n) /\ Kept(n, m, {"timers"})
  BY FoundByCheck
<1>2. n.timers = m.timers \ {"MacStateCheck"}
  BY BaseEffects DEF Sound
<1> HIDE DEF n
<1>3. /\ n.state = m.state /\ n.flags = m.flags /\ n.joined = m.joined /\ n.queue = m.queue
      /\ n.mlmeRequest = m.mlmeRequest /\ n.nodeAck = m.nodeAck /\ n.ackRetry = m.ackRetry
      /\ n.mcps = m.mcps /\ n.common = m.common /\ n.radio = m.radio
  BY <1>1 DEF Kept, Fields
<1>4. SameUplink(n, m)
  <2>1. Kept(n, m, {"class", "state", "timers", "radio", "rxSlot", "ackRetry", "ackMax",
                     "joinTrials", "joinMax", "cadCnt", "mlmeRequest", "common", "flags"})
    BY <1>1 DEF Kept
  <2> QED BY <1>3, <2>1, FieldsSame
<1>5. (ToSend(n) <=> ToSend(m)) /\ (TimedOut(n) <=> TimedOut(m))
  BY <1>2, <1>3 DEF ToSend, TimedOut
<1>6. "RX_ABORT" \in n.state /\ n.nodeAck => n.ackRetry
  BY <1>3 DEF Counted, Heeded
<1>7. Counted(n)
  BY <1>3, <1>4, <1>5, <1>6, Carried
<1>8. ~ToSend(n)
  BY <1>1 DEF FoundDone, ToSend
<1>9. Pending(n) => n.joined /\ n.queue = <<>> /\ "MlmeReq" \notin n.flags
  BY <1>3 DEF Sound, Uplink, Joins, Counted, Alone, Pending
<1>10. ~Pending(n) => /\ JoinProcedure(n) /\ ~n.nodeAck /\ IsQueued(n.queue, "JOIN")
                      /\ n.joined => JoinAccepted(n)
  <2>1. m.state # {}
    BY <1>1, <1>3 DEF FoundDone
  <2> QED BY <1>3, <2>1 DEF Sound, Uplink, Joins, Pending, JoinProcedure, JoinAccepted
<1>11. Found(n)
  BY <1>1, <1>7, <1>8, <1>9, <1>10 DEF Found
<1> QED BY <1>11 DEF n

\* The procedure has ended.  The confirm of a confirmed uplink tells what was
\* heard, and the next uplink finds the counters ready.
LEMMA DeliveredCounts ==
  ASSUME NEW n, Found(n), NEW out \in Outcomes, out = "LENGTH" => n.nodeAck,
         NEW r, r = Finish(n, out), r.state = {},
         \A i \in DOMAIN n.queue : n.queue[i].ReadyToHandle
  PROVE  LET d == Deliver(r) IN
         /\ d \in Macs /\ Counted(d) /\ ~Pending(d)
         /\ Pending(n) /\ n.mcps.Request = "CONFIRMED" =>
              (d.mcps.AckReceived <=> n.heardAck)
<1> DEFINE d == Deliver(r)
<1>1. /\ r \in Macs /\ Kept(r, n, EndFields) /\ r.flags = n.flags
  <2>1. Checked(r, n)
    BY FinishedChecked DEF Found
  <2>2. ~Again(r, n)
    BY DEF Again
  <2> QED BY <2>1, <2>2 DEF Checked, Ended
<1>2. /\ r.queue = n.queue /\ r.joined = n.joined /\ r.sent = n.sent /\ r.heardAck = n.heardAck
      /\ r.common = n.common
  BY <1>1 DEF Kept, Fields, EndFields
<1>3. /\ d \in Macs /\ Kept(d, r, {"flags", "queue", "mlmeRequest"}) /\ ~Pending(d)
      /\ "MlmeReq" \notin d.flags
      /\ \/ "MlmeReq" \in r.flags /\ d.queue = <<>>
         \/ "MlmeReq" \notin r.flags /\ d.queue = r.queue
  BY <1>1, <1>2, ConfirmsDelivered DEF Pending
<1> HIDE DEF d
<1>4. /\ d.state = {} /\ d.joined = n.joined /\ d.common = n.common /\ d.mcps = r.mcps
      /\ d.nbRep = r.nbRep /\ d.counterUsed = r.counterUsed
  BY <1>2, <1>3 DEF Kept, Fields
<1>5. d.queue = <<>>
  BY <1>1, <1>2, <1>3 DEF Found, JoinProcedure
<1>6. 0 < ChannelsNbRep
  BY BoundsAssumption
<1>7. /\ d.joined => d.nbRep < ChannelsNbRep
      /\ ~TxMayTimeOut /\ d.joined => ~d.counterUsed
      /\ d.mcps.Status \in {n.mcps.Status, "SIZE"}
      /\ Pending(n) /\ n.mcps.Request = "CONFIRMED" => (d.mcps.AckReceived <=> n.heardAck)
  <2>1. CASE n.nodeAck
    <3>1. /\ Pending(n) /\ n.nbRep < ChannelsNbRep
          /\ n.mcps.AckReceived => ~TimedOut(n)
          /\ n.heardAck <=> n.mcps.AckReceived
          /\ "RX_ABORT" \in n.state => n.ackRetry
      BY <2>1 DEF Found, Counted, Tried, Heeded
    <3>2. /\ r.nbRep = n.nbRep /\ r.mcps.Status \in {n.mcps.Status, "SIZE"}
          /\ r.mcps.AckReceived <=> n.mcps.AckReceived
          /\ TimedOut(n) \/ ~r.counterUsed
      BY <2>1, <3>1, AckFinished DEF Found
    <3>3. ~TxMayTimeOut => ~TimedOut(n)
      BY DEF Found, Counted, Fresh
    <3> QED BY <1>4, <3>1, <3>2, <3>3
  <2>2. CASE ~n.nodeAck
    <3>1. out \in {"CAD", "DELAY"} /\ n.flags \cap {"McpsReq", "MlmeReq"} # {}
      BY <2>2 DEF Outcomes, Found, Pending, JoinProcedure
    <3>2. /\ \/ TimedOut(n) /\ r.nbRep = n.nbRep
             \/ ~TimedOut(n) /\ ~JoinProcedure(n) /\ r.nbRep = 0 /\ ~r.counterUsed
             \/ ~TimedOut(n) /\ JoinProcedure(n)
                  /\ (JoinAccepted(n) => r.nbRep = 0 /\ ~r.counterUsed)
          /\ r.mcps.Status = n.mcps.Status
      BY <2>2, <3>1, PlainFinished DEF Found
    <3>3. ~TxMayTimeOut => ~TimedOut(n)
      BY DEF Found, Counted, Fresh
    <3>4. CASE Pending(n)
      <4>1. /\ ~JoinProcedure(n) /\ n.mcps.Request # "CONFIRMED"
            /\ TimedOut(n) => n.nbRep < ChannelsNbRep
        BY <2>2, <3>4 DEF Found, Counted, Tried, JoinProcedure
      <4> QED BY <1>4, <1>6, <3>2, <3>3, <3>4, <4>1
    <3>5. CASE ~Pending(n)
      <4>1. /\ n.joined => JoinAccepted(n) /\ ~TimedOut(n)
            /\ JoinProcedure(n)
        BY <3>5 DEF Found, Counted, Alone
      <4> QED BY <1>4, <1>6, <3>2, <3>5, <4>1
    <3> QED BY <3>4, <3>5
  <2> QED BY <2>1, <2>2
<1>8. ~TxMayTimeOut => ~TimedOut(d)
  BY <1>4, <1>7 DEF Found, Counted, Fresh, TimedOut
<1>9. ~IsQueued(<<>>, "JOIN")
  BY DEF IsQueued
<1>10. Alone(d)
  BY <1>3, <1>5, <1>9 DEF Alone
<1>11. Tried(d) /\ Heeded(d) /\ Fresh(d)
  BY <1>3, <1>4, <1>7, <1>8 DEF Tried, Heeded, Fresh
<1>12. Counted(d)
  BY <1>10, <1>11 DEF Counted
<1> QED BY <1>3, <1>7, <1>12 DEF d

\* The procedure goes on with the next transmission, or waits for its end.
LEMMA WaitingCounts ==
  ASSUME NEW n, Found(n), NEW out \in Outcomes, out = "LENGTH" => n.nodeAck,
         NEW r, r = Finish(n, out), r.state # {}
  PROVE  LET t == TimerStart(r, "MacStateCheck") IN
         /\ t \in Macs /\ Counted(t)
         /\ Pending(t) <=> Pending(n)
<1> DEFINE t == TimerStart(r, "MacStateCheck")
<1>1. /\ r \in Macs /\ Kept(r, n, EndFields) /\ (r.nodeAck => n.nodeAck)
      /\ r.flags \in {n.flags, n.flags \ {"MacDone"}} /\ r.radio # "TX"
  <2>1. Checked(r, n)
    BY FinishedChecked DEF Found
  <2>2. n.radio # "TX"
    BY DEF Found, FoundDone, Resting
  <2> QED BY <2>1, <2>2 DEF Checked, Ended, Again
<1>2. t \in Macs /\ Kept(t, r, {"timers"}) /\ t.timers = r.timers \cup {"MacStateCheck"}
  BY <1>1, BaseTypes, BaseEffects DEF Timers
<1> HIDE DEF t
<1>3. /\ t.queue = n.queue /\ t.joined = n.joined /\ t.sent = n.sent /\ t.heardAck = n.heardAck
      /\ t.common = n.common
  BY <1>1, <1>2 DEF Kept, Fields, EndFields
<1>4. /\ t.state = r.state /\ t.mcps = r.mcps /\ t.nbRep = r.nbRep /\ t.frame = r.frame
      /\ t.ackCnt = r.ackCnt /\ t.nodeAck = r.nodeAck /\ t.ackRetry = r.ackRetry
      /\ t.flags = r.flags /\ t.radio = r.radio
  BY <1>2 DEF Kept, Fields
<1>5. ToSend(t) <=> ToSend(r)
  BY <1>2, <1>4 DEF ToSend
<1>6. /\ Pending(t) <=> Pending(n)
      /\ "MlmeReq" \in t.flags <=> "MlmeReq" \in n.flags
  BY <1>1, <1>4 DEF Pending
<1>7. n.sent \in Nat /\ n.ackCnt \in Nat /\ n.nbRep \in Nat /\ n.nodeAck \in BOOLEAN
  BY DEF Found, FoundDone, Macs
<1>8. n.radio # "TX"
  BY DEF Found, FoundDone, Resting
<1>9. CASE n.nodeAck
  <2>1. /\ Pending(n) /\ n.nbRep < ChannelsNbRep /\ n.mcps.Request = "CONFIRMED"
        /\ n.sent <= n.ackCnt
        /\ n.mcps.AckReceived => ~TimedOut(n)
        /\ n.heardAck <=> n.mcps.AckReceived
        /\ "RX_ABORT" \in n.state => n.ackRetry
    BY <1>9 DEF Found, Counted, Tried, Heeded
  <2>2. /\ r.nbRep = n.nbRep /\ r.frame = n.frame /\ r.mcps.Request = n.mcps.Request
        /\ r.mcps.Status \in {n.mcps.Status, "SIZE"}
        /\ r.mcps.AckReceived <=> n.mcps.AckReceived
        /\ r.nodeAck /\ ~n.mcps.AckReceived /\ "RX_ABORT" \notin r.state
        /\ \/ ToSend(r) /\ r.ackCnt = n.ackCnt + 1
           \/ ~ToSend(r) /\ r.ackCnt = n.ackCnt
    BY <1>9, <2>1, AckFinished DEF Found
  <2>3. TimedOut(t) => TimedOut(n)
    BY <1>3, <1>4, <2>2 DEF TimedOut
  <2>4. Alone(t)
    BY <1>3, <1>6, <2>3 DEF Found, Counted, Alone
  <2>5. Tried(t)
    <3>1. t.sent <= IF ToSend(t) THEN t.ackCnt - 1 ELSE t.ackCnt
      BY <1>3, <1>4, <1>5, <1>7, <2>1, <2>2
    <3> QED BY <1>4, <2>1, <2>2, <3>1 DEF Tried
  <2>6. Heeded(t)
    BY <1>3, <1>4, <2>1, <2>2 DEF Heeded
  <2>7. Fresh(t)
    BY <1>4, <1>6, <2>1, <2>2, <2>3 DEF Found, Counted, Fresh
  <2> QED BY <1>2, <1>6, <2>4, <2>5, <2>6, <2>7 DEF Counted, t
<1>10. CASE ~n.nodeAck
  <2>1. out \in {"CAD", "DELAY"} /\ n.flags \cap {"McpsReq", "MlmeReq"} # {}
    BY <1>10 DEF Outcomes, Found, Pending, JoinProcedure
  <2>2. /\ ~TimedOut(n) /\ ToSend(r) /\ "RX_ABORT" \notin r.state
        /\ JoinProcedure(n) => r.frame = "JOIN"
        /\ ~JoinProcedure(n) =>
             r.nbRep = n.nbRep /\ r.frame = n.frame /\ n.nbRep < ChannelsNbRep
        /\ r.mcps.Status = n.mcps.Status /\ r.mcps.Request = n.mcps.Request
    BY <1>10, <2>1, PlainFinished DEF Found
  <2>3. ~TimedOut(t) /\ ~t.nodeAck
    BY <1>1, <1>3, <1>4, <1>10, <2>2 DEF TimedOut
  <2>4. Alone(t)
    BY <1>3, <1>6, <2>3 DEF Found, Counted, Alone
  <2>5. Heeded(t)
    BY <2>3 DEF Heeded
  <2>6. CASE Pending(n)
    <3>1. ~JoinProcedure(n) /\ n.mcps.Request # "CONFIRMED" /\ n.sent <= n.nbRep
      <4>1. n.mcps.Status # "TX_TIMEOUT"
        BY <2>2 DEF TimedOut
      <4> QED BY <1>8, <1>10, <2>6, <4>1 DEF Found, Counted, Tried, JoinProcedure
    <3>2. Tried(t)
      BY <1>1, <1>3, <1>4, <1>5, <2>2, <2>3, <3>1 DEF Tried
    <3>3. Fresh(t)
      BY <1>4, <1>6, <2>2, <2>3, <2>6, <3>1 DEF Found, Counted, Fresh
    <3> QED BY <1>2, <1>6, <2>4, <2>5, <3>2, <3>3 DEF Counted, t
  <2>7. CASE ~Pending(n)
    <3>1. t.frame = "JOIN"
      BY <1>4, <2>2, <2>7 DEF Found
    <3>2. Tried(t) /\ Fresh(t)
      BY <1>4, <1>6, <2>3, <2>7, <3>1 DEF Tried, Fresh
    <3> QED BY <1>2, <1>6, <2>4, <2>5, <3>2 DEF Counted, t
  <2> QED BY <2>6, <2>7
<1> QED BY <1>9, <1>10

\* The indication of a frame touches neither an uplink nor its transmission.
LEMMA IndicatedCounts ==
  ASSUME NEW m \in Macs, Counted(m)
  PROVE  LET r == Indicate(m) IN
         Counted(r) /\ (Pending(r) <=> Pending(m)) /\ r.mcps = m.mcps
<1> DEFINE u == Unmark(m, {"McpsInd", "McpsIndSkip"})
           r == Indicate(m)
<1>1. u \in Macs /\ Kept(u, m, {"flags"}) /\ u.flags = m.flags \ {"McpsInd", "McpsIndSkip"}
  BY BaseTypes, BaseEffects
<1>2. r = IF "McpsInd" \notin m.flags THEN m
          ELSE IF m.class = "C" THEN OpenContinuousRx2Window(u) ELSE u
  BY DEF Indicate
<1> HIDE DEF u, r
<1>3. u.class = m.class /\ u.timers = m.timers /\ u.radio = m.radio
  BY <1>1 DEF Kept, Fields
<1>4. /\ Kept(r, m, {"flags", "timers", "radio", "rxSlot"})
      /\ r.flags \in {m.flags, m.flags \ {"McpsInd", "McpsIndSkip"}}
      /\ r.timers \in {m.timers, m.timers \ {"RxWindow2"}}
      /\ r.radio = "TX" <=> m.radio = "TX"
  <2>1. CASE "McpsInd" \notin m.flags
    BY <1>2, <2>1 DEF Kept
  <2>2. CASE "McpsInd" \in m.flags /\ m.class = "C"
    <3>1. /\ Kept(r, u, {"timers", "radio", "rxSlot"}) /\ r.timers = u.timers \ {"RxWindow2"}
          /\ r.radio = IF RadioIdle(u) THEN "RXC" ELSE u.radio
      BY <1>1, <1>2, <1>3, <2>2, ContinuousWindowOpened
    <3>2. r.flags = u.flags /\ Kept(r, m, {"flags", "timers", "radio", "rxSlot"})
      BY <1>1, <3>1 DEF Kept, Fields
    <3> QED BY <1>1, <1>3, <3>1, <3>2 DEF RadioIdle
  <2>3. CASE "McpsInd" \in m.flags /\ m.class # "C"
    <3>1. r = u
      BY <1>2, <2>3
    <3>2. Kept(u, m, {"flags", "timers", "radio", "rxSlot"})
      BY <1>1 DEF Kept
    <3> QED BY <1>1, <1>3, <3>1, <3>2
  <2> QED BY <2>1, <2>2, <2>3
<1>5. /\ r.mcps = m.mcps /\ r.common = m.common /\ r.state = m.state /\ r.nodeAck = m.nodeAck
      /\ r.ackRetry = m.ackRetry
  BY <1>4 DEF Kept, Fields
<1>6. SameUplink(r, m)
  <2>1. Kept(r, m, {"class", "state", "timers", "radio", "rxSlot", "ackRetry", "ackMax",
                     "joinTrials", "joinMax", "cadCnt", "mlmeRequest", "common", "flags"})
    BY <1>4 DEF Kept
  <2> QED BY <1>4, <2>1, FieldsSame
<1>7. (ToSend(r) <=> ToSend(m)) /\ (TimedOut(r) <=> TimedOut(m))
  BY <1>4, <1>5 DEF ToSend, TimedOut
<1>8. "RX_ABORT" \in r.state /\ r.nodeAck => r.ackRetry
  BY <1>5 DEF Counted, Heeded
<1>9. Counted(r)
  BY <1>4, <1>5, <1>6, <1>7, <1>8, Carried
<1> QED BY <1>5, <1>6, <1>9 DEF r, SameUplink

\* The state check keeps the counts, and the confirm it delivers tells whether
\* the ACK was heard.
LEMMA MacStateCheckCounts ==
  ASSUME OrderlyUse, UInv, NEW out \in Outcomes, MacStateCheck(out)
  PROVE  /\ Counted(mac')
         /\ Pending(mac) /\ ~Pending(mac') /\ mac.mcps.Request = "CONFIRMED" =>
              mac'.mcps.AckReceived = mac.heardAck
<1> DEFINE n  == TimerStop(mac, "MacStateCheck")
           r  == Finish(n, out)
           m2 == IF "MacDone" \in n.flags THEN r ELSE n
           m3 == IF m2.state = {} THEN Deliver(m2) ELSE TimerStart(m2, "MacStateCheck")
<1>1. mac \in Macs /\ Sound(mac) /\ Counted(mac)
  BY DEF UInv, IInv, Sound
<1>2. "MacStateCheck" \in mac.timers /\ mac' = Indicate(m3)
  BY DEF MacStateCheck
<1>3. out = "LENGTH" => mac.nodeAck
  <2>1. ~DataRateMayChange
    <3>1. mac.class = "C" => "C" \in Classes
      BY <1>1 DEF Sound, Phase
    <3> QED BY <3>1 DEF OrderlyUse, DataRateMayChange
  <2> QED BY <2>1 DEF MacStateCheck
<1>4. /\ n.flags = mac.flags /\ n.nodeAck = mac.nodeAck /\ n.state = mac.state
      /\ n.queue = mac.queue /\ n.mcps = mac.mcps /\ n.heardAck = mac.heardAck
  <2>1. Kept(n, mac, {"timers"})
    BY <1>1, BaseEffects
  <2> HIDE DEF n
  <2> QED BY <2>1 DEF Kept, Fields
<1>5. mac.state # {}
  BY <1>1, <1>2 DEF Sound, Phase, InPhase, Idle, Sensing, Delayed, Imminent, OnAir, Listening, Over
<1>6. TimerStart(n, "MacStateCheck") = mac
  BY <1>1, <1>2, StopStart
<1> HIDE DEF n, r
<1>7. /\ m3 \in Macs /\ Counted(m3)
      /\ Pending(mac) /\ ~Pending(m3) /\ mac.mcps.Request = "CONFIRMED" =>
           m3.mcps.AckReceived = mac.heardAck
  <2>1. CASE ~Done(mac) \/ "AckTimeout" \in mac.timers
    <3>1. m2 = n
      <4>1. CASE ~Done(mac)
        BY <1>4, <4>1 DEF Done
      <4>2. CASE Done(mac) /\ "AckTimeout" \in mac.timers
        BY <1>1, <1>2, <4>2, StillWaiting DEF r, n
      <4> QED BY <2>1, <4>1, <4>2
    <3>2. m3 = mac
      BY <1>4, <1>5, <1>6, <3>1
    <3> HIDE DEF m3
    <3> QED BY <1>1, <3>2
  <2>2. CASE Done(mac) /\ "AckTimeout" \notin mac.timers
    <3>1. m2 = r
      BY <1>4, <2>2 DEF Done
    <3>2. Found(n) /\ (out = "LENGTH" => n.nodeAck)
      BY <1>1, <1>2, <1>3, <1>4, <2>2, FoundCounted DEF n
    <3>3. \A i \in DOMAIN n.queue : n.queue[i].ReadyToHandle
      BY <1>1, <1>2, <1>4 DEF Sound, Queue
    <3>4. CASE r.state = {}
      <4> DEFINE d == Deliver(r)
      <4>1. m3 = d
        BY <3>1, <3>4
      <4>2. /\ d \in Macs /\ Counted(d) /\ ~Pending(d)
            /\ Pending(n) /\ n.mcps.Request = "CONFIRMED" => (d.mcps.AckReceived <=> n.heardAck)
        BY <3>2, <3>3, <3>4, DeliveredCounts DEF r
      <4> HIDE DEF d, m3
      <4>3. d.mcps.AckReceived \in BOOLEAN /\ mac.heardAck \in BOOLEAN
        BY <1>1, <4>2 DEF Macs
      <4> QED BY <1>4, <4>1, <4>2, <4>3 DEF Pending
    <3>5. CASE r.state # {}
      <4> DEFINE t == TimerStart(r, "MacStateCheck")
      <4>1. m3 = t
        BY <3>1, <3>5
      <4>2. t \in Macs /\ Counted(t) /\ (Pending(t) <=> Pending(n))
        BY <3>2, <3>5, WaitingCounts DEF r
      <4> HIDE DEF t, m3
      <4> QED BY <1>4, <4>1, <4>2 DEF Pending
    <3> QED BY <3>4, <3>5
  <2> QED BY <2>1, <2>2
<1> HIDE DEF m3
<1>8. Counted(Indicate(m3)) /\ (Pending(Indicate(m3)) <=> Pending(m3)) /\ Indicate(m3).mcps = m3.mcps
  BY <1>7, IndicatedCounts
<1> QED BY <1>2, <1>7, <1>8

-----------------------------------------------------------------------------
(* The requests of the application.                                          *)

\* A MAC that is idle, or that senses the channel for a join request.
LEMMA BeforeRequest ==
  ASSUME UInv, mac.state \cap {"TX_RUNNING", "TX_DELAYED"} = {}, ~Pending(mac)
  PROVE  /\ mac.state = {} \/ ~mac.joined
         /\ ~(mac.joined /\ IsQueued(mac.queue, "JOIN"))
         /\ mac.joined => mac.queue = <<>> /\ "MlmeReq" \notin mac.flags
<1>1. ~Over(mac)
  BY DEF Over
<1>2. ~(mac.joined /\ IsQueued(mac.queue, "JOIN"))
  BY <1>1 DEF UInv, IInv, Sound, Joins
<1>3. mac.state = {} \/ ~mac.joined
  BY <1>2 DEF UInv, IInv, Sound, Uplink, Pending
<1> QED BY <1>2, <1>3 DEF UInv, Counted, Alone

\* An uplink that is accepted has not been sent nor answered; one that is
\* refused leaves the frame of a join procedure behind.
LEMMA McpsRequestCounts ==
  ASSUME UInv, OrderlyUse, NEW type \in Uplinks, NEW out \in Outcomes, McpsRequest(type, out)
  PROVE  Counted(mac')
<1> DEFINE max == IF type = "CONFIRMED" THEN NbTrials ELSE 1
           fr  == IF ~mac.joined THEN "NONE" ELSE IF mac.counterUsed THEN "REUSED" ELSE "FRESH"
           mc  == [Request |-> "UNCONFIRMED", Status |-> "ERROR", AckReceived |-> FALSE]
           m1  == [mac EXCEPT !.ackCnt = 1, !.ackMax = max, !.mcps = mc, !.nodeAck = FALSE,
                              !.frame = fr]
           ack == type = "CONFIRMED"
           m2  == [m1 EXCEPT !.nodeAck = ack, !.sent = 0, !.heardAck = FALSE]
           s   == ScheduleTx(m2, out)
           m3  == [s EXCEPT !.mcps.Request = type]
<1>1. type \in {"CONFIRMED", "UNCONFIRMED"} /\ mac \in Macs /\ Counted(mac)
  BY ConfigurationAssumption DEF UInv, IInv, Sound
<1>2. max \in {1, NbTrials} /\ 1 \in Nat /\ 0 \in 0 .. SentCap
      /\ mc \in [Request : {"CONFIRMED", "UNCONFIRMED"}, Status : Results, AckReceived : BOOLEAN]
      /\ fr \in {"NONE", "JOIN", "FRESH", "REUSED"} /\ ack \in BOOLEAN
      /\ mc.AckReceived = FALSE /\ mc.Status = "ERROR"
  BY <1>1, BoundsAssumption DEF Results
<1>3. /\ mac.state \cap {"TX_RUNNING", "TX_DELAYED"} = {} /\ ~Pending(mac)
      /\ mac' = IF mac.joined /\ out # "LENGTH" THEN Mark(m3, {"McpsReq"}) ELSE m1
  BY DEF McpsRequest, OrderlyUse, Pending
<1>4. (~mac.joined => fr = "NONE") /\ (mac.joined /\ ~mac.counterUsed => fr = "FRESH")
      /\ (ack <=> type = "CONFIRMED")
  OBVIOUS
<1> HIDE DEF max, fr, mc, ack
<1>5. m1 \in Macs
  BY <1>1, <1>2, ZenonT(40) DEF Macs
<1>6. /\ Kept(m1, mac, {"ackCnt", "ackMax", "mcps", "nodeAck", "frame"})
      /\ m1.ackCnt = 1 /\ m1.mcps = mc /\ ~m1.nodeAck /\ m1.frame = fr
  BY <1>1 DEF Macs, Kept, Fields
<1>7. /\ mac.state = {} \/ ~mac.joined
      /\ ~(mac.joined /\ IsQueued(mac.queue, "JOIN"))
      /\ mac.joined => mac.queue = <<>> /\ "MlmeReq" \notin mac.flags
  BY <1>3, BeforeRequest
<1> HIDE DEF m1
<1>8. CASE ~(mac.joined /\ out # "LENGTH")
  <2>1. mac' = m1
    BY <1>3, <1>8
  <2>2. /\ m1.state = mac.state /\ m1.queue = mac.queue /\ m1.flags = mac.flags
        /\ m1.joined = mac.joined /\ m1.nbRep = mac.nbRep /\ m1.common = mac.common
        /\ m1.counterUsed = mac.counterUsed
    BY <1>6 DEF Kept, Fields
  <2>3. Alone(m1)
    BY <1>1, <1>7, <2>2 DEF Counted, Alone
  <2>4. Tried(m1) /\ Heeded(m1)
    BY <1>1, <1>3, <1>6, <2>2 DEF Counted, Tried, Heeded, Pending
  <2>5. Fresh(m1)
    BY <1>1, <1>2, <1>3, <1>4, <1>6, <1>7, <2>2 DEF Counted, Fresh, Pending, TimedOut
  <2> QED BY <2>1, <2>3, <2>4, <2>5 DEF Counted
<1>9. CASE mac.joined /\ out # "LENGTH"
  <2>1. mac' = Mark(m3, {"McpsReq"}) /\ mac.state = {}
    BY <1>3, <1>7, <1>9
  <2>2. m2 \in Macs
    BY <1>2, <1>5 DEF Macs
  <2>3. Kept(m2, m1, {"nodeAck", "sent", "heardAck"}) /\ m2.nodeAck = ack /\ m2.sent = 0
        /\ m2.heardAck = FALSE
    BY <1>5 DEF Macs, Kept, Fields
  <2> HIDE DEF m2
  <2>4. /\ s \in Macs /\ Kept(s, m2, {"state", "timers", "radio"})
        /\ out = "CAD" => s.state = m2.state \cup {"CAD_RUNNING"}
        /\ out = "DELAY" => s.state = m2.state \cup {"TX_DELAYED"}
    BY <2>2, Scheduled
  <2> HIDE DEF s
  <2>5. m3 \in Macs
    BY <1>1, <2>4 DEF Macs
  <2>6. /\ Kept(m3, s, {"mcps"}) /\ m3.mcps.AckReceived = s.mcps.AckReceived
        /\ m3.mcps.Status = s.mcps.Status /\ m3.mcps.Request = type
    BY <2>4 DEF Macs, Kept, Fields
  <2> HIDE DEF m3
  <2>7. Kept(mac', m3, {"flags"}) /\ mac'.flags = m3.flags \cup {"McpsReq"}
    BY <2>1, <2>5, BaseEffects
  <2>8. /\ m3.flags = mac.flags /\ s.mcps = mc /\ m2.state = mac.state
        /\ mac'.state = s.state /\ mac'.mcps = m3.mcps /\ mac'.ackCnt = 1
        /\ mac'.nodeAck = ack /\ mac'.sent = 0 /\ mac'.heardAck = FALSE /\ mac'.frame = fr
    BY <1>6, <2>3, <2>4, <2>6, <2>7 DEF Kept, Fields
  <2>9. /\ mac'.joined = mac.joined /\ mac'.queue = mac.queue /\ mac'.nbRep = mac.nbRep
        /\ mac'.common = mac.common
    BY <1>6, <2>3, <2>4, <2>6, <2>7 DEF Kept, Fields
  <2>10. mac'.state \in {{"CAD_RUNNING"}, {"TX_DELAYED"}}
    BY <1>9, <2>1, <2>4, <2>8 DEF Outcomes
  <2>11. ToSend(mac') /\ mac'.state # {} /\ "RX_ABORT" \notin mac'.state /\ Pending(mac')
    BY <2>7, <2>10 DEF ToSend, Pending
  <2>12. Alone(mac')
    BY <1>7, <1>9, <2>7, <2>8, <2>9 DEF Alone
  <2>13. Tried(mac')
    <3>1. mac.nbRep < ChannelsNbRep /\ mac.nbRep \in Nat /\ ChannelsNbRep \in Nat
      BY <1>1, <1>9, <2>1, BoundsAssumption DEF Counted, Tried, Macs
    <3> QED BY <1>4, <2>6, <2>8, <2>9, <2>11, <3>1 DEF Tried
  <2>14. Heeded(mac')
    BY <1>2, <2>6, <2>8, <2>11 DEF Heeded
  <2>15. Fresh(mac')
    <3>1. ~TxMayTimeOut => ~TimedOut(mac')
      BY <1>1, <1>2, <2>6, <2>8, <2>9 DEF Counted, Fresh, TimedOut
    <3>2. ~TxMayTimeOut => fr = "FRESH"
      BY <1>1, <1>4, <1>9, <2>1 DEF Counted, Fresh
    <3> QED BY <2>8, <2>11, <3>1, <3>2 DEF Fresh
  <2> QED BY <2>12, <2>13, <2>14, <2>15 DEF Counted
<1> QED BY <1>8, <1>9

\* A join request is alone, and concerns no uplink.
LEMMA JoinRequestCounts ==
  ASSUME UInv, NEW out \in Outcomes \ {"LENGTH"}, Join(out)
  PROVE  Counted(mac')
<1> DEFINE q  == Append(mac.queue, Queued("JOIN", "JOIN_FAIL", FALSE))
           n  == ResetMacParameters(mac)
           m1 == [n EXCEPT !.queue = q, !.joinTrials = 0, !.joinMax = MaxJoinTrials,
                           !.frame = "JOIN", !.mcps.AckReceived = FALSE, !.sent = 0]
           m2 == Mark(m1, {"MlmeReq"})
<1>1. mac.state = {} /\ ~mac.joined /\ mac \in Macs /\ Counted(mac)
  BY DEF Join, MlmeRequest, UInv, IInv, Sound
<1>2. ~Pending(mac) /\ mac.queue = <<>> /\ mac.queue \in Seq(MlmeElement)
  BY <1>1, WhenIdle DEF UInv, Pending, Macs
<1>3. q \in Seq(MlmeElement) /\ IsQueued(q, "JOIN")
  <2>1. Len(mac.queue) = 0
    BY <1>2
  <2> HIDE DEF q
  <2>2. /\ q \in Seq(MlmeElement) /\ DOMAIN q = 1 .. Len(mac.queue) + 1
        /\ q[Len(mac.queue) + 1] = Queued("JOIN", "JOIN_FAIL", FALSE)
    BY <1>2, QueueAppended DEF Results, q
  <2>3. Len(mac.queue) + 1 = 1 /\ 1 .. 1 = {1}
    BY <2>1
  <2>4. 1 \in DOMAIN q /\ q[1] = Queued("JOIN", "JOIN_FAIL", FALSE)
    BY <2>2, <2>3
  <2> QED BY <2>2, <2>4 DEF IsQueued, Queued
<1>4. n \in Macs /\ Kept(n, mac, Restarted) /\ ~n.nodeAck
  BY <1>1, ParametersReset
<1>5. n.queue = mac.queue
  BY <1>4 DEF Kept, Fields, Restarted
<1>6. mac' = ScheduleTx(m2, out)
  BY <1>4, <1>5 DEF Join, Macs
<1> HIDE DEF n, q
<1>7. m1 \in Macs
  <2>1. 0 \in Nat /\ 0 \in 0 .. SentCap /\ MaxJoinTrials \in {1, MaxJoinTrials}
    BY BoundsAssumption
  <2> QED BY <1>3, <1>4, <2>1 DEF Macs
<1>8. /\ Kept(m1, n, {"queue", "joinTrials", "joinMax", "frame", "mcps", "sent"})
      /\ m1.queue = q /\ m1.mcps.Status = n.mcps.Status /\ m1.frame = "JOIN"
  BY <1>4 DEF Macs, Kept, Fields
<1> HIDE DEF m1
<1>9. m2 \in Macs /\ Kept(m2, m1, {"flags"}) /\ m2.flags = m1.flags \cup {"MlmeReq"}
  BY <1>7, BaseTypes, BaseEffects
<1> HIDE DEF m2
<1>10. /\ Kept(mac', m2, {"state", "timers", "radio"})
       /\ out = "CAD" => mac'.state = m2.state \cup {"CAD_RUNNING"}
       /\ out = "DELAY" => mac'.state = m2.state \cup {"TX_DELAYED"}
  BY <1>6, <1>9, Scheduled
<1>11. /\ mac'.queue = q /\ mac'.frame = "JOIN" /\ mac'.nodeAck = n.nodeAck
       /\ mac'.flags = m2.flags /\ m1.flags = mac.flags /\ m2.state = mac.state
       /\ mac'.joined = mac.joined /\ mac'.mcps = m1.mcps /\ n.mcps = mac.mcps
       /\ mac'.common = mac.common
  BY <1>4, <1>8, <1>9, <1>10 DEF Kept, Fields, Restarted
<1>12. mac'.state # {} /\ "RX_ABORT" \notin mac'.state
  BY <1>1, <1>10, <1>11 DEF Outcomes
<1>13. ~Pending(mac') /\ (TimedOut(mac') <=> TimedOut(mac))
  BY <1>2, <1>8, <1>9, <1>11 DEF Pending, TimedOut
<1>14. Alone(mac')
  BY <1>1, <1>3, <1>11 DEF Alone
<1>15. Tried(mac') /\ Heeded(mac') /\ Fresh(mac')
  BY <1>1, <1>4, <1>11, <1>12, <1>13 DEF Counted, Tried, Heeded, Fresh
<1> QED BY <1>14, <1>15 DEF Counted

\* A change of the device class comes when nothing is pending.
LEMMA SwitchClassCounts ==
  ASSUME UInv, OrderlyUse, NEW class \in Classes, SwitchClass(class)
  PROVE  Counted(mac')
<1> DEFINE n  == [mac EXCEPT !.class = class]
           m1 == Sleep(n)
           m2 == [m1 EXCEPT !.nodeAck = FALSE]
<1>1. /\ mac.state = {} /\ mac \in Macs /\ class \in {"A", "C"} /\ Counted(mac)
      /\ mac' = IF class = "C" THEN OpenContinuousRx2Window(m2) ELSE m1
  BY ConfigurationAssumption DEF SwitchClass, OrderlyUse, UInv, IInv, Sound
<1>2. ~Pending(mac)
  BY <1>1, WhenIdle DEF UInv, Pending
<1>3. n \in Macs /\ n.class = class
  BY <1>1 DEF Macs
<1>4. Kept(n, mac, {"class"})
  BY <1>1 DEF Macs, Kept, Fields
<1> HIDE DEF n
<1>5. m1 \in Macs /\ Kept(m1, n, {"radio"})
  BY <1>3, BaseTypes, BaseEffects
<1> HIDE DEF m1
<1>6. m2 \in Macs
  BY <1>5 DEF Macs
<1>7. Kept(m2, m1, {"nodeAck"})
  BY <1>5 DEF Macs, Kept, Fields
<1> HIDE DEF m2
<1>8. m2.class = class
  BY <1>3, <1>5, <1>7 DEF Kept, Fields
<1>9. Kept(mac', mac, {"class", "radio", "nodeAck", "timers", "rxSlot"})
  <2>1. CASE class = "C"
    <3>1. Kept(mac', m2, {"timers", "radio", "rxSlot"})
      BY <1>1, <1>6, <1>8, <2>1, ContinuousWindowOpened
    <3> QED BY <1>4, <1>5, <1>7, <3>1 DEF Kept
  <2>2. CASE class # "C"
    BY <1>1, <1>4, <1>5, <2>2 DEF Kept
  <2> QED BY <2>1, <2>2
<1>10. /\ mac'.state = {} /\ mac'.joined = mac.joined /\ mac'.mcps = mac.mcps
       /\ mac'.flags = mac.flags /\ mac'.queue = mac.queue /\ mac'.common = mac.common
       /\ mac'.nbRep = mac.nbRep /\ mac'.counterUsed = mac.counterUsed
  BY <1>1, <1>9 DEF Kept, Fields
<1>11. ~Pending(mac') /\ (TimedOut(mac') <=> TimedOut(mac))
  BY <1>2, <1>10 DEF Pending, TimedOut
<1>12. Alone(mac')
  BY <1>1, <1>10, <1>11 DEF Counted, Alone
<1>13. Tried(mac') /\ Heeded(mac') /\ Fresh(mac')
  BY <1>1, <1>10, <1>11 DEF Counted, Tried, Heeded, Fresh
<1> QED BY <1>12, <1>13 DEF Counted

-----------------------------------------------------------------------------
(* The theorems.                                                             *)

\* The counts are right initially.
LEMMA InitCounts == Init => UInv
<1> SUFFICES ASSUME Init PROVE UInv
  OBVIOUS
<1>1. IInv
  BY InitEstablishes
<1>2. /\ mac.state = {} /\ mac.flags = {} /\ mac.queue = <<>> /\ mac.nbRep = 0
      /\ ~mac.counterUsed /\ mac.common = "OK" /\ mac.mcps.Status = "OK"
  BY DEF Init
<1>3. ~IsQueued(mac.queue, "JOIN") /\ 0 < ChannelsNbRep
  BY <1>2, BoundsAssumption DEF IsQueued
<1>4. Alone(mac) /\ Tried(mac) /\ Heeded(mac) /\ Fresh(mac)
  BY <1>2, <1>3 DEF Alone, Tried, Heeded, Fresh, Pending, TimedOut
<1> QED BY <1>1, <1>4 DEF UInv, Counted

\* Every step keeps them.
LEMMA StepCounts ==
  ASSUME OrderlyUse, OnlyJoins, UInv, [Next]_mac
  PROVE  UInv'
<1>0. IInv'
  BY StepKeeps DEF UInv
<1>1. CASE UNCHANGED mac
  <2>1. Counted(mac) /\ mac' = mac
    BY <1>1 DEF UInv
  <2>2. Counted(mac')
    BY <2>1
  <2> QED BY <1>0, <2>2 DEF UInv
<1>2. ASSUME NEW type \in Uplinks, NEW out \in Outcomes, McpsRequest(type, out) PROVE Counted(mac')
  BY <1>2, McpsRequestCounts
<1>3. ASSUME NEW out \in Outcomes \ {"LENGTH"}, Join(out) PROVE Counted(mac')
  BY <1>3, JoinRequestCounts
<1>4. ASSUME NEW fits \in BOOLEAN, LinkCheck(fits) PROVE FALSE
  BY <1>4 DEF LinkCheck, MlmeRequest, OnlyJoins
<1>5. ASSUME NEW class \in Classes, SwitchClass(class) PROVE Counted(mac')
  BY <1>5, SwitchClassCounts
<1>6. ASSUME NEW out \in Outcomes, MacStateCheck(out) PROVE Counted(mac')
  BY <1>6, MacStateCheckCounts
<1>7. ASSUME NEW out \in Outcomes, TxDelayed(out) PROVE Counted(mac')
  BY <1>7, TxDelayedCounts
<1>8. ASSUME TxImmediate PROVE Counted(mac')
  BY <1>8, TxImmediateCounts
<1>9. ASSUME RxWindow1 PROVE Counted(mac')
  BY <1>9, RxWindow1Counts
<1>10. ASSUME RxWindow2 PROVE Counted(mac')
  BY <1>10, RxWindow2Counts
<1>11. ASSUME AckTimeout PROVE Counted(mac')
  BY <1>11, AckTimeoutCounts
<1>12. ASSUME NEW busy \in BOOLEAN, CadDone(busy) PROVE Counted(mac')
  BY <1>12, CadDoneCounts
<1>13. ASSUME TxDone PROVE Counted(mac')
  BY <1>13, TxDoneCounts
<1>14. ASSUME TxTimeout PROVE Counted(mac')
  BY <1>14, TxTimeoutCounts
<1>15. ASSUME NEW f \in Downlinks, RxDone(f) PROVE Counted(mac')
  <2>1. f \in Frames
    BY ConfigurationAssumption
  <2> QED BY <1>15, <2>1, RxDoneCounts
<1>16. ASSUME NEW late \in BOOLEAN, RxError(late) \/ RxTimeout(late) PROVE Counted(mac')
  BY <1>16, EndWindowCounts
<1>17. Next => Counted(mac')
  BY <1>2, <1>3, <1>4, <1>5, <1>6, <1>7, <1>8, <1>9, <1>10, <1>11, <1>12, <1>13, <1>14,
     <1>15, <1>16 DEF Next, Request, Timer, RadioEvent
<1> QED BY <1>0, <1>1, <1>17 DEF UInv

\* They are right in every state.
LEMMA Counting == ASSUME OrderlyUse, OnlyJoins PROVE Spec => []UInv
<1>1. UInv /\ [Next]_mac => UInv'
  BY StepCounts
<1> QED BY InitCounts, <1>1, PTL DEF Spec

\* An uplink is sent at most as often as its request and the network allow:
\* AckTimeoutRetries if it asks for an ACK, ChannelsNbRep if it does not.
THEOREM TrialsKept == ASSUME OrderlyUse, OnlyJoins PROVE Spec => []TransmissionsBounded
<1>1. UInv => TransmissionsBounded
  <2> SUFFICES ASSUME UInv, Pending(mac)
               PROVE  mac.sent <= IF mac.mcps.Request = "CONFIRMED" THEN mac.ackMax
                                                                    ELSE ChannelsNbRep
    BY DEF TransmissionsBounded, Pending
  <2>1. /\ mac.sent \in Nat /\ mac.ackCnt \in 1 .. mac.ackMax /\ mac.ackMax \in Nat
        /\ mac.nbRep \in 0 .. ChannelsNbRep /\ ChannelsNbRep \in Nat /\ mac.nodeAck \in BOOLEAN
    BY BoundsAssumption DEF UInv, IInv, Sound, Acks, Macs
  <2>2. CASE mac.nodeAck
    <3>1. mac.mcps.Request = "CONFIRMED" /\ (mac.sent <= mac.ackCnt \/ mac.sent <= mac.ackCnt - 1)
      BY <2>2 DEF UInv, Counted, Tried
    <3> QED BY <2>1, <3>1
  <2>3. CASE ~mac.nodeAck
    <3>1. /\ mac.mcps.Request # "CONFIRMED"
          /\ mac.sent <= mac.nbRep \/ (mac.sent <= mac.nbRep + 1 /\ mac.nbRep < ChannelsNbRep)
      BY <2>3 DEF UInv, Counted, Tried, TimedOut
    <3> QED BY <2>1, <3>1
  <2> QED BY <2>2, <2>3
<1> QED BY <1>1, Counting, PTL

\* No two data frames of a session are sent with the same UpLinkCounter, as
\* long as the radio reports what it has sent.
THEOREM CountersFresh ==
  ASSUME OrderlyUse, OnlyJoins, ~TxMayTimeOut PROVE Spec => []CounterNotReused
<1>1. UInv => CounterNotReused
  <2> SUFFICES ASSUME UInv, mac.radio = "TX" PROVE mac.frame # "REUSED"
    BY DEF CounterNotReused
  <2>1. mac.state # {}
    BY DEF UInv, IInv, Sound, Phase, InPhase, Idle, Sensing, Delayed, Imminent, OnAir, Listening,
       Over, Resting
  <2> QED BY <2>1 DEF UInv, Counted, Fresh
<1> QED BY <1>1, Counting, PTL

\* The confirm of a confirmed uplink tells whether the ACK was heard.
THEOREM AcksReported == ASSUME OrderlyUse, OnlyJoins PROVE Spec => AckIsReported
<1>1. UInv /\ [Next]_mac =>
        [McpsConfirmed /\ mac.mcps.Request = "CONFIRMED" =>
           mac'.mcps.AckReceived = mac.heardAck]_mac
  <2> SUFFICES ASSUME UInv, Next, Pending(mac), ~Pending(mac'), mac.mcps.Request = "CONFIRMED"
               PROVE  mac'.mcps.AckReceived = mac.heardAck
    BY DEF McpsConfirmed, Pending
  <2>1. PICK out \in Outcomes : MacStateCheck(out)
    BY OnlyCheckConfirms DEF UInv
  <2> QED BY <2>1, MacStateCheckCounts
<1> QED BY <1>1, Counting, PTL DEF Spec, AckIsReported
=============================================================================
