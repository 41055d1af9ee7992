---------------------------- MODULE ConfirmQueue ----------------------------
(***************************************************************************)
(* The MLME confirm queue of LoRaMacConfirmQueue.c: a ring of QueueLen     *)
(* slots addressed by BufferStart and BufferEnd, with a count.  Removing   *)
(* an element moves a pointer and leaves the slot's contents behind.       *)
(*                                                                         *)
(* Requests are queued and taken back by LoRaMacMlmeRequest; the radio     *)
(* events answer them (any thread, at any moment); the MAC state check     *)
(* runs HandleCb, a loop over the elements present when it starts.  The    *)
(* application's callback runs inside that loop, before the element is     *)
(* removed, and may itself queue a request.                                *)
(***************************************************************************)
EXTENDS ConfirmElements, Integers, FiniteSets

CONSTANTS Mlme,         \* the kinds of request (Mlme_t)
          NoRequest,    \* the 0xFF a slot holds before its first use
          Statuses,     \* the results a confirm can carry
          ErrorStatus,  \* LORAMAC_EVENT_INFO_STATUS_ERROR
          Restricted,   \* requests queued with RestrictCommonReadyToHandle
          QueueLen,     \* LORA_MAC_MLME_CONFIRM_QUEUE_LEN
          ZeroConfirm   \* the zero-initialised MlmeConfirm

ASSUME QueueLenAssumption == QueueLen \in Nat \ {0}
ASSUME StatusAssumption == ErrorStatus \in Statuses
ASSUME RequestAssumption == NoRequest \notin Mlme /\ Restricted \subseteq Mlme
ASSUME ZeroAssumption == ZeroConfirm \in [Request : Mlme, Status : Statuses]

VARIABLES slot,          \* MlmeConfirmQueue[]
          BufferStart,   \* pointer to the oldest element
          BufferEnd,     \* pointer to the slot the next element goes to
          Cnt,           \* MlmeConfirmQueueCnt
          CommonStatus,
          confirm,       \* MlmeRequest and Status of the MlmeConfirm
          requesting,    \* the request LoRaMacMlmeRequest has just queued
          pc,            \* where HandleCb is
          left,          \* nbElements - i: iterations HandleCb has to go
          owed           \* history: requests of each kind not yet confirmed

vars == <<slot, BufferStart, BufferEnd, Cnt, CommonStatus, confirm,
          requesting, pc, left, owed>>

Slots == 0 .. QueueLen-1

Element == [Request : Mlme \cup {NoRequest}, Status : Statuses,
            ReadyToHandle : BOOLEAN, RestrictCommon : BOOLEAN]

Blank == [Request |-> NoRequest, Status |-> ErrorStatus,
          ReadyToHandle |-> TRUE, RestrictCommon |-> TRUE]

TypeOK ==
  /\ slot \in [Slots -> Element]
  /\ BufferStart \in Slots
  /\ BufferEnd \in Slots
  /\ Cnt \in 0 .. QueueLen
  /\ CommonStatus \in Statuses
  /\ confirm \in [Request : Mlme \cup {NoRequest}, Status : Statuses]
  /\ requesting \in Mlme \cup {NoRequest}
  /\ pc \in {"idle", "loop", "calling"}
  /\ left \in 0 .. QueueLen
  /\ owed \in [Mlme -> Int]

-----------------------------------------------------------------------------
\* Faulty: goes round one slot too late.
IncreaseTooFar(p) == IF p = QueueLen THEN 0 ELSE p+1

IncreaseBufferPointer(p) == IF p = QueueLen-1 THEN 0 ELSE p+1

\* Faulty: does not go round.
DecreaseToZero(p) == IF p = 0 THEN 0 ELSE p-1

DecreaseBufferPointer(p) == IF p = 0 THEN QueueLen-1 ELSE p-1

\* How many increases lead from p to q, going round the ring if needed.
Dist(p, q) == IF q >= p THEN q-p ELSE q-p + QueueLen

\* The slot n increases after p, for n up to the length of the ring.
Advance(p, n) == IF p+n >= QueueLen THEN p+n - QueueLen ELSE p+n

\* Faulty: a while loop, which does not visit a full ring.
VisitedByWhile ==
  {p \in Slots : Dist(BufferStart, p) < Dist(BufferStart, BufferEnd)}

\* The slots a do-while loop from BufferStart to BufferEnd visits: at least
\* one, and the whole ring when the two pointers are equal.
Visited ==
  IF BufferStart = BufferEnd
    THEN Slots
    ELSE {p \in Slots : Dist(BufferStart, p) < Dist(BufferStart, BufferEnd)}

\* Faulty: finds the youngest element.
GetElementYoungest(r) ==
  {p \in Visited :
     /\ slot[p].Request = r
     /\ \A q \in Visited :
          slot[q].Request = r => Dist(BufferStart, p) >= Dist(BufferStart, q)}

\* The slot GetElement returns, as a set: empty stands for NULL.
GetElement(r) ==
  {p \in Visited :
     /\ slot[p].Request = r
     /\ \A q \in Visited :
          slot[q].Request = r => Dist(BufferStart, p) <= Dist(BufferStart, q)}

IsCmdActive(r) == GetElement(r) # {}

GetStatus(r) ==
  IF Cnt > 0 /\ GetElement(r) # {}
    THEN slot[CHOOSE p \in GetElement(r) : TRUE].Status
    ELSE ErrorStatus

\* Faulty: lets one element too many in.
IsOverfull == Cnt > QueueLen

IsFull == Cnt >= QueueLen

-----------------------------------------------------------------------------
Init ==
  /\ slot = [p \in Slots |-> Blank]
  /\ BufferStart = 0 /\ BufferEnd = 0 /\ Cnt = 0
  /\ CommonStatus = ErrorStatus
  /\ confirm = ZeroConfirm
  /\ requesting = NoRequest /\ pc = "idle" /\ left = 0
  /\ owed = [r \in Mlme |-> 0]

\* The ring part of adding element e: nothing else of the queue changes.
PushBack(e) ==
  /\ slot' = [slot EXCEPT ![BufferEnd] = e]
  /\ BufferEnd' = IncreaseBufferPointer(BufferEnd)

\* LoRaMacMlmeRequest queues its request.  It runs on the thread of HandleCb
\* (from the callback) or while HandleCb is not running, and tests IsFull.
Add(r, st) ==
  /\ pc \in {"idle", "calling"} /\ requesting = NoRequest
  /\ ~IsFull
  /\ PushBack(Queued(r, st, r \in Restricted))
  /\ Cnt' = Cnt + 1
  /\ requesting' = r
  /\ owed' = [owed EXCEPT ![r] = @ + 1]
  /\ UNCHANGED <<BufferStart, CommonStatus, confirm, pc, left>>

\* The request was started: LoRaMacMlmeRequest returns OK.
Accept ==
  /\ requesting # NoRequest
  /\ requesting' = NoRequest
  /\ UNCHANGED <<slot, BufferStart, BufferEnd, Cnt, CommonStatus, confirm,
                 pc, left, owed>>

\* The request could not be started: LoRaMacMlmeRequest takes the element it
\* added back, and its caller is told that the request has failed.
RemoveLast ==
  /\ requesting # NoRequest
  /\ Cnt > 0
  /\ Cnt' = Cnt - 1
  /\ BufferEnd' = DecreaseBufferPointer(BufferEnd)
  /\ requesting' = NoRequest
  /\ owed' = [owed EXCEPT ![requesting] = @ - 1]
  /\ UNCHANGED <<slot, BufferStart, CommonStatus, confirm, pc, left>>

SetStatus(r, st) ==
  /\ Cnt > 0
  /\ \E p \in GetElement(r) : slot' = [slot EXCEPT ![p] = Answered(@, st)]
  /\ UNCHANGED <<BufferStart, BufferEnd, Cnt, CommonStatus, confirm,
                 requesting, pc, left, owed>>

SetStatusCmn(st) ==
  /\ CommonStatus' = st
  /\ slot' = IF Cnt = 0 THEN slot
             ELSE [p \in Slots |-> IF p \in Visited
                                     THEN CommonlyAnswered(slot[p], st)
                                     ELSE slot[p]]
  /\ UNCHANGED <<BufferStart, BufferEnd, Cnt, confirm, requesting,
                 pc, left, owed>>

-----------------------------------------------------------------------------
\* HandleCb, one action per stretch between callbacks.
HandleBegin ==
  /\ pc = "idle" /\ requesting = NoRequest
  /\ pc' = "loop"
  /\ left' = Cnt
  /\ UNCHANGED <<slot, BufferStart, BufferEnd, Cnt, CommonStatus, confirm,
                 requesting, owed>>

\* Every iteration first copies the front element to the MlmeConfirm.
CopyFront ==
  /\ pc = "loop" /\ left > 0
  /\ confirm' = [Request |-> slot[BufferStart].Request,
                 Status  |-> slot[BufferStart].Status]

\* The front element is ready: the application's callback starts.
HandleReady ==
  /\ CopyFront
  /\ slot[BufferStart].ReadyToHandle
  /\ pc' = "calling"
  /\ owed' = [owed EXCEPT ![slot[BufferStart].Request] = @ - 1]
  /\ UNCHANGED <<slot, BufferStart, BufferEnd, Cnt, CommonStatus,
                 requesting, left>>

\* The callback has returned: RemoveFirst.
HandleReturn ==
  /\ pc = "calling" /\ requesting = NoRequest
  /\ Cnt > 0
  /\ Cnt' = Cnt - 1
  /\ BufferStart' = IncreaseBufferPointer(BufferStart)
  /\ left' = left - 1
  /\ pc' = "loop"
  /\ UNCHANGED <<slot, BufferEnd, CommonStatus, confirm, requesting, owed>>

\* Faulty: an element that is stored again does not count as an iteration.
HandleStoreForever ==
  LET e == slot[BufferStart] IN
  /\ CopyFront
  /\ ~e.ReadyToHandle
  /\ BufferStart' = IncreaseBufferPointer(BufferStart)
  /\ PushBack(Queued(e.Request, e.Status, e.RestrictCommon))
  /\ UNCHANGED <<Cnt, CommonStatus, requesting, pc, left, owed>>

\* The front element has no answer yet: RemoveFirst, and Add again what was
\* stored of it (Add clears ReadyToHandle, the count goes down and up).
HandleStore ==
  LET e == slot[BufferStart] IN
  /\ CopyFront
  /\ ~e.ReadyToHandle
  /\ BufferStart' = IncreaseBufferPointer(BufferStart)
  /\ PushBack(Queued(e.Request, e.Status, e.RestrictCommon))
  /\ left' = left - 1
  /\ UNCHANGED <<Cnt, CommonStatus, requesting, pc, owed>>

HandleEnd ==
  /\ pc = "loop" /\ left = 0
  /\ pc' = "idle"
  /\ UNCHANGED <<slot, BufferStart, BufferEnd, Cnt, CommonStatus, confirm,
                 requesting, left, owed>>

HandleCb ==
  HandleBegin \/ HandleReady \/ HandleReturn \/ HandleStore \/ HandleEnd

Next ==
  \/ \E r \in Mlme, st \in Statuses : Add(r, st) \/ SetStatus(r, st)
  \/ \E st \in Statuses : SetStatusCmn(st)
  \/ Accept \/ RemoveLast
  \/ HandleCb

Spec == Init /\ [][Next]_vars

\* HandleCb is a loop on one thread: it runs to its end.  A callback may make
\* requests, and returns.
FairSpec ==
  /\ Spec
  /\ WF_vars(Accept \/ RemoveLast)
  /\ WF_vars(HandleCb)
  /\ SF_vars(HandleReturn)

-----------------------------------------------------------------------------
\* The elements in the ring, oldest first.
Stored == [i \in 1 .. Cnt |-> slot[Advance(BufferStart, i-1)]]

\* The front element is being delivered: its request is no longer pending.
Contents == IF pc = "calling" THEN Tail(Stored) ELSE Stored

\* The two pointers and the count always describe the same segment of the
\* ring (the code keeps all three and updates them separately), HandleCb
\* never has more iterations to go than there are elements, and the request
\* being made is beyond the elements HandleCb will visit.
RingConsistent ==
  /\ BufferEnd = Advance(BufferStart, Cnt)
  /\ left <= Cnt
  /\ pc = "idle" => left = 0
  /\ pc = "calling" => left > 0
  /\ requesting # NoRequest => pc # "loop" /\ left < Cnt

\* No request is lost, duplicated or confirmed twice: for every kind of
\* request, exactly the requests accepted and not yet confirmed are pending.
NothingLost ==
  \A r \in Mlme :
    owed[r] = Cardinality({i \in DOMAIN Contents : Contents[i].Request = r})

\* Lookups by name (IsCmdActive, GetStatus) walk the ring between two pointers
\* and not by count.  While something is queued they find a request if and only
\* if it is pending, and the status they report is that of its oldest element.
LookupsFindOldest ==
  Cnt > 0 => \A r \in Mlme :
    /\ IsCmdActive(r) <=> IsQueued(Stored, r)
    /\ \A i \in 1 .. Cnt :
         IsFirst(Stored, i, r) => GetStatus(r) = Stored[i].Status

\* One run of HandleCb terminates although the callback may add requests.
HandleTerminates == pc # "idle" ~> pc = "idle"

\* The ring implements the bounded first-in first-out list.
Promise == INSTANCE ConfirmQueueSpec WITH queue <- Contents
ImplementsPromise == Promise!Spec
=============================================================================
