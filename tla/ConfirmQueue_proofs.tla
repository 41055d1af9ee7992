------------------------ MODULE ConfirmQueue_proofs -------------------------
(***************************************************************************)
(* Proofs about the confirm queue for every ring length, every set of      *)
(* requests and every set of statuses: the ring stays consistent, it       *)
(* implements the bounded list of ConfirmQueueSpec, its lookups are right, *)
(* and no request is lost or confirmed twice.                              *)
(***************************************************************************)
EXTENDS ConfirmQueue, SequenceTheorems, FiniteSetTheorems, WellFoundedInduction, TLAPS

(***************************************************************************)
(* The inductive invariant: the pointers stay within the array             *)
(* (TypeOK) only together with the relation between the pointers, the      *)
(* count and the loop of HandleCb, so the two are proved at once.          *)
(***************************************************************************)
IInv == TypeOK /\ RingConsistent

\* Moving one slot on or back stays in the ring and is what one more or one
\* less element amounts to (IncreaseBufferPointer, DecreaseBufferPointer).
LEMMA PointerSteps ==
  ASSUME NEW p \in Slots
  PROVE  /\ IncreaseBufferPointer(p) \in Slots
         /\ DecreaseBufferPointer(p) \in Slots
         /\ \A n \in 0 .. QueueLen-1 :
              /\ IncreaseBufferPointer(Advance(p, n)) = Advance(p, n+1)
              /\ Advance(IncreaseBufferPointer(p), n) = Advance(p, n+1)
              /\ DecreaseBufferPointer(Advance(p, n+1)) = Advance(p, n)
         /\ \A n \in 0 .. QueueLen : Advance(p, n) \in Slots
  BY QueueLenAssumption
  DEF Slots, IncreaseBufferPointer, DecreaseBufferPointer, Advance

\* Moving both ends of a segment on by one keeps its length.
LEMMA PointersMoveTogether ==
  ASSUME NEW p \in Slots, NEW n \in 0 .. QueueLen
  PROVE  IncreaseBufferPointer(Advance(p, n))
           = Advance(IncreaseBufferPointer(p), n)
  BY QueueLenAssumption DEF Slots, IncreaseBufferPointer, Advance

\* Answering an element or queueing one yields an element of the ring's type.
LEMMA ElementTypes ==
  /\ \A e \in Element, st \in Statuses :
       Answered(e, st) \in Element /\ CommonlyAnswered(e, st) \in Element
  /\ \A r \in Mlme \cup {NoRequest}, st \in Statuses, b \in BOOLEAN :
       Queued(r, st, b) \in Element
<1>1. ASSUME NEW e \in Element, NEW st \in Statuses
      PROVE  Answered(e, st) \in Element
  BY DEF Answered, Element
<1>2. ASSUME NEW e \in Element, NEW st \in Statuses
      PROVE  CommonlyAnswered(e, st) \in Element
  BY DEF CommonlyAnswered, Element
<1>3. ASSUME NEW r \in Mlme \cup {NoRequest}, NEW st \in Statuses,
             NEW b \in BOOLEAN
      PROVE  Queued(r, st, b) \in Element
  BY DEF Queued, Element
<1> QED BY <1>1, <1>2, <1>3

LEMMA InitEstablishes == Init => IInv
  BY QueueLenAssumption, StatusAssumption, RequestAssumption, ZeroAssumption
  DEF Init, IInv, TypeOK, RingConsistent, Slots, Element, Blank, Advance

LEMMA StepPreserves == IInv /\ [Next]_vars => IInv'
<1> SUFFICES ASSUME IInv, [Next]_vars PROVE IInv'
  OBVIOUS
<1> USE QueueLenAssumption DEF IInv
<1>1. ASSUME NEW r \in Mlme, NEW st \in Statuses, Add(r, st)
      PROVE  IInv'
  <2>0. (r \in Restricted) \in BOOLEAN
    OBVIOUS
  <2>1. Queued(r, st, r \in Restricted) \in Element
    BY <2>0, ElementTypes
  <2>a. slot' \in [Slots -> Element] /\ BufferEnd' \in Slots
    BY <1>1, <2>1, PointerSteps DEF Add, PushBack, TypeOK
  <2>2. TypeOK'
    BY <1>1, <2>a, QueueLenAssumption DEF Add, TypeOK, IsFull
  <2>b. Cnt \in 0 .. QueueLen-1 /\ Cnt' = Cnt + 1
    BY <1>1 DEF Add, TypeOK, IsFull
  <2>c. BufferEnd' = Advance(BufferStart', Cnt')
    BY <1>1, <2>b, PointerSteps DEF Add, PushBack, TypeOK, RingConsistent
  <2>3. RingConsistent'
    BY <1>1, <2>b, <2>c DEF Add, TypeOK, RingConsistent
  <2> QED BY <2>2, <2>3
<1>2. CASE Accept
  BY <1>2 DEF Accept, TypeOK, RingConsistent
<1>3. CASE RemoveLast
  <2>1. TypeOK'
    BY <1>3, PointerSteps DEF RemoveLast, TypeOK
  <2>2. PICK n \in 0 .. QueueLen-1 : Cnt = n+1
    BY <1>3 DEF RemoveLast, TypeOK
  <2>3. BufferEnd' = Advance(BufferStart', Cnt')
    <3>1. BufferEnd = Advance(BufferStart, n+1)
      BY <2>2 DEF RingConsistent
    <3>2. BufferEnd' = Advance(BufferStart, n)
      BY <1>3, <3>1, PointerSteps DEF RemoveLast, TypeOK
    <3> QED BY <1>3, <2>2, <3>2 DEF RemoveLast
  <2>4. RingConsistent'
    BY <1>3, <2>2, <2>3 DEF RemoveLast, TypeOK, RingConsistent
  <2> QED BY <2>1, <2>4
<1>4. ASSUME NEW r \in Mlme, NEW st \in Statuses, SetStatus(r, st)
      PROVE  IInv'
  <2>1. PICK p \in Slots : slot' = [slot EXCEPT ![p] = Answered(@, st)]
    BY <1>4 DEF SetStatus, GetElement, Visited
  <2>2. slot' \in [Slots -> Element]
    BY <2>1, ElementTypes DEF TypeOK
  <2> QED BY <1>4, <2>2 DEF SetStatus, TypeOK, RingConsistent
<1>5. ASSUME NEW st \in Statuses, SetStatusCmn(st)
      PROVE  IInv'
  <2>1. slot' \in [Slots -> Element]
    BY <1>5, ElementTypes DEF SetStatusCmn, TypeOK
  <2> QED BY <1>5, <2>1 DEF SetStatusCmn, TypeOK, RingConsistent
<1>6. CASE HandleBegin
  BY <1>6 DEF HandleBegin, TypeOK, RingConsistent
<1>7. CASE HandleReady
  <2>1. slot[BufferStart] \in Element
    BY DEF TypeOK
  <2>2. /\ slot[BufferStart].Request \in Mlme \cup {NoRequest}
        /\ slot[BufferStart].Status \in Statuses
    BY <2>1 DEF Element
  <2>3. confirm' \in [Request : Mlme \cup {NoRequest}, Status : Statuses]
    BY <1>7, <2>2 DEF HandleReady, CopyFront
  <2>4. owed' \in [Mlme -> Int]
    <3> DEFINE k == slot[BufferStart].Request
    <3>1. owed' = [r \in Mlme |-> IF r = k THEN owed[k] - 1 ELSE owed[r]]
      BY <1>7 DEF HandleReady, TypeOK
    <3>2. \A r \in Mlme : owed[r] \in Int
      BY DEF TypeOK
    <3> HIDE DEF k
    <3>3. \A r \in Mlme : (IF r = k THEN owed[k] - 1 ELSE owed[r]) \in Int
      BY <3>2
    <3> QED BY <3>1, <3>3
  <2>5. TypeOK'
    BY <1>7, <2>3, <2>4 DEF HandleReady, CopyFront, TypeOK
  <2>6. RingConsistent'
    BY <1>7 DEF HandleReady, CopyFront, TypeOK, RingConsistent
  <2> QED BY <2>5, <2>6
<1>8. CASE HandleReturn
  <2>1. PICK n \in 0 .. QueueLen-1 : Cnt = n+1
    BY <1>8 DEF HandleReturn, TypeOK
  <2>2. TypeOK'
    BY <1>8, PointerSteps DEF HandleReturn, TypeOK, RingConsistent
  <2>3. RingConsistent'
    BY <1>8, <2>1, PointerSteps DEF HandleReturn, TypeOK, RingConsistent
  <2> QED BY <2>2, <2>3
<1>9. CASE HandleStore
  <2>1. slot[BufferStart] \in Element
    BY DEF TypeOK
  <2>2. /\ slot[BufferStart].Request \in Mlme \cup {NoRequest}
        /\ slot[BufferStart].Status \in Statuses
        /\ slot[BufferStart].RestrictCommon \in BOOLEAN
    BY <2>1 DEF Element
  <2> DEFINE e == slot[BufferStart]
  <2>3. Queued(e.Request, e.Status, e.RestrictCommon) \in Element
    BY <2>2, ElementTypes
  <2>4. slot' \in [Slots -> Element] /\ BufferEnd' \in Slots
    BY <1>9, <2>3, PointerSteps DEF HandleStore, PushBack, TypeOK
  <2>5. confirm' \in [Request : Mlme \cup {NoRequest}, Status : Statuses]
    BY <1>9, <2>2 DEF HandleStore, CopyFront
  <2>6. TypeOK'
    BY <1>9, <2>4, <2>5, PointerSteps DEF HandleStore, CopyFront, TypeOK
  <2>7. BufferEnd' = Advance(BufferStart', Cnt')
    <3>1. /\ BufferEnd' = IncreaseBufferPointer(BufferEnd) /\ Cnt' = Cnt
          /\ BufferStart' = IncreaseBufferPointer(BufferStart)
      BY <1>9 DEF HandleStore, PushBack
    <3>2. BufferEnd = Advance(BufferStart, Cnt) /\ BufferStart \in Slots
      BY DEF RingConsistent, TypeOK
    <3>3. Cnt \in 0 .. QueueLen
      BY DEF TypeOK
    <3> QED BY <3>1, <3>2, <3>3, PointersMoveTogether
  <2>8. RingConsistent'
    BY <1>9, <2>7 DEF HandleStore, CopyFront, TypeOK, RingConsistent
  <2> QED BY <2>6, <2>8
<1>10. CASE HandleEnd
  BY <1>10 DEF HandleEnd, TypeOK, RingConsistent
<1>11. CASE UNCHANGED vars
  BY <1>11
  DEF vars, TypeOK, RingConsistent
<1> QED
  BY <1>1, <1>2, <1>3, <1>4, <1>5, <1>6, <1>7, <1>8, <1>9, <1>10, <1>11
  DEF Next, HandleCb

\* The ring is always well formed, whatever the callers do: the pointers stay
\* inside the array of LoRaMacConfirmQueue.c and, with the count, describe
\* one segment of it.
THEOREM RingAlwaysConsistent == Spec => [](TypeOK /\ RingConsistent)
<1>1. Spec => []IInv
  BY InitEstablishes, StepPreserves, PTL DEF Spec
<1> QED BY <1>1, PTL DEF IInv

\* Every variable of the queue keeps its range: no pointer or count of
\* LoRaMacConfirmQueue.c leaves the array.
THEOREM TypesKept == Spec => []TypeOK
  BY RingAlwaysConsistent, PTL

-----------------------------------------------------------------------------
(***************************************************************************)
(* The ring of the confirm queue implements the bounded list of            *)
(* ConfirmQueueSpec, its lookups find the oldest element of a request, and *)
(* no request is lost: for every ring length and every set of requests.    *)
(*                                                                         *)
(* The argument is about segments of the ring.  What the queue holds is    *)
(* always a segment: the one from BufferStart, or from the slot after it   *)
(* while the application's callback runs.  The lemmas say what each        *)
(* operation on the ring is as an operation on the segment's sequence.     *)
(***************************************************************************)

\* The contents of n slots from b, as a sequence.
Segment(ring, b, n) == [i \in 1 .. n |-> ring[Advance(b, i-1)]]

\* Where the pending requests start and how many there are.
Front == IF pc = "calling" THEN IncreaseBufferPointer(BufferStart)
                           ELSE BufferStart
Pending == IF pc = "calling" THEN Cnt - 1 ELSE Cnt

Ring == [Slots -> Element]

LEMMA SegmentShape ==
  ASSUME NEW ring \in Ring, NEW b \in Slots, NEW n \in 0 .. QueueLen
  PROVE  /\ Segment(ring, b, n) \in Seq(Element)
         /\ Len(Segment(ring, b, n)) = n
         /\ DOMAIN Segment(ring, b, n) = 1 .. n
         /\ \A i \in 1 .. n : /\ Advance(b, i-1) \in Slots
                              /\ Segment(ring, b, n)[i] = ring[Advance(b, i-1)]
<1> DEFINE s == Segment(ring, b, n)
<1>1. \A i \in 1 .. n : Advance(b, i-1) \in Slots
  BY PointerSteps, QueueLenAssumption
<1>2. s \in [1 .. n -> Element]
  BY <1>1 DEF Segment, Ring
<1>3. s \in Seq(Element) /\ Len(s) = n
  BY <1>2, QueueLenAssumption
<1> QED BY <1>1, <1>2, <1>3 DEF Segment

\* Two slots of a segment are the same only at the same index.
LEMMA AdvanceInjective ==
  ASSUME NEW b \in Slots,
         NEW i \in 0 .. QueueLen-1, NEW j \in 0 .. QueueLen-1,
         Advance(b, i) = Advance(b, j)
  PROVE  i = j
  BY QueueLenAssumption DEF Slots, Advance

\* Add: writing the slot after a segment appends to it.
LEMMA SegmentPushed ==
  ASSUME NEW ring \in Ring, NEW b \in Slots, NEW n \in 0 .. QueueLen-1,
         NEW e \in Element
  PROVE  Segment([ring EXCEPT ![Advance(b, n)] = e], b, n+1)
           = Append(Segment(ring, b, n), e)
<1> DEFINE p == Advance(b, n)
           w == [ring EXCEPT ![p] = e]
           s == Segment(w, b, n+1)
           t == Append(Segment(ring, b, n), e)
<1>0. /\ n \in 0 .. QueueLen /\ n+1 \in 0 .. QueueLen /\ n \in Nat
      /\ n \in 0 .. QueueLen-1
  BY QueueLenAssumption
<1>1. p \in Slots /\ w \in Ring
  BY <1>0, PointerSteps DEF Ring
<1>2. /\ s \in Seq(Element) /\ Len(s) = n+1
      /\ \A i \in 1 .. n+1 : s[i] = w[Advance(b, i-1)]
  <2> HIDE DEF w
  <2> QED BY <1>0, <1>1, SegmentShape
<1>3. /\ Segment(ring, b, n) \in Seq(Element)
      /\ Len(Segment(ring, b, n)) = n
      /\ \A i \in 1 .. n : /\ Advance(b, i-1) \in Slots
                           /\ Segment(ring, b, n)[i] = ring[Advance(b, i-1)]
  BY <1>0, SegmentShape
<1>4. /\ t \in Seq(Element) /\ Len(t) = n+1
      /\ \A i \in 1 .. n : t[i] = Segment(ring, b, n)[i]
      /\ t[n+1] = e
  BY <1>3, AppendProperties
<1> HIDE DEF s, t
<1>5. ASSUME NEW i \in 1 .. n+1 PROVE s[i] = t[i]
  <2>0. i \in Int /\ i >= 1 /\ (i = n+1 \/ i \in 1 .. n)
    BY <1>0
  <2>1. CASE i = n+1
    <3>1. s[i] = w[p]
      <4>1. i \in 1 .. n+1 /\ i-1 = n
        BY <1>0, <2>1
      <4> QED BY <1>2, <4>1
    <3>2. w[p] = e
      BY <1>1 DEF Ring
    <3> QED BY <3>1, <3>2, <1>4, <2>1
  <2>2. CASE i \in 1 .. n
    <3>1. i-1 \in 0 .. QueueLen-1 /\ i-1 # n
      BY <1>0, <2>2, QueueLenAssumption
    <3>2. Advance(b, i-1) # p
      BY <1>0, <3>1, AdvanceInjective
    <3>3. w[Advance(b, i-1)] = ring[Advance(b, i-1)]
      BY <1>1, <1>3, <2>2, <3>2 DEF Ring
    <3>4. s[i] = w[Advance(b, i-1)]
      BY <1>2
    <3>5. t[i] = ring[Advance(b, i-1)]
      BY <1>3, <1>4, <2>2
    <3> QED BY <3>3, <3>4, <3>5
  <2> QED BY <2>0, <2>1, <2>2
<1>6. s = t
  BY <1>2, <1>4, <1>5, SeqEqual
<1> QED BY <1>6 DEF s, t

\* RemoveLast: a segment one slot shorter lacks the last element.
LEMMA SegmentShortened ==
  ASSUME NEW ring \in Ring, NEW b \in Slots, NEW n \in 0 .. QueueLen-1
  PROVE  Segment(ring, b, n) = SubSeq(Segment(ring, b, n+1), 1, n)
<1> DEFINE s == Segment(ring, b, n)
           u == Segment(ring, b, n+1)
           t == SubSeq(u, 1, n)
<1>0. n \in 0 .. QueueLen /\ n+1 \in 0 .. QueueLen /\ n \in Int
  BY QueueLenAssumption
<1>1. /\ s \in Seq(Element) /\ Len(s) = n
      /\ \A i \in 1 .. n : s[i] = ring[Advance(b, i-1)]
  BY <1>0, SegmentShape
<1>2. /\ u \in Seq(Element) /\ Len(u) = n+1
      /\ \A i \in 1 .. n+1 : u[i] = ring[Advance(b, i-1)]
  BY <1>0, SegmentShape
<1> HIDE DEF s, u
<1>3. \A i \in 1 .. n : u[i] \in Element
  BY <1>0, <1>2, ElementOfSeq
<1>4. /\ t \in Seq(Element) /\ Len(t) = n
      /\ \A i \in 1 .. n : t[i] = u[i]
  BY <1>0, <1>3, SubSeqProperties
<1> HIDE DEF t
<1>5. s = t
  BY <1>0, <1>1, <1>2, <1>4, SeqEqual
<1> QED BY <1>5 DEF s, t, u

\* RemoveFirst: a segment that starts one slot later is the tail.
LEMMA SegmentAdvanced ==
  ASSUME NEW ring \in Ring, NEW b \in Slots, NEW n \in 0 .. QueueLen-1
  PROVE  /\ Segment(ring, b, n+1) # << >>
         /\ Head(Segment(ring, b, n+1)) = ring[b]
         /\ Segment(ring, IncreaseBufferPointer(b), n)
              = Tail(Segment(ring, b, n+1))
<1> DEFINE c == IncreaseBufferPointer(b)
           s == Segment(ring, c, n)
           u == Segment(ring, b, n+1)
           t == Tail(u)
<1>0. n \in 0 .. QueueLen /\ n+1 \in 0 .. QueueLen /\ n \in Nat
  BY QueueLenAssumption
<1>1. c \in Slots
  BY PointerSteps
<1>2. /\ s \in Seq(Element) /\ Len(s) = n
      /\ \A i \in 1 .. n : s[i] = ring[Advance(c, i-1)]
  BY <1>0, <1>1, SegmentShape
<1>3. /\ u \in Seq(Element) /\ Len(u) = n+1
      /\ \A i \in 1 .. n+1 : u[i] = ring[Advance(b, i-1)]
  BY <1>0, SegmentShape
<1>4. u # << >> /\ Head(u) = ring[b]
  <2>1. Advance(b, 0) = b
    BY QueueLenAssumption DEF Advance, Slots
  <2>2. u[1] = ring[b]
    BY <1>0, <1>3, <2>1
  <2> HIDE DEF u
  <2>3. u # << >>
    BY <1>0, <1>3
  <2> QED BY <1>3, <2>2, <2>3
<1>5. \A i \in 1 .. n : Advance(c, i-1) = Advance(b, i)
  <2>1. \A m \in 0 .. QueueLen-1 : Advance(c, m) = Advance(b, m+1)
    BY PointerSteps
  <2>2. ASSUME NEW i \in 1 .. n PROVE Advance(c, i-1) = Advance(b, i)
    <3>1. i-1 \in 0 .. QueueLen-1 /\ (i-1)+1 = i
      BY <1>0, QueueLenAssumption
    <3> HIDE DEF c
    <3> QED BY <2>1, <3>1
  <2> QED BY <2>2
<1> HIDE DEF s, u
<1>6. /\ t \in Seq(Element) /\ Len(t) = n
      /\ \A i \in 1 .. n : t[i] = u[i+1]
  BY <1>0, <1>3, <1>4, HeadTailProperties
<1>7. \A i \in 1 .. n : s[i] = t[i]
  <2>1. ASSUME NEW i \in 1 .. n PROVE s[i] = t[i]
    <3>1. i+1 \in 1 .. n+1 /\ (i+1)-1 = i
      BY <1>0
    <3>2. u[i+1] = ring[Advance(b, i)]
      BY <1>3, <3>1
    <3> QED BY <1>2, <1>5, <1>6, <3>2
  <2> QED BY <2>1
<1> HIDE DEF t
<1>8. s = t
  BY <1>2, <1>6, <1>7, SeqEqual
<1> QED BY <1>4, <1>8 DEF s, t, u

\* What the queue holds is a segment, before, during and after a callback.
SegmentView ==
  /\ slot \in Ring
  /\ Front \in Slots
  /\ Pending \in 0 .. QueueLen
  /\ BufferEnd = Advance(Front, Pending)
  /\ Contents = Segment(slot, Front, Pending)

LEMMA ContentsIsSegment == IInv => SegmentView
<1> SUFFICES ASSUME IInv PROVE SegmentView
  BY DEF SegmentView
<1> USE DEF SegmentView
<1>1. slot \in Ring /\ BufferStart \in Slots /\ Cnt \in 0 .. QueueLen
  BY DEF IInv, TypeOK, Ring
<1>2. BufferEnd = Advance(BufferStart, Cnt)
  BY DEF IInv, RingConsistent
<1>3. Stored = Segment(slot, BufferStart, Cnt)
  BY DEF Stored, Segment
<1>4. CASE pc = "calling"
  <2>1. Front = IncreaseBufferPointer(BufferStart) /\ Pending = Cnt - 1
    BY <1>4 DEF Front, Pending
  <2>2. Pending \in 0 .. QueueLen-1 /\ Cnt = Pending + 1
    BY <1>1, <1>4, <2>1, QueueLenAssumption DEF IInv, TypeOK, RingConsistent
  <2>3. Contents = Segment(slot, Front, Pending)
    BY <1>1, <1>3, <1>4, <2>1, <2>2, SegmentAdvanced DEF Contents
  <2>4. BufferEnd = Advance(Front, Pending)
    BY <1>1, <1>2, <2>1, <2>2, PointerSteps
  <2> QED BY <1>1, <2>1, <2>2, <2>3, <2>4, PointerSteps, QueueLenAssumption
<1>5. CASE pc # "calling"
  BY <1>1, <1>2, <1>3, <1>5 DEF Front, Pending, Contents
<1> QED BY <1>4, <1>5

\* The same of the next state.
LEMMA ContentsIsSegmentNext == IInv' => SegmentView'
  BY ContentsIsSegment, PTL

-----------------------------------------------------------------------------
\* Dist and Advance undo one another.
LEMMA DistAdvance ==
  ASSUME NEW b \in Slots
  PROVE  /\ \A m \in 0 .. QueueLen-1 : /\ Advance(b, m) \in Slots
                                     /\ Dist(b, Advance(b, m)) = m
         /\ \A p \in Slots : /\ Dist(b, p) \in 0 .. QueueLen-1
                            /\ Advance(b, Dist(b, p)) = p
  BY QueueLenAssumption DEF Slots, Advance, Dist

\* A do-while loop between the pointers visits exactly the elements, provided
\* there is one.
LEMMA VisitedSlots ==
  ASSUME IInv, Cnt > 0
  PROVE  Visited = {p \in Slots : Dist(BufferStart, p) < Cnt}
<1>1. /\ BufferStart \in Slots /\ BufferEnd \in Slots
      /\ Cnt \in 0 .. QueueLen
      /\ BufferEnd = Advance(BufferStart, Cnt)
  BY DEF IInv, TypeOK, RingConsistent
<1>2. CASE Cnt = QueueLen
  <2>1. BufferEnd = BufferStart
    BY <1>1, <1>2, QueueLenAssumption DEF Advance, Slots
  <2>2. \A p \in Slots : Dist(BufferStart, p) < Cnt
    BY <1>1, <1>2, DistAdvance, QueueLenAssumption
  <2> QED BY <2>1, <2>2 DEF Visited
<1>3. CASE Cnt # QueueLen
  <2>1. Cnt \in 0 .. QueueLen-1
    BY <1>1, <1>3, QueueLenAssumption
  <2>2. Dist(BufferStart, BufferEnd) = Cnt
    BY <1>1, <2>1, DistAdvance
  <2>3. BufferEnd # BufferStart
    BY <1>1, <2>1, QueueLenAssumption DEF Advance, Slots
  <2> QED BY <2>2, <2>3 DEF Visited
<1> QED BY <1>2, <1>3

\* GetElement finds the oldest element of a request and nothing else.
LEMMA LookupFindsFirst ==
  ASSUME IInv, Cnt > 0, NEW r
  PROVE  \A p : p \in GetElement(r)
                 <=> \E k \in 1 .. Cnt : /\ p = Advance(BufferStart, k-1)
                                        /\ IsFirst(Stored, k, r)
<1> DEFINE b == BufferStart
<1>1. b \in Slots /\ slot \in Ring /\ Cnt \in 1 .. QueueLen
  BY QueueLenAssumption DEF IInv, TypeOK, Ring
<1>2. \A i \in 1 .. Cnt : /\ i-1 \in 0 .. QueueLen-1
                         /\ Advance(b, i-1) \in Slots
                         /\ Dist(b, Advance(b, i-1)) = i-1
                         /\ Advance(b, i-1) \in Visited
                         /\ Stored[i] = slot[Advance(b, i-1)]
  <2>1. ASSUME NEW i \in 1 .. Cnt PROVE i-1 \in 0 .. QueueLen-1 /\ i-1 < Cnt
    BY <1>1, QueueLenAssumption
  <2>2. \A i \in 1 .. Cnt : Stored[i] = slot[Advance(b, i-1)]
    BY DEF Stored
  <2> HIDE DEF b
  <2>3. \A i \in 1 .. Cnt : /\ Advance(b, i-1) \in Slots
                           /\ Dist(b, Advance(b, i-1)) = i-1
    BY <1>1, <2>1, DistAdvance
  <2>4. \A i \in 1 .. Cnt : Advance(b, i-1) \in Visited
    BY <2>1, <2>3, VisitedSlots DEF b
  <2> QED BY <2>1, <2>2, <2>3, <2>4
<1>3. ASSUME NEW p \in GetElement(r)
      PROVE  \E k \in 1 .. Cnt : p = Advance(b, k-1) /\ IsFirst(Stored, k, r)
  <2>1. /\ p \in Slots /\ Dist(b, p) < Cnt /\ slot[p].Request = r
        /\ \A q \in Visited :
             slot[q].Request = r => Dist(b, p) <= Dist(b, q)
    BY VisitedSlots DEF GetElement
  <2> DEFINE k == Dist(b, p) + 1
  <2>2. Dist(b, p) \in 0 .. QueueLen-1 /\ Advance(b, Dist(b, p)) = p
    BY <1>1, <2>1, DistAdvance
  <2>3. k \in 1 .. Cnt /\ k-1 = Dist(b, p)
    BY <1>1, <2>1, <2>2
  <2>4. p = Advance(b, k-1) /\ Stored[k].Request = r
    BY <1>2, <2>1, <2>2, <2>3
  <2>5. ASSUME NEW j \in 1 .. k-1 PROVE Stored[j].Request # r
    <3>1. j \in 1 .. Cnt /\ j-1 < k-1
      BY <1>1, <2>3
    <3>2. /\ Advance(b, j-1) \in Visited
          /\ Dist(b, Advance(b, j-1)) = j-1
          /\ Stored[j] = slot[Advance(b, j-1)]
      BY <1>2, <3>1
    <3>3. ~(Dist(b, p) <= j-1)
      BY <1>1, <2>2, <2>3, <3>1
    <3> QED BY <2>1, <3>2, <3>3
  <2> QED BY <2>3, <2>4, <2>5 DEF IsFirst
<1>4. ASSUME NEW k \in 1 .. Cnt, IsFirst(Stored, k, r)
      PROVE  Advance(b, k-1) \in GetElement(r)
  <2> DEFINE p == Advance(b, k-1)
  <2>1. p \in Visited /\ Dist(b, p) = k-1 /\ slot[p].Request = r
    BY <1>2, <1>4 DEF IsFirst
  <2>2. ASSUME NEW q \in Visited, slot[q].Request = r, ~(k-1 <= Dist(b, q))
        PROVE  FALSE
    <3> DEFINE j == Dist(b, q) + 1
    <3>1. q \in Slots /\ Dist(b, q) < Cnt
      BY VisitedSlots
    <3>2. Dist(b, q) \in 0 .. QueueLen-1 /\ Advance(b, Dist(b, q)) = q
      BY <1>1, <3>1, DistAdvance
    <3>3. j \in 1 .. Cnt /\ j-1 = Dist(b, q) /\ j \in 1 .. k-1
      BY <1>1, <2>2, <3>1, <3>2
    <3>4. Stored[j] = slot[q]
      BY <1>2, <3>2, <3>3
    <3> HIDE DEF j
    <3> QED BY <1>4, <2>2, <3>3, <3>4 DEF IsFirst
  <2> HIDE DEF p
  <2>3. p \in GetElement(r)
    BY <2>1, <2>2 DEF GetElement, b
  <2> QED BY <2>3 DEF p
<1> QED BY <1>3, <1>4

\* A request that is in a sequence has an oldest element there.
LEMMA OldestExists ==
  ASSUME NEW s, NEW n \in Nat, NEW r,
         \E i \in 1 .. n : s[i].Request = r
  PROVE  \E k \in 1 .. n : IsFirst(s, k, r)
<1> DEFINE T == {i \in 1 .. n : s[i].Request = r}
           upTo == {1 .. i : i \in T}
<1>1. T \subseteq 1 .. n /\ T # {}
  OBVIOUS
<1> HIDE DEF T
<1>2. \A i \in T : 1 .. i \in FiniteSubsetsOf(Nat)
  <2>1. ASSUME NEW i \in T PROVE 1 .. i \subseteq Nat /\ IsFiniteSet(1 .. i)
    BY <1>1, FS_Interval
  <2> QED BY <2>1 DEF FiniteSubsetsOf
<1>3. upTo \subseteq FiniteSubsetsOf(Nat) /\ upTo # {}
  BY <1>1, <1>2
<1> DEFINE less == StrictSubsetOrdering(Nat)
<1>4. IsWellFoundedOn(less, FiniteSubsetsOf(Nat))
  BY FS_StrictSubsetOrderingWellFounded
<1> HIDE DEF upTo, less
<1>5. PICK m \in upTo : \A x \in upTo : <<x, m>> \notin less
  BY <1>3, <1>4, WFMin
<1>6. PICK k \in T : m = 1 .. k
  BY DEF upTo
<1>7. ASSUME NEW y \in T, y < k PROVE FALSE
  <2>1. k \in Nat /\ y \in Nat /\ k >= 1 /\ y >= 1
    BY <1>1
  <2>2. /\ 1 .. y \subseteq 1 .. k /\ k \in 1 .. k /\ k \notin 1 .. y
        /\ 1 .. k \subseteq Nat
    BY <2>1, <1>7
  <2>3. <<1 .. y, 1 .. k>> \in less
    BY <2>2 DEF less, StrictSubsetOrdering
  <2>4. 1 .. y \in upTo
    BY DEF upTo
  <2> QED BY <1>5, <1>6, <2>3, <2>4
<1>8. k \in 1 .. n /\ s[k].Request = r
  BY DEF T
<1>9. \A j \in 1 .. k-1 : s[j].Request # r
  <2>1. ASSUME NEW j \in 1 .. k-1 PROVE j \in 1 .. n /\ j < k
    BY <1>8
  <2> QED BY <1>7, <2>1 DEF T
<1> QED BY <1>8, <1>9 DEF IsFirst

\* There is at most one oldest element.
LEMMA OldestUnique ==
  ASSUME NEW s, NEW n \in Nat, NEW r,
         NEW i \in 1 .. n, NEW k \in 1 .. n,
         IsFirst(s, i, r), IsFirst(s, k, r)
  PROVE  i = k
<1>1. ~(i < k)
  <2>1. ~(i \in 1 .. k-1)
    BY DEF IsFirst
  <2> QED BY <2>1
<1>2. ~(k < i)
  <2>1. ~(k \in 1 .. i-1)
    BY DEF IsFirst
  <2> QED BY <2>1
<1> QED BY <1>1, <1>2

LEMMA LookupsRight == IInv => LookupsFindOldest
<1> SUFFICES ASSUME IInv, Cnt > 0, NEW r \in Mlme
             PROVE  /\ IsCmdActive(r) <=> IsQueued(Stored, r)
                    /\ \A i \in 1 .. Cnt :
                         IsFirst(Stored, i, r) => GetStatus(r) = Stored[i].Status
  BY DEF LookupsFindOldest
<1>1. Cnt \in Nat /\ DOMAIN Stored = 1 .. Cnt
  BY QueueLenAssumption DEF IInv, TypeOK, Stored
<1>2. IsCmdActive(r) <=> IsQueued(Stored, r)
  <2>1. IsCmdActive(r) <=> \E k \in 1 .. Cnt : IsFirst(Stored, k, r)
    BY LookupFindsFirst DEF IsCmdActive
  <2>2. IsQueued(Stored, r) <=> \E k \in 1 .. Cnt : Stored[k].Request = r
    BY <1>1 DEF IsQueued
  <2>3. ASSUME NEW k \in 1 .. Cnt, IsFirst(Stored, k, r)
        PROVE  Stored[k].Request = r
    BY <2>3 DEF IsFirst
  <2> QED BY <1>1, <2>1, <2>2, <2>3, OldestExists
<1>3. ASSUME NEW i \in 1 .. Cnt, IsFirst(Stored, i, r)
      PROVE  GetStatus(r) = Stored[i].Status
  <2> DEFINE p == Advance(BufferStart, i-1)
  <2>1. p \in GetElement(r)
    BY <1>3, LookupFindsFirst
  <2>2. \A q \in GetElement(r) : q = p
    <3>1. ASSUME NEW q \in GetElement(r) PROVE q = p
      <4>1. PICK k \in 1 .. Cnt : /\ q = Advance(BufferStart, k-1)
                                  /\ IsFirst(Stored, k, r)
        BY LookupFindsFirst
      <4> QED BY <1>1, <1>3, <4>1, OldestUnique
    <3> QED BY <3>1
  <2>3. Stored[i] = slot[p]
    BY DEF Stored
  <2> HIDE DEF p
  <2>4. (CHOOSE q \in GetElement(r) : TRUE) = p
    BY <2>1, <2>2
  <2> QED BY <2>1, <2>3, <2>4 DEF GetStatus
<1> QED BY <1>2, <1>3

\* Walking the ring between its pointers (GetElement of
\* LoRaMacConfirmQueue.c) finds a request exactly while it is stored, and
\* reports the status of its oldest element.
THEOREM LookupsAlwaysRight == Spec => []LookupsFindOldest
  BY RingAlwaysConsistent, LookupsRight, PTL DEF IInv

-----------------------------------------------------------------------------
\* What each operation of the ring does to the sequence it holds.

LEMMA ContentsShape ==
  IInv => /\ Contents \in Seq(Element) /\ Len(Contents) = Pending
          /\ DOMAIN Contents = 1 .. Pending /\ Pending \in 0 .. QueueLen
  BY ContentsIsSegment, SegmentShape DEF SegmentView

LEMMA AddAppends ==
  ASSUME IInv, IInv', NEW r \in Mlme, NEW st \in Statuses, Add(r, st)
  PROVE  /\ Len(Contents) < QueueLen
         /\ Queued(r, st, r \in Restricted) \in Element
         /\ Contents' = Append(Contents, Queued(r, st, r \in Restricted))
<1> DEFINE e == Queued(r, st, r \in Restricted)
<1>1. e \in Element
  <2>1. (r \in Restricted) \in BOOLEAN
    OBVIOUS
  <2> QED BY <2>1, ElementTypes
<1> HIDE DEF e
<1>2. SegmentView /\ SegmentView'
  BY ContentsIsSegment, ContentsIsSegmentNext
<1>3. Front' = Front /\ slot' = [slot EXCEPT ![BufferEnd] = e]
  BY DEF Add, PushBack, Front, IncreaseBufferPointer, e
<1>4. Pending \in 0 .. QueueLen-1 /\ Pending' = Pending + 1
  BY <1>2, QueueLenAssumption
  DEF Add, IsFull, Pending, SegmentView, IInv, TypeOK
<1>5. Segment(slot', Front, Pending + 1)
        = Append(Segment(slot, Front, Pending), e)
  BY <1>1, <1>2, <1>3, <1>4, SegmentPushed DEF SegmentView
<1>6. Contents' = Append(Contents, e)
  BY <1>2, <1>3, <1>4, <1>5 DEF SegmentView
<1>7. Len(Contents) < QueueLen
  BY <1>4, ContentsShape, QueueLenAssumption
<1> QED BY <1>1, <1>6, <1>7 DEF e

LEMMA RemoveLastDrops ==
  ASSUME IInv, IInv', RemoveLast
  PROVE  /\ Contents # << >>
         /\ Contents' = SubSeq(Contents, 1, Len(Contents) - 1)
<1>1. SegmentView /\ SegmentView'
  BY ContentsIsSegment, ContentsIsSegmentNext
<1>2. Front' = Front /\ slot' = slot
  BY DEF RemoveLast, Front, IncreaseBufferPointer
<1>3. Pending' \in 0 .. QueueLen-1 /\ Pending = Pending' + 1
  BY <1>1, QueueLenAssumption
  DEF RemoveLast, Pending, SegmentView, IInv, TypeOK, RingConsistent
<1>4. Segment(slot, Front, Pending')
        = SubSeq(Segment(slot, Front, Pending' + 1), 1, Pending')
  BY <1>1, <1>3, SegmentShortened DEF SegmentView
<1>5. Len(Contents) = Pending /\ Contents \in Seq(Element)
  BY ContentsShape
<1>6. Contents' = SubSeq(Contents, 1, Pending')
  BY <1>1, <1>2, <1>3, <1>4 DEF SegmentView
<1>7. Len(Contents) - 1 = Pending'
  <2>1. \A m \in 0 .. QueueLen-1 : (m + 1) - 1 = m
    BY QueueLenAssumption
  <2>2. Len(Contents) = Pending' + 1
    BY <1>3, <1>5
  <2> QED BY <1>3, <2>1, <2>2
<1>8. Contents # << >>
  BY <1>3, <1>5
<1> QED BY <1>6, <1>7, <1>8

\* The front element is handled: it is the head of the contents.
LEMMA FrontIsHead ==
  ASSUME IInv, CopyFront
  PROVE  /\ Contents \in Seq(Element)
         /\ Contents # << >>
         /\ Head(Contents) = slot[BufferStart]
         /\ slot[BufferStart] \in Element
         /\ Contents = Stored
<1>1. pc = "loop" /\ Cnt \in 1 .. QueueLen /\ Cnt-1 \in 0 .. QueueLen-1
  BY QueueLenAssumption DEF CopyFront, IInv, TypeOK, RingConsistent
<1>2. slot \in Ring /\ BufferStart \in Slots
  BY DEF IInv, TypeOK, Ring
<1>3. Contents = Stored /\ Stored = Segment(slot, BufferStart, (Cnt-1)+1)
  BY <1>1 DEF Contents, Stored, Segment
<1> QED BY <1>1, <1>2, <1>3, ContentsShape, SegmentAdvanced DEF Ring

LEMMA ReadyTakesHead ==
  ASSUME IInv, HandleReady
  PROVE  Contents' = Tail(Contents)
<1>1. Contents = Stored
  BY FrontIsHead DEF HandleReady
<1>2. Stored' = Stored /\ pc' = "calling"
  BY DEF HandleReady, Stored, Advance
<1> QED BY <1>1, <1>2 DEF Contents

LEMMA ReturnKeepsContents ==
  ASSUME IInv, IInv', HandleReturn
  PROVE  Contents' = Contents
<1>1. SegmentView /\ SegmentView'
  BY ContentsIsSegment, ContentsIsSegmentNext
<1>2. Front' = Front /\ Pending' = Pending /\ slot' = slot
  BY DEF HandleReturn, Front, Pending
<1> QED BY <1>1, <1>2 DEF SegmentView

LEMMA StoreMovesHeadBack ==
  ASSUME IInv, IInv', HandleStore
  PROVE  Contents' = Append(Tail(Contents), Head(Contents))
<1> DEFINE e == slot[BufferStart]
           c == IncreaseBufferPointer(BufferStart)
<1>1. CopyFront /\ ~e.ReadyToHandle /\ pc' = pc
  BY DEF HandleStore
<1>2. /\ Contents \in Seq(Element) /\ Head(Contents) = e /\ e \in Element
      /\ Contents = Stored
  BY <1>1, FrontIsHead
<1>3. Queued(e.Request, e.Status, e.RestrictCommon) = e
  <2> HIDE DEF e
  <2>1. e.ReadyToHandle = FALSE
    BY <1>1, <1>2 DEF Element
  <2> QED BY <1>2, <2>1 DEF Element, Queued
<1>4. slot' = [slot EXCEPT ![BufferEnd] = e]
  BY <1>3 DEF HandleStore, PushBack
<1>5. /\ slot \in Ring /\ BufferStart \in Slots /\ c \in Slots
      /\ Cnt-1 \in 0 .. QueueLen-1 /\ Cnt \in Nat
      /\ BufferEnd = Advance(BufferStart, Cnt)
  BY <1>1, PointerSteps, QueueLenAssumption
  DEF CopyFront, IInv, TypeOK, RingConsistent, Ring
<1>6. BufferEnd = Advance(c, Cnt-1)
  <2>1. \A m \in 0 .. QueueLen-1 : Advance(c, m) = Advance(BufferStart, m+1)
    BY <1>5, PointerSteps
  <2>2. (Cnt-1)+1 = Cnt
    BY <1>5
  <2> HIDE DEF c
  <2> QED BY <1>5, <2>1, <2>2
<1>7. Stored = Segment(slot, BufferStart, (Cnt-1)+1)
  BY <1>5 DEF Stored, Segment
<1>8. Segment(slot, c, Cnt-1) = Tail(Contents)
  BY <1>2, <1>5, <1>7, SegmentAdvanced
<1>9. Segment(slot', c, (Cnt-1)+1) = Append(Tail(Contents), e)
  <2> HIDE DEF c, e
  <2> QED BY <1>2, <1>4, <1>5, <1>6, <1>8, SegmentPushed
<1>10. Contents' = Segment(slot', c, (Cnt-1)+1)
  <2>1. pc' # "calling" /\ BufferStart' = c /\ Cnt' = (Cnt-1)+1
    BY <1>1, <1>5 DEF HandleStore, CopyFront
  <2> HIDE DEF c
  <2> QED BY <2>1 DEF Contents, Stored, Segment, Advance
<1> QED BY <1>2, <1>9, <1>10

\* Answering keeps the length of a sequence and every element's request.
LEMMA AnswerShape ==
  ASSUME NEW s \in Seq(Element), NEW r, NEW st \in Statuses
  PROVE  /\ AnswerFirst(s, r, st) \in Seq(Element)
         /\ Len(AnswerFirst(s, r, st)) = Len(s)
         /\ \A i \in 1 .. Len(s) :
              /\ AnswerFirst(s, r, st)[i] = IF IsFirst(s, i, r)
                                             THEN Answered(s[i], st) ELSE s[i]
              /\ AnswerFirst(s, r, st)[i].Request = s[i].Request
         /\ AnswerAll(s, st) \in Seq(Element)
         /\ Len(AnswerAll(s, st)) = Len(s)
         /\ \A i \in 1 .. Len(s) :
              /\ AnswerAll(s, st)[i] = CommonlyAnswered(s[i], st)
              /\ AnswerAll(s, st)[i].Request = s[i].Request
<1> DEFINE a == AnswerFirst(s, r, st)
           c == AnswerAll(s, st)
           n == Len(s)
<1>1. n \in Nat /\ DOMAIN s = 1 .. n /\ \A i \in 1 .. n : s[i] \in Element
  BY ElementOfSeq
<1>2. \A e \in Element : /\ Answered(e, st) \in Element
                        /\ Answered(e, st).Request = e.Request
                        /\ CommonlyAnswered(e, st) \in Element
                        /\ CommonlyAnswered(e, st).Request = e.Request
  <2>1. \A e \in Element : /\ Answered(e, st).Request = e.Request
                          /\ CommonlyAnswered(e, st).Request = e.Request
    BY DEF Answered, CommonlyAnswered, Element
  <2> QED BY <2>1, ElementTypes
<1> HIDE DEF n
<1>3. a = [i \in 1 .. n |-> IF IsFirst(s, i, r) THEN Answered(s[i], st)
                            ELSE s[i]]
  BY <1>1 DEF AnswerFirst
<1>4. c = [i \in 1 .. n |-> CommonlyAnswered(s[i], st)]
  BY <1>1 DEF AnswerAll
<1> HIDE DEF a, c
<1>5. a \in [1 .. n -> Element] /\ c \in [1 .. n -> Element]
  BY <1>1, <1>2, <1>3, <1>4
<1>6. /\ a \in Seq(Element) /\ Len(a) = n
      /\ c \in Seq(Element) /\ Len(c) = n
  BY <1>1, <1>5
<1>7. \A i \in 1 .. n : /\ a[i] = IF IsFirst(s, i, r) THEN Answered(s[i], st)
                                                     ELSE s[i]
                       /\ a[i].Request = s[i].Request
                       /\ c[i] = CommonlyAnswered(s[i], st)
                       /\ c[i].Request = s[i].Request
  BY <1>1, <1>2, <1>3, <1>4
<1> QED BY <1>6, <1>7 DEF a, c, n

\* Answering by name a sequence whose head is being delivered answers its
\* tail, unless the answer was for the head.
LEMMA AnswerTail ==
  ASSUME NEW s \in Seq(Element), s # << >>, NEW r, NEW st \in Statuses
  PROVE  /\ s[1].Request = r => Tail(AnswerFirst(s, r, st)) = Tail(s)
         /\ s[1].Request # r => Tail(AnswerFirst(s, r, st))
                                 = AnswerFirst(Tail(s), r, st)
         /\ Tail(AnswerAll(s, st)) = AnswerAll(Tail(s), st)
<1> DEFINE a == AnswerFirst(s, r, st)
           c == AnswerAll(s, st)
           t == Tail(s)
           n == Len(s) - 1
<1>1. /\ n \in Nat /\ Len(s) = n+1
      /\ t \in Seq(Element) /\ Len(t) = n
      /\ \A i \in 1 .. n : t[i] = s[i+1]
  BY HeadTailProperties
<1>2. /\ a \in Seq(Element) /\ Len(a) = n+1
      /\ \A i \in 1 .. n+1 : a[i] = IF IsFirst(s, i, r)
                                    THEN Answered(s[i], st) ELSE s[i]
      /\ c \in Seq(Element) /\ Len(c) = n+1
      /\ \A i \in 1 .. n+1 : c[i] = CommonlyAnswered(s[i], st)
  BY <1>1, AnswerShape
<1>3. /\ AnswerFirst(t, r, st) \in Seq(Element)
      /\ Len(AnswerFirst(t, r, st)) = n
      /\ \A i \in 1 .. n : AnswerFirst(t, r, st)[i]
                           = IF IsFirst(t, i, r) THEN Answered(t[i], st) ELSE t[i]
      /\ AnswerAll(t, st) \in Seq(Element)
      /\ Len(AnswerAll(t, st)) = n
      /\ \A i \in 1 .. n : AnswerAll(t, st)[i] = CommonlyAnswered(t[i], st)
  <2> HIDE DEF t, n
  <2>1. t \in Seq(Element) /\ Len(t) = n
    BY <1>1
  <2>2. /\ AnswerFirst(t, r, st) \in Seq(Element)
        /\ Len(AnswerFirst(t, r, st)) = Len(t)
        /\ \A i \in 1 .. Len(t) :
             AnswerFirst(t, r, st)[i]
               = IF IsFirst(t, i, r) THEN Answered(t[i], st) ELSE t[i]
    BY <2>1, AnswerShape
  <2>3. /\ AnswerAll(t, st) \in Seq(Element)
        /\ Len(AnswerAll(t, st)) = Len(t)
        /\ \A i \in 1 .. Len(t) :
             AnswerAll(t, st)[i] = CommonlyAnswered(t[i], st)
    BY <2>1, AnswerShape
  <2> QED BY <2>1, <2>2, <2>3
<1> HIDE DEF a, c, t, n
<1>4. a # << >> /\ c # << >>
  BY <1>1, <1>2
<1>5. /\ Tail(a) \in Seq(Element) /\ Len(Tail(a)) = n
      /\ \A i \in 1 .. n : Tail(a)[i] = a[i+1]
      /\ Tail(c) \in Seq(Element) /\ Len(Tail(c)) = n
      /\ \A i \in 1 .. n : Tail(c)[i] = c[i+1]
  BY <1>1, <1>2, <1>4, HeadTailProperties
<1>6. \A i \in 1 .. n : i+1 \in 1 .. n+1 /\ i \in Nat
  BY <1>1
<1>7. Tail(c) = AnswerAll(t, st)
  <2>1. \A i \in 1 .. n : Tail(c)[i] = AnswerAll(t, st)[i]
    BY <1>1, <1>2, <1>3, <1>5, <1>6
  <2> QED BY <1>3, <1>5, <2>1, SeqEqual
<1>8. ASSUME s[1].Request = r PROVE Tail(a) = t
  <2>1. \A i \in 1 .. n : ~IsFirst(s, i+1, r)
    <3>1. \A i \in 1 .. n : 1 \in 1 .. (i+1)-1
      BY <1>1
    <3> QED BY <1>8, <3>1 DEF IsFirst
  <2>2. \A i \in 1 .. n : Tail(a)[i] = t[i]
    BY <1>1, <1>2, <1>5, <1>6, <2>1
  <2> QED BY <1>1, <1>5, <2>2, SeqEqual
<1>9. ASSUME s[1].Request # r PROVE Tail(a) = AnswerFirst(t, r, st)
  <2>1. ASSUME NEW i \in 1 .. n PROVE IsFirst(t, i, r) <=> IsFirst(s, i+1, r)
    <3>1. ASSUME \A j \in 1 .. i-1 : t[j].Request # r, NEW m \in 1 .. (i+1)-1
          PROVE  s[m].Request # r
      <4>1. CASE m = 1
        BY <1>9, <4>1
      <4>2. CASE m # 1
        <5>1. m-1 \in 1 .. i-1 /\ m-1 \in 1 .. n /\ (m-1)+1 = m
          BY <1>1, <4>2
        <5>2. t[m-1] = s[m]
          BY <1>1, <5>1
        <5> QED BY <3>1, <5>1, <5>2
      <4> QED BY <4>1, <4>2
    <3>2. ASSUME \A m \in 1 .. (i+1)-1 : s[m].Request # r, NEW j \in 1 .. i-1
          PROVE  t[j].Request # r
      <4>1. j+1 \in 1 .. (i+1)-1 /\ j \in 1 .. n
        BY <1>1
      <4> QED BY <1>1, <3>2, <4>1
    <3>3. t[i] = s[i+1]
      BY <1>1
    <3> QED BY <3>1, <3>2, <3>3 DEF IsFirst
  <2>2. \A i \in 1 .. n : Tail(a)[i] = AnswerFirst(t, r, st)[i]
    BY <1>1, <1>2, <1>3, <1>5, <1>6, <2>1
  <2> QED BY <1>3, <1>5, <2>2, SeqEqual
<1> QED BY <1>7, <1>8, <1>9 DEF a, c, t

LEMMA StoredShape ==
  IInv => /\ Stored \in Seq(Element) /\ Len(Stored) = Cnt
          /\ Cnt \in 0 .. QueueLen
          /\ pc = "calling" => Stored # << >>
<1> SUFFICES ASSUME IInv
             PROVE  /\ Stored \in Seq(Element) /\ Len(Stored) = Cnt
                    /\ Cnt \in 0 .. QueueLen
                    /\ pc = "calling" => Stored # << >>
  OBVIOUS
<1>1. slot \in Ring /\ BufferStart \in Slots /\ Cnt \in 0 .. QueueLen
  BY DEF IInv, TypeOK, Ring
<1>2. Stored = Segment(slot, BufferStart, Cnt)
  BY DEF Stored, Segment
<1>3. Stored \in Seq(Element) /\ Len(Stored) = Cnt
  BY <1>1, <1>2, SegmentShape
<1>4. ASSUME pc = "calling" PROVE Cnt # 0
  BY <1>1, <1>4, QueueLenAssumption DEF IInv, TypeOK, RingConsistent
<1>5. pc = "calling" => Stored # << >>
  BY <1>3, <1>4
<1> QED BY <1>1, <1>3, <1>5

\* Answering by name in the ring.
LEMMA SetStatusAnswers ==
  ASSUME IInv, NEW r \in Mlme, NEW st \in Statuses, SetStatus(r, st)
  PROVE  Contents' = AnswerFirst(Contents, r, st) \/ Contents' = Contents
<1>1. PICK p \in GetElement(r) : slot' = [slot EXCEPT ![p] = Answered(@, st)]
  BY DEF SetStatus
<1>2. PICK k \in 1 .. Cnt : /\ p = Advance(BufferStart, k-1)
                           /\ IsFirst(Stored, k, r)
  BY LookupFindsFirst DEF SetStatus
<1>3. /\ slot \in Ring /\ BufferStart \in Slots /\ Cnt \in 0 .. QueueLen
      /\ \A i \in 1 .. Cnt : /\ i-1 \in 0 .. QueueLen-1
                            /\ Advance(BufferStart, i-1) \in Slots
  <2>1. slot \in Ring /\ BufferStart \in Slots /\ Cnt \in 0 .. QueueLen
    BY DEF IInv, TypeOK, Ring
  <2>2. \A i \in 1 .. Cnt : i-1 \in 0 .. QueueLen-1
    BY <2>1, QueueLenAssumption
  <2> QED BY <2>1, <2>2, DistAdvance
<1>4. UNCHANGED <<BufferStart, Cnt, pc>>
  BY DEF SetStatus
<1>5. Stored' = [i \in 1 .. Cnt |-> slot'[Advance(BufferStart, i-1)]]
  BY <1>4 DEF Stored, Advance
<1>6. ASSUME NEW i \in 1 .. Cnt
      PROVE  slot'[Advance(BufferStart, i-1)]
               = IF IsFirst(Stored, i, r) THEN Answered(Stored[i], st)
                                          ELSE Stored[i]
  <2>1. Stored[i] = slot[Advance(BufferStart, i-1)]
    BY DEF Stored
  <2>2. IsFirst(Stored, i, r) <=> i = k
    <3>1. Cnt \in Nat
      BY <1>3, QueueLenAssumption
    <3>2. IsFirst(Stored, i, r) => i = k
      BY <1>2, <3>1, OldestUnique
    <3> QED BY <1>2, <3>2
  <2>3. Advance(BufferStart, i-1) = p <=> i = k
    <3>1. ASSUME Advance(BufferStart, i-1) = Advance(BufferStart, k-1)
          PROVE  i = k
      <4>1. i-1 = k-1
        BY <1>3, <3>1, AdvanceInjective
      <4> QED BY <4>1
    <3> QED BY <1>2, <3>1
  <2>4. slot'[Advance(BufferStart, i-1)]
          = IF Advance(BufferStart, i-1) = p
            THEN Answered(slot[Advance(BufferStart, i-1)], st)
            ELSE slot[Advance(BufferStart, i-1)]
    BY <1>1, <1>3 DEF Ring
  <2> QED BY <2>1, <2>2, <2>3, <2>4
<1>7. DOMAIN Stored = 1 .. Cnt
  BY DEF Stored
<1>8. Stored' = AnswerFirst(Stored, r, st)
  BY <1>5, <1>6, <1>7 DEF AnswerFirst
<1>9. CASE pc = "calling"
  <2>1. Contents = Tail(Stored) /\ Contents' = Tail(Stored')
    BY <1>4, <1>9 DEF Contents
  <2>2. Stored \in Seq(Element) /\ Stored # << >>
    BY <1>9, StoredShape
  <2> QED BY <1>8, <2>1, <2>2, AnswerTail
<1>10. CASE pc # "calling"
  BY <1>4, <1>8, <1>10 DEF Contents
<1> QED BY <1>9, <1>10

\* A common status in the ring.
LEMMA SetStatusCmnAnswers ==
  ASSUME IInv, NEW st \in Statuses, SetStatusCmn(st)
  PROVE  Contents' = AnswerAll(Contents, st)
<1>1. UNCHANGED <<BufferStart, Cnt, pc>>
  BY DEF SetStatusCmn
<1>2. /\ slot \in Ring /\ BufferStart \in Slots /\ Cnt \in 0 .. QueueLen
      /\ \A i \in 1 .. Cnt : /\ i-1 \in 0 .. QueueLen-1
                            /\ Advance(BufferStart, i-1) \in Slots
                            /\ Dist(BufferStart, Advance(BufferStart, i-1)) < Cnt
  <2>1. slot \in Ring /\ BufferStart \in Slots /\ Cnt \in 0 .. QueueLen
    BY DEF IInv, TypeOK, Ring
  <2>2. \A i \in 1 .. Cnt : i-1 \in 0 .. QueueLen-1 /\ i-1 < Cnt
    BY <2>1, QueueLenAssumption
  <2> QED BY <2>1, <2>2, DistAdvance
<1>3. Stored' = [i \in 1 .. Cnt |-> slot'[Advance(BufferStart, i-1)]]
  BY <1>1 DEF Stored, Advance
<1>4. ASSUME NEW i \in 1 .. Cnt
      PROVE  slot'[Advance(BufferStart, i-1)] = CommonlyAnswered(Stored[i], st)
  <2>1. Cnt # 0 /\ Cnt > 0
    BY <1>2, QueueLenAssumption
  <2>2. Advance(BufferStart, i-1) \in Visited
    BY <1>2, <2>1, VisitedSlots
  <2>3. slot'[Advance(BufferStart, i-1)]
          = CommonlyAnswered(slot[Advance(BufferStart, i-1)], st)
    BY <1>2, <2>1, <2>2 DEF SetStatusCmn
  <2> QED BY <2>3 DEF Stored
<1>5. Stored' = AnswerAll(Stored, st)
  <2>1. DOMAIN Stored = 1 .. Cnt
    BY DEF Stored
  <2> QED BY <1>3, <1>4, <2>1 DEF AnswerAll
<1>6. CASE pc = "calling"
  <2>1. Contents = Tail(Stored) /\ Contents' = Tail(Stored')
    BY <1>1, <1>6 DEF Contents
  <2>2. Stored \in Seq(Element) /\ Stored # << >>
    BY <1>6, StoredShape
  <2> QED BY <1>5, <2>1, <2>2, AnswerTail
<1>7. CASE pc # "calling"
  BY <1>1, <1>5, <1>7 DEF Contents
<1> QED BY <1>6, <1>7

-----------------------------------------------------------------------------
LEMMA InitImplements == Init => Promise!Init
<1> SUFFICES ASSUME Init PROVE Promise!Init
  OBVIOUS
<1>1. IInv
  BY InitEstablishes
<1>2. Stored \in Seq(Element) /\ Len(Stored) = 0
  BY <1>1, StoredShape DEF Init
<1>3. Contents = << >>
  BY <1>2, EmptySeq DEF Contents, Init
<1>4. confirm \in [Request : Mlme, Status : Statuses]
  BY ZeroAssumption DEF Init
<1> QED BY <1>3, <1>4 DEF Promise!Init

LEMMA StepImplements ==
  IInv /\ IInv' /\ [Next]_vars => [Promise!Next]_(Promise!vars)
<1> SUFFICES ASSUME IInv, IInv', [Next]_vars
             PROVE  Promise!Next \/ UNCHANGED <<Contents, confirm>>
  BY DEF Promise!vars
<1>1. ASSUME NEW r \in Mlme, NEW st \in Statuses, Add(r, st)
      PROVE  Promise!Add(r, st)
  BY <1>1, AddAppends DEF Add, Promise!Add, Promise!Queued, Queued
<1>2. ASSUME NEW r \in Mlme, NEW st \in Statuses, SetStatus(r, st)
      PROVE  Promise!Answer(r, st) \/ UNCHANGED <<Contents, confirm>>
  BY <1>2, SetStatusAnswers
  DEF SetStatus, Promise!Answer, Promise!AnswerFirst, AnswerFirst,
      Promise!IsFirst, IsFirst, Promise!Answered, Answered
<1>3. ASSUME NEW st \in Statuses, SetStatusCmn(st)
      PROVE  Promise!AnswerEvery(st)
  BY <1>3, SetStatusCmnAnswers
  DEF SetStatusCmn, Promise!AnswerEvery, Promise!AnswerAll, AnswerAll,
      Promise!CommonlyAnswered, CommonlyAnswered
<1>4. CASE RemoveLast
  BY <1>4, RemoveLastDrops DEF RemoveLast, Promise!Next, Promise!TakeBack
<1>5. CASE HandleReady
  <2>1. CopyFront
    BY <1>5 DEF HandleReady
  <2>2. Promise!HandleFront
    BY <2>1, FrontIsHead DEF CopyFront, Promise!HandleFront
  <2>3. Promise!Deliver
    BY <1>5, <2>1, <2>2, FrontIsHead, ReadyTakesHead
    DEF HandleReady, Promise!Deliver
  <2> QED BY <2>3 DEF Promise!Next
<1>6. CASE HandleStore
  <2>1. CopyFront /\ ~slot[BufferStart].ReadyToHandle
    BY <1>6 DEF HandleStore
  <2>2. Promise!HandleFront
    BY <2>1, FrontIsHead DEF CopyFront, Promise!HandleFront
  <2>3. Promise!Keep
    BY <1>6, <2>1, <2>2, FrontIsHead, StoreMovesHeadBack DEF Promise!Keep
  <2> QED BY <2>3 DEF Promise!Next
<1>7. CASE HandleReturn
  BY <1>7, ReturnKeepsContents DEF HandleReturn
<1>8. ASSUME UNCHANGED <<slot, BufferStart, Cnt>>, UNCHANGED confirm,
             (pc = "calling") = (pc' = "calling")
      PROVE  UNCHANGED <<Contents, confirm>>
  <2>1. Stored' = Stored
    BY <1>8 DEF Stored, Advance
  <2> QED BY <1>8, <2>1 DEF Contents
<1>9. CASE Accept
  BY <1>8, <1>9 DEF Accept
<1>10. CASE HandleBegin
  BY <1>8, <1>10 DEF HandleBegin
<1>11. CASE HandleEnd
  BY <1>8, <1>11 DEF HandleEnd
<1>12. CASE UNCHANGED vars
  BY <1>8, <1>12 DEF vars
<1> QED
  BY <1>1, <1>2, <1>3, <1>4, <1>5, <1>6, <1>7, <1>9, <1>10, <1>11, <1>12
  DEF Next, HandleCb, Promise!Next

\* The ring of LoRaMacConfirmQueue.c behaves as the bounded first-in first-out
\* list its callers rely on, also while a callback runs and queues requests.
THEOREM RingImplementsList == Spec => ImplementsPromise
<1>1. Spec => []IInv
  BY RingAlwaysConsistent, PTL DEF IInv
<1>2. IInv /\ IInv' /\ [Next]_vars => [Promise!Next]_(Promise!vars)
  BY StepImplements
<1> QED
  BY <1>1, <1>2, InitImplements, PTL DEF Spec, ImplementsPromise, Promise!Spec

-----------------------------------------------------------------------------
(***************************************************************************)
(* No request is lost or confirmed twice: for every kind of request the    *)
(* queue holds exactly as many elements as requests were accepted and not  *)
(* yet confirmed, for every ring length and every set of requests.         *)
(***************************************************************************)

\* Where request r is in sequence q.
At(q, r) == {i \in DOMAIN q : q[i].Request = r}

Count(q, r) == Cardinality(At(q, r))

\* A request being made is the youngest element, so taking an element back
\* takes back the right one.
YoungestIsRequested ==
  requesting # NoRequest =>
    /\ requesting \in Mlme
    /\ Contents # << >>
    /\ Contents[Len(Contents)].Request = requesting

LossInv == NothingLost /\ YoungestIsRequested

LEMMA AtShape ==
  ASSUME NEW s \in Seq(Element), NEW r
  PROVE  /\ At(s, r) \subseteq 1 .. Len(s)
         /\ \A i \in 1 .. Len(s) : i \in At(s, r) <=> s[i].Request = r
         /\ IsFiniteSet(At(s, r))
         /\ Count(s, r) \in Nat
<1>1. DOMAIN s = 1 .. Len(s) /\ Len(s) \in Nat
  BY LenProperties
<1>2. /\ At(s, r) \subseteq 1 .. Len(s)
      /\ \A i \in 1 .. Len(s) : i \in At(s, r) <=> s[i].Request = r
  BY <1>1 DEF At
<1>3. IsFiniteSet(1 .. Len(s))
  BY <1>1, FS_Interval
<1>4. IsFiniteSet(At(s, r))
  BY <1>2, <1>3, FS_Subset
<1> QED BY <1>2, <1>4, FS_CardinalityType DEF Count

LEMMA CountSame ==
  ASSUME NEW s \in Seq(Element), NEW t \in Seq(Element), Len(s) = Len(t),
         \A i \in 1 .. Len(s) : s[i].Request = t[i].Request, NEW r
  PROVE  Count(s, r) = Count(t, r)
<1>1. At(s, r) = At(t, r)
  BY LenProperties DEF At
<1> QED BY <1>1 DEF Count

LEMMA CountAppend ==
  ASSUME NEW s \in Seq(Element), NEW e \in Element, NEW r
  PROVE  Count(Append(s, e), r)
           = IF e.Request = r THEN Count(s, r) + 1 ELSE Count(s, r)
<1> DEFINE a == Append(s, e)
           n == Len(s)
<1>1. /\ n \in Nat /\ a \in Seq(Element) /\ Len(a) = n+1
      /\ \A i \in 1 .. n : a[i] = s[i]
      /\ a[n+1] = e
  BY AppendProperties, LenProperties
<1>2. /\ At(s, r) \subseteq 1 .. n
      /\ \A i \in 1 .. n : i \in At(s, r) <=> s[i].Request = r
      /\ IsFiniteSet(At(s, r))
  BY AtShape
<1> HIDE DEF a, n
<1>3. /\ At(a, r) \subseteq 1 .. n+1
      /\ \A i \in 1 .. n+1 : i \in At(a, r) <=> a[i].Request = r
  <2>1. /\ At(a, r) \subseteq 1 .. Len(a)
        /\ \A i \in 1 .. Len(a) : i \in At(a, r) <=> a[i].Request = r
    BY <1>1, AtShape
  <2> QED BY <1>1, <2>1
<1>4. \A i : i \in 1 .. n+1 <=> i \in 1 .. n \/ i = n+1
  BY <1>1
<1>5. n+1 \notin At(s, r)
  BY <1>1, <1>2
<1>6. CASE e.Request = r
  <2>1. At(a, r) = At(s, r) \cup {n+1}
    BY <1>1, <1>2, <1>3, <1>4, <1>6
  <2> QED BY <1>2, <1>5, <1>6, <2>1, FS_AddElement DEF Count, a
<1>7. CASE e.Request # r
  <2>1. At(a, r) = At(s, r)
    BY <1>1, <1>2, <1>3, <1>4, <1>5, <1>7
  <2> QED BY <1>7, <2>1 DEF Count, a
<1> QED BY <1>6, <1>7

LEMMA CountDropLast ==
  ASSUME NEW s \in Seq(Element), s # << >>, NEW r
  PROVE  Count(SubSeq(s, 1, Len(s) - 1), r)
           = IF s[Len(s)].Request = r THEN Count(s, r) - 1 ELSE Count(s, r)
<1> DEFINE n == Len(s) - 1
           d == SubSeq(s, 1, n)
<1>1. /\ n \in Nat /\ Len(s) = n+1
      /\ \A i \in 1 .. n+1 : s[i] \in Element
  BY EmptySeq, ElementOfSeq
<1>2. /\ d \in Seq(Element) /\ Len(d) = n
      /\ \A i \in 1 .. n : d[i] = s[i]
  <2>1. \A i \in 1 .. n : s[i] \in Element
    BY <1>1
  <2> QED BY <1>1, <2>1, SubSeqProperties
<1>3. s[n+1] \in Element
  BY <1>1
<1> HIDE DEF n, d
<1>4. s = Append(d, s[n+1])
  <2>1. /\ Append(d, s[n+1]) \in Seq(Element)
        /\ Len(Append(d, s[n+1])) = n+1
        /\ \A i \in 1 .. n : Append(d, s[n+1])[i] = d[i]
        /\ Append(d, s[n+1])[n+1] = s[n+1]
    BY <1>2, <1>3, AppendProperties
  <2>2. \A i \in 1 .. n+1 : s[i] = Append(d, s[n+1])[i]
    <3>1. \A i \in 1 .. n+1 : i \in 1 .. n \/ i = n+1
      BY <1>1
    <3> QED BY <1>2, <2>1, <3>1
  <2> QED BY <1>1, <2>1, <2>2, SeqEqual
<1>5. Count(s, r) = IF s[n+1].Request = r THEN Count(d, r) + 1 ELSE Count(d, r)
  <2> DEFINE e == s[n+1]
  <2>1. e \in Element /\ s = Append(d, e)
    BY <1>3, <1>4
  <2> HIDE DEF e
  <2>2. Count(Append(d, e), r)
          = IF e.Request = r THEN Count(d, r) + 1 ELSE Count(d, r)
    BY <1>2, <2>1, CountAppend
  <2>3. Count(s, r) = IF e.Request = r THEN Count(d, r) + 1 ELSE Count(d, r)
    BY <2>1, <2>2
  <2> QED BY <2>3 DEF e
<1>6. Count(d, r) \in Nat
  BY <1>2, AtShape
<1>7. Count(d, r) = IF s[n+1].Request = r THEN Count(s, r) - 1 ELSE Count(s, r)
  BY <1>5, <1>6
<1> QED BY <1>1, <1>7 DEF n, d

LEMMA CountTail ==
  ASSUME NEW s \in Seq(Element), s # << >>, NEW r
  PROVE  Count(Tail(s), r)
           = IF Head(s).Request = r THEN Count(s, r) - 1 ELSE Count(s, r)
<1> DEFINE n == Len(s) - 1
           t == Tail(s)
           A == At(s, r)
           B == At(t, r)
           later == {i+1 : i \in B}
<1>1. /\ n \in Nat /\ Len(s) = n+1 /\ Head(s) = s[1]
      /\ t \in Seq(Element) /\ Len(t) = n
      /\ \A i \in 1 .. n : t[i] = s[i+1]
  BY EmptySeq, HeadTailProperties
<1>2. /\ A \subseteq 1 .. n+1
      /\ \A i \in 1 .. n+1 : i \in A <=> s[i].Request = r
      /\ IsFiniteSet(A) /\ Cardinality(A) \in Nat
  BY <1>1, AtShape DEF Count
<1>3. /\ B \subseteq 1 .. n
      /\ \A i \in 1 .. n : i \in B <=> t[i].Request = r
      /\ IsFiniteSet(B)
  <2> HIDE DEF t, n
  <2>1. /\ At(t, r) \subseteq 1 .. Len(t)
        /\ \A i \in 1 .. Len(t) : i \in At(t, r) <=> t[i].Request = r
        /\ IsFiniteSet(At(t, r))
    BY <1>1, AtShape
  <2> QED BY <1>1, <2>1
<1> HIDE DEF n, t, A, B
<1>4. later = A \ {1}
  <2>1. ASSUME NEW i \in B PROVE i+1 \in A \ {1}
    <3>1. i \in 1 .. n /\ i+1 \in 1 .. n+1 /\ i+1 # 1
      BY <1>1, <1>3
    <3> QED BY <1>1, <1>2, <1>3, <3>1
  <2>2. ASSUME NEW j \in A \ {1} PROVE j \in later
    <3>1. j-1 \in 1 .. n /\ (j-1)+1 = j /\ j \in 1 .. n+1
      BY <1>1, <1>2
    <3>2. j-1 \in B
      BY <1>1, <1>2, <1>3, <3>1
    <3> QED BY <3>1, <3>2
  <2> QED BY <2>1, <2>2
<1>5. Cardinality(later) = Cardinality(B)
  <2> DEFINE f == [i \in B |-> i+1]
  <2>1. f \in [B -> later]
    OBVIOUS
  <2>2. IsInjective(f)
    BY <1>1, <1>3 DEF IsInjective
  <2>3. \A j \in later : \E i \in B : f[i] = j
    OBVIOUS
  <2> HIDE DEF f, later
  <2>4. f \in Bijection(B, later)
    BY <2>1, <2>2, <2>3 DEF Bijection, Injection, Surjection
  <2> QED BY <1>3, <2>4, FS_Bijection DEF ExistsBijection
<1>6. Cardinality(A \ {1}) = IF 1 \in A THEN Cardinality(A) - 1
                                        ELSE Cardinality(A)
  BY <1>2, FS_RemoveElement
<1>7. 1 \in A <=> Head(s).Request = r
  BY <1>1, <1>2
<1> QED BY <1>4, <1>5, <1>6, <1>7 DEF Count, A, B, t

-----------------------------------------------------------------------------
\* NothingLost, with the counting operator.
LEMMA LossAsCount ==
  NothingLost <=> \A r \in Mlme : owed[r] = Count(Contents, r)
  BY DEF NothingLost, Count, At

LEMMA LossInit == Init => LossInv
<1> SUFFICES ASSUME Init PROVE LossInv
  OBVIOUS
<1>1. IInv /\ owed = [r \in Mlme |-> 0] /\ Pending = 0
  BY InitEstablishes DEF Init, Pending
<1>2. Contents \in Seq(Element) /\ Len(Contents) = 0
  BY <1>1, ContentsShape
<1>3. ASSUME NEW r \in Mlme PROVE Count(Contents, r) = 0
  <2>1. At(Contents, r) \subseteq 1 .. Len(Contents)
    BY <1>2, AtShape
  <2>2. At(Contents, r) = {}
    BY <1>2, <2>1
  <2> QED BY <2>2, FS_EmptySet DEF Count
<1>4. NothingLost
  BY <1>1, <1>3, LossAsCount
<1> QED BY <1>4 DEF LossInv, YoungestIsRequested, Init

\* Nothing changes for the counts when the contents and the debts are the same.
LEMMA LossUnchanged ==
  ASSUME LossInv, Contents' = Contents, owed' = owed,
         requesting' \in {requesting, NoRequest}
  PROVE  LossInv'
<1>1. NothingLost'
  BY DEF LossInv, NothingLost
<1>2. YoungestIsRequested'
  BY DEF LossInv, YoungestIsRequested
<1> QED BY <1>1, <1>2 DEF LossInv

\* Answers change no element's request.
LEMMA LossAnswered ==
  ASSUME LossInv, UNCHANGED <<owed, requesting>>,
         Contents \in Seq(Element), Contents' \in Seq(Element),
         Len(Contents') = Len(Contents),
         \A i \in 1 .. Len(Contents) :
           Contents'[i].Request = Contents[i].Request
  PROVE  LossInv'
<1>1. ASSUME NEW r \in Mlme PROVE Count(Contents', r) = Count(Contents, r)
  BY CountSame
<1>2. \A r \in Mlme : owed'[r] = Count(Contents', r)
  BY <1>1, LossAsCount DEF LossInv
<1>3. NothingLost'
  BY <1>2 DEF NothingLost, Count, At
<1>4. YoungestIsRequested'
  <2>1. ASSUME requesting # NoRequest
        PROVE  /\ Contents' # << >>
               /\ Contents'[Len(Contents')].Request = requesting
    <3>1. /\ Contents # << >>
          /\ Contents[Len(Contents)].Request = requesting
      BY <2>1 DEF LossInv, YoungestIsRequested
    <3>2. Len(Contents) \in Nat \ {0}
      BY <3>1, EmptySeq
    <3> QED BY <3>1, <3>2
  <2> QED BY <2>1 DEF LossInv, YoungestIsRequested
<1> QED BY <1>3, <1>4 DEF LossInv

LEMMA LossStep == IInv /\ IInv' /\ LossInv /\ [Next]_vars => LossInv'
<1> SUFFICES ASSUME IInv, IInv', LossInv, [Next]_vars PROVE LossInv'
  OBVIOUS
<1>c. Contents \in Seq(Element)
  BY ContentsShape
<1>o. owed \in [Mlme -> Int] /\ \A r \in Mlme : owed[r] = Count(Contents, r)
  BY LossAsCount DEF LossInv, IInv, TypeOK
<1>1. ASSUME NEW k \in Mlme, NEW st \in Statuses, Add(k, st)
      PROVE  LossInv'
  <2> DEFINE e == Queued(k, st, k \in Restricted)
  <2>1. e \in Element /\ Contents' = Append(Contents, e)
    BY <1>1, AddAppends
  <2>2. e.Request = k
    BY DEF Queued
  <2> HIDE DEF e
  <2>3. owed' = [owed EXCEPT ![k] = @ + 1] /\ requesting' = k
    BY <1>1 DEF Add
  <2>4. ASSUME NEW r \in Mlme PROVE owed'[r] = Count(Contents', r)
    BY <1>c, <1>o, <2>1, <2>2, <2>3, CountAppend
  <2>5. NothingLost'
    BY <2>4 DEF NothingLost, Count, At
  <2>6. /\ Contents' # << >> /\ Len(Contents') = Len(Contents) + 1
        /\ Contents'[Len(Contents) + 1] = e
    BY <1>c, <2>1, AppendProperties
  <2>7. YoungestIsRequested'
    BY <2>2, <2>3, <2>6 DEF YoungestIsRequested
  <2> QED BY <2>5, <2>7 DEF LossInv
<1>2. CASE Accept
  <2>1. Contents' = Contents
    BY <1>2 DEF Accept, Contents, Stored, Advance
  <2> QED BY <1>2, <2>1, LossUnchanged DEF Accept
<1>3. CASE RemoveLast
  <2>1. /\ Contents # << >>
        /\ Contents' = SubSeq(Contents, 1, Len(Contents) - 1)
    BY <1>3, RemoveLastDrops
  <2>2. /\ requesting \in Mlme
        /\ Contents[Len(Contents)].Request = requesting
        /\ owed' = [owed EXCEPT ![requesting] = @ - 1]
        /\ requesting' = NoRequest
    BY <1>3 DEF RemoveLast, LossInv, YoungestIsRequested
  <2>3. ASSUME NEW r \in Mlme PROVE owed'[r] = Count(Contents', r)
    BY <1>c, <1>o, <2>1, <2>2, CountDropLast
  <2>4. NothingLost'
    BY <2>3 DEF NothingLost, Count, At
  <2> QED BY <2>2, <2>4 DEF LossInv, YoungestIsRequested
<1>4. ASSUME NEW k \in Mlme, NEW st \in Statuses, SetStatus(k, st)
      PROVE  LossInv'
  <2>1. UNCHANGED <<owed, requesting>>
    BY <1>4 DEF SetStatus
  <2>2. CASE Contents' = Contents
    BY <2>1, <2>2, LossUnchanged
  <2>3. CASE Contents' = AnswerFirst(Contents, k, st)
    BY <1>c, <2>1, <2>3, AnswerShape, LossAnswered
  <2> QED BY <1>4, <2>2, <2>3, SetStatusAnswers
<1>5. ASSUME NEW st \in Statuses, SetStatusCmn(st)
      PROVE  LossInv'
  <2>1. UNCHANGED <<owed, requesting>>
    BY <1>5 DEF SetStatusCmn
  <2>2. Contents' = AnswerAll(Contents, st)
    BY <1>5, SetStatusCmnAnswers
  <2> QED BY <1>c, <2>1, <2>2, AnswerShape, LossAnswered
<1>6. CASE HandleReady
  <2>1. CopyFront
    BY <1>6 DEF HandleReady
  <2>2. Contents' = Tail(Contents)
    BY <1>6, ReadyTakesHead
  <2>3. Contents # << >> /\ Head(Contents) = slot[BufferStart]
    BY <2>1, FrontIsHead
  <2> DEFINE k == slot[BufferStart].Request
  <2>4. owed' = [owed EXCEPT ![k] = @ - 1] /\ Head(Contents).Request = k
    BY <1>6, <2>3 DEF HandleReady
  <2> HIDE DEF k
  <2>5. ASSUME NEW r \in Mlme PROVE owed'[r] = Count(Contents', r)
    BY <1>c, <1>o, <2>2, <2>3, <2>4, CountTail
  <2>6. NothingLost'
    BY <2>5 DEF NothingLost, Count, At
  <2>7. requesting' = NoRequest
    BY <1>6, <2>1 DEF HandleReady, CopyFront, IInv, RingConsistent
  <2> QED BY <2>6, <2>7 DEF LossInv, YoungestIsRequested
<1>7. CASE HandleReturn
  BY <1>7, ReturnKeepsContents, LossUnchanged DEF HandleReturn
<1>8. CASE HandleStore
  <2>1. CopyFront
    BY <1>8 DEF HandleStore
  <2>2. Contents' = Append(Tail(Contents), Head(Contents))
    BY <1>8, StoreMovesHeadBack
  <2>3. Contents # << >>
    BY <2>1, FrontIsHead
  <2>4. Tail(Contents) \in Seq(Element) /\ Head(Contents) \in Element
    BY <1>c, <2>3, HeadTailProperties
  <2>5. ASSUME NEW r \in Mlme PROVE Count(Contents', r) = Count(Contents, r)
    <3>1. Count(Contents, r) \in Nat
      BY <1>c, AtShape
    <3>2. Count(Tail(Contents), r)
            = IF Head(Contents).Request = r THEN Count(Contents, r) - 1
                                            ELSE Count(Contents, r)
      BY <1>c, <2>3, CountTail
    <3>3. Count(Contents', r)
            = IF Head(Contents).Request = r THEN Count(Tail(Contents), r) + 1
                                            ELSE Count(Tail(Contents), r)
      BY <2>2, <2>4, CountAppend
    <3> QED BY <3>1, <3>2, <3>3
  <2>6. NothingLost'
    BY <1>8, <1>o, <2>5 DEF HandleStore, NothingLost, Count, At
  <2>7. requesting' = NoRequest
    BY <1>8, <2>1 DEF HandleStore, CopyFront, IInv, RingConsistent
  <2> QED BY <2>6, <2>7 DEF LossInv, YoungestIsRequested
<1>9. CASE HandleBegin
  <2>1. Contents' = Contents
    BY <1>9 DEF HandleBegin, Contents, Stored, Advance
  <2> QED BY <1>9, <2>1, LossUnchanged DEF HandleBegin
<1>10. CASE HandleEnd
  <2>1. Contents' = Contents
    BY <1>10 DEF HandleEnd, Contents, Stored, Advance
  <2> QED BY <1>10, <2>1, LossUnchanged DEF HandleEnd
<1>11. CASE UNCHANGED vars
  <2>1. Contents' = Contents
    BY <1>11 DEF vars, Contents, Stored, Advance
  <2> QED BY <1>11, <2>1, LossUnchanged DEF vars
<1> QED
  BY <1>1, <1>2, <1>3, <1>4, <1>5, <1>6, <1>7, <1>8, <1>9, <1>10, <1>11
  DEF Next, HandleCb

\* Every request LoRaMacMlmeRequest accepts is confirmed exactly once by
\* LoRaMacConfirmQueueHandleCb or is still pending, whatever is answered,
\* stored again, taken back or queued by the callback in between.
THEOREM NoRequestLost == Spec => []NothingLost
<1>1. Spec => []IInv
  BY RingAlwaysConsistent, PTL DEF IInv
<1>2. Spec => []LossInv
  BY <1>1, LossInit, LossStep, PTL DEF Spec
<1>3. LossInv => NothingLost
  BY DEF LossInv
<1> QED BY <1>2, <1>3, PTL
=============================================================================
