-------------------------- MODULE ConfirmQueueSpec --------------------------
(***************************************************************************)
(* What the confirm queue promises its callers: a bounded first-in         *)
(* first-out list of MLME requests.  A request is appended, may be taken   *)
(* back while it is the youngest, is answered by name or with all others,  *)
(* and is either delivered (removed from the front, answered) or kept (a   *)
(* front element that has no answer yet moves to the back).                *)
(***************************************************************************)
EXTENDS ConfirmElements

CONSTANTS Mlme,        \* the kinds of request (Mlme_t)
          Statuses,    \* the results a confirm can carry
          Restricted,  \* requests a common status does not make ready
          QueueLen     \* LORA_MAC_MLME_CONFIRM_QUEUE_LEN

VARIABLES queue,       \* the pending requests, oldest first
          confirm      \* MlmeRequest and Status of the last element handled

vars == <<queue, confirm>>

Init == queue = << >> /\ confirm \in [Request : Mlme, Status : Statuses]

Add(r, st) ==
  /\ Len(queue) < QueueLen
  /\ queue' = Append(queue, Queued(r, st, r \in Restricted))
  /\ UNCHANGED confirm

TakeBack ==
  /\ queue # << >>
  /\ queue' = SubSeq(queue, 1, Len(queue) - 1)
  /\ UNCHANGED confirm

Answer(r, st) == queue' = AnswerFirst(queue, r, st) /\ UNCHANGED confirm

AnswerEvery(st) == queue' = AnswerAll(queue, st) /\ UNCHANGED confirm

HandleFront ==
  /\ queue # << >>
  /\ confirm' = [Request |-> Head(queue).Request, Status |-> Head(queue).Status]

Deliver ==
  /\ HandleFront
  /\ Head(queue).ReadyToHandle
  /\ queue' = Tail(queue)

Keep ==
  /\ HandleFront
  /\ ~Head(queue).ReadyToHandle
  /\ queue' = Append(Tail(queue), Head(queue))

Next ==
  \/ \E r \in Mlme, st \in Statuses : Add(r, st) \/ Answer(r, st)
  \/ \E st \in Statuses : AnswerEvery(st)
  \/ TakeBack \/ Deliver \/ Keep

Spec == Init /\ [][Next]_vars
=============================================================================
