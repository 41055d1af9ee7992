-------------------------- MODULE ConfirmElements --------------------------
(***************************************************************************)
(* The elements of the MLME confirm queue (MlmeConfirmQueue_t) and what    *)
(* answering does to a queue of them, read as the sequence of its          *)
(* elements, oldest first.  Both the promise of the queue                  *)
(* (ConfirmQueueSpec) and the MAC procedure (LoRaMac) are written with     *)
(* these operators; ConfirmQueue implements them on a ring of slots.       *)
(***************************************************************************)
EXTENDS Naturals, Sequences, Subsequences

\* A freshly queued request: its initial status, not yet ready to be
\* delivered, and whether a common status may make it ready.
Queued(req, st, restrict) ==
  [Request |-> req, Status |-> st,
   ReadyToHandle |-> FALSE, RestrictCommon |-> restrict]

\* An element answered by name is ready to be handled.
Answered(e, st) == [e EXCEPT !.Status = st, !.ReadyToHandle = TRUE]

\* A common status always replaces the element's status, but makes it ready
\* only when the element does not restrict that.
CommonlyAnswered(e, st) ==
  [e EXCEPT !.Status = st, !.ReadyToHandle = @ \/ ~e.RestrictCommon]

\* Is index i the oldest element of q for request r?
IsFirst(q, i, r) ==
  q[i].Request = r /\ \A j \in 1 .. i-1 : q[j].Request # r

AnswerFirst(q, r, st) ==
  [i \in DOMAIN q |-> IF IsFirst(q, i, r) THEN Answered(q[i], st) ELSE q[i]]

AnswerAll(q, st) == [i \in DOMAIN q |-> CommonlyAnswered(q[i], st)]

IsQueued(q, r) == \E i \in DOMAIN q : q[i].Request = r

\* The elements that have no answer yet.
Unanswered(q) == Those(q, {i \in DOMAIN q : ~q[i].ReadyToHandle})
=============================================================================
