--------------------------- MODULE MCConfirmQueue ---------------------------
(* A ring of MCQueueLen slots, two request kinds of which one is restricted. *)
EXTENDS ConfirmQueue

CONSTANTS JOIN, BEACON, OK, ERROR

MCMlme == {JOIN, BEACON}
MCRestricted == {BEACON}
MCStatuses == {OK, ERROR}
MCZeroConfirm == [Request |-> JOIN, Status |-> OK]
=============================================================================
