------------------------------ MODULE MCRadio ------------------------------
(* Radio with the longest frame that is sent whole and the next longer one. *)
EXTENDS Radio

FrameSizes == {253, 254}

=============================================================================
