----------------------------- MODULE MCLoRaMac -----------------------------
(* Small instances of the MAC procedure. *)
EXTENDS LoRaMac

NoClass == {}
EveryClass == {"A", "C"}
Confirmed == {"CONFIRMED"}
Both == {"CONFIRMED", "UNCONFIRMED"}
OnlyJoin == {"JOIN"}
AllCommands == {"JOIN", "LINK_CHECK"}
AllFrames == Frames
NoAnswers == {f \in Frames : f.kind = "data" => ~f.answer}
=============================================================================
