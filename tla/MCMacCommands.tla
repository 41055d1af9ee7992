--------------------------- MODULE MCMacCommands ---------------------------
(* MacCommands with a counter of 8 bits' worth of rounds, buffers that a    *)
(* few commands fill, and frames that reach every branch of OnRadioRxDone.  *)
EXTENDS MacCommands

Frame(to, type, ack, fopts, port, payload) ==
  [to |-> to, type |-> type, ack |-> ack, fopts |-> fopts, port |-> port, payload |-> payload]

Sessions(class) == IF class = "A" THEN {0, FCNT_MOD - 2} ELSE {FCNT_MOD - 2}
Downlinks(class) == IF class = "A" THEN 3 ELSE 2
OwnRequests == {"LINK_CHECK_REQ"}

ClassCContents ==
  {Frame("unicast", "CONFIRMED", FALSE, <<"RX_TIMING_SETUP_REQ">>, "app", <<>>),
   Frame("unicast", "UNCONFIRMED", TRUE, <<"RX_PARAM_SETUP_REQ">>, "none", <<>>),
   Frame("unicast", "UNCONFIRMED", FALSE, <<>>, "zero",
         <<"RX_PARAM_SETUP_REQ", "NEW_CHANNEL_REQ", "RX_PARAM_SETUP_REQ", "RX_PARAM_SETUP_REQ">>),
   Frame("multicast", "UNCONFIRMED", FALSE, <<>>, "app", <<>>)}

(* Frames a network sends by mistake, and commands the module MacCommands   *)
(* calls careless.                                                          *)
ClassAContents ==
  {Frame("unicast", "CONFIRMED", FALSE, <<"RX_TIMING_SETUP_REQ">>, "app", <<>>),
   Frame("unicast", "UNCONFIRMED", TRUE, <<"RX_PARAM_SETUP_REQ", "UNKNOWN", "DEV_STATUS_REQ">>, "none", <<>>),
   Frame("unicast", "UNCONFIRMED", TRUE, <<"DUTY_CYCLE_REQ">>, "zero", <<"DEV_STATUS_REQ">>),
   Frame("unicast", "UNCONFIRMED", FALSE, <<>>, "zero",
         <<"TX_PARAM_SETUP_REQ", "DL_CHANNEL_REQ", "DEVICE_TIME_ANS", "LINK_ADR_REQ">>),
   Frame("multicast", "UNCONFIRMED", FALSE, <<"RX_TIMING_SETUP_REQ">>, "none", <<>>)}

BothContents(class) == IF class = "A" THEN ClassAContents ELSE ClassCContents

=============================================================================
