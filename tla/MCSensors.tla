----------------------------- MODULE MCSensors -----------------------------
(***************************************************************************)
(* Instances of Sensors for TLC: agents of both platforms, two of which    *)
(* can have one name; a TCP service before a UDP one and another TCP one.  *)
(***************************************************************************)
EXTENDS Sensors

MCDevices == {<<"/", "a">>, <<"/", "a", "b">>}
MCDrives  == {<<"C", ":">>, <<"D", ":">>}
MCService == <<TRUE, FALSE, TRUE>>
=============================================================================
