------------------------------ MODULE MCCodec ------------------------------
(***************************************************************************)
(* An instance of Codec for TLC, with 100 for the 65536 lengths: an agent's*)
(* sample with three disks passes what a header can count, and so do three *)
(* agents for a viewer; two are a negative size to it.                     *)
(***************************************************************************)
EXTENDS Codec

MCStrings == {<<>>, <<"x">>, <<"x", ":">>, <<",", "x">>,
              <<"x", " ">>, <<"e">>}
=============================================================================
