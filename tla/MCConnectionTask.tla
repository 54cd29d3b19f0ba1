-------------------------- MODULE MCConnectionTask --------------------------
(***************************************************************************)
(* Instances of ConnectionTask for TLC.                                    *)
(***************************************************************************)
EXTENDS ConnectionTask
=============================================================================
