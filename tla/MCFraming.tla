----------------------------- MODULE MCFraming -----------------------------
(***************************************************************************)
(* An instance of Framing for TLC: bodies shorter and longer than a        *)
(* header, and none; a buffer that the longest of them fills.              *)
(***************************************************************************)
EXTENDS Framing
=============================================================================
