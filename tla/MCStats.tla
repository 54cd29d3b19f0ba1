------------------------------ MODULE MCStats ------------------------------
(***************************************************************************)
(* Instances of Stats for TLC: dates of three bits, so that the sign bit,  *)
(* the last date and a width of 0 all come up for tables of two records.   *)
(***************************************************************************)
EXTENDS Stats
=============================================================================
