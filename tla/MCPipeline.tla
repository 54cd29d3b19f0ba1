----------------------------- MODULE MCPipeline -----------------------------
(***************************************************************************)
(* Instances of Pipeline for TLC.  Two connections let a Client object of  *)
(* the server outlive the connection the agent has gone on to.             *)
(***************************************************************************)
EXTENDS Pipeline, TLC

CONSTANTS k1, k2

Symmetry == Permutations({k1, k2})
=============================================================================
