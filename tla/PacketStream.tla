---------------------------- MODULE PacketStream ----------------------------
(***************************************************************************)
(* What a connection promises the code above it: the packets a peer sent   *)
(* are handled whole, once each, in the order they were sent; and, if the  *)
(* peer's bytes keep arriving, all of them are.                            *)
(***************************************************************************)
EXTENDS Naturals, Sequences

VARIABLES
  sent,     \* the packets the peer sends
  handled   \* the packets that were handled so far

vars == <<sent, handled>>

Init == handled = <<>>

Handle ==
  /\ Len(handled) < Len(sent)
  /\ handled' = Append(handled, sent[Len(handled) + 1])
  /\ UNCHANGED sent

\* Whole, once, in order: what holds of every prefix.
Safe == Init /\ [][Handle]_vars

Spec == Safe /\ WF_vars(Handle)
=============================================================================
