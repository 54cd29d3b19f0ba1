------------------------------ MODULE MCServer ------------------------------
(***************************************************************************)
(* Instances of Server for TLC: two client objects (one for liveness), two *)
(* agents and one descriptor more than two clients need.                   *)
(***************************************************************************)
EXTENDS Server, TLC

CONSTANTS c1, c2, a1, a2

MCFd == 4..6
MCTime == {1}

Symmetry == Permutations({c1, c2})

\* Also of the agents, where DataPackets treats both alike.
SymmetryData == Symmetry \cup Permutations({a1, a2})

P(type, empty, agt, num, flag) ==
  [type |-> type, empty |-> empty, agent |-> agt, num |-> num, flag |-> flag]

\* Right and wrong keys, a key that has no row until one is generated, and a
\* change that is clamped.  There is no feed: LivePackets have that.
ConfigPackets ==
  {P("AUTH", FALSE, a1, 0, TRUE), P("AUTH", FALSE, a2, 0, FALSE),
   P("AUTH", FALSE, NoAgent, 0, TRUE),
   P("KEY_REQUEST", TRUE, NoAgent, 0, FALSE),
   P("CONFIG_CHANGE_REQUEST", FALSE, a1, 9, FALSE)}

\* The same sample of either agent, live or old.
DataPackets ==
  {P("AUTH", FALSE, a1, 0, FALSE), P("AUTH", FALSE, a2, 0, FALSE),
   P("AGENTDATA", FALSE, NoAgent, 1, TRUE),
   P("AGENTDATA", FALSE, NoAgent, 1, FALSE)}

\* A viewer or an agent, one after the other on the same object, with bodies
\* left out, requests, and packets the server has no handler for.
LivePackets ==
  {P("AUTH", FALSE, a1, 0, TRUE), P("AUTH", TRUE, NoAgent, 0, FALSE),
   P("START", FALSE, NoAgent, 1, FALSE), P("STOP", TRUE, NoAgent, 0, FALSE),
   P("AGENTDATA", FALSE, NoAgent, 1, FALSE),
   P("STATS_REQUEST", FALSE, a1, 0, FALSE),
   P("CONFIG_REQUEST", FALSE, a1, 0, FALSE),
   P("OTHER", TRUE, NoAgent, 0, FALSE)}
=============================================================================
