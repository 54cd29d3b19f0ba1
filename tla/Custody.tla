------------------------------ MODULE Custody ------------------------------
(***************************************************************************)
(* What the path from the agent's sensors to the records table promises,   *)
(* one sample at a time.  A sample is in one place; it moves forward only, *)
(* from the agent to the connection, to the server object that gathers old *)
(* samples, to the table; and it is lost on the way only if the connection *)
(* is, or if the table refuses it, or with a transaction that was never    *)
(* committed.  In particular a sample the agent saved is only lost once it *)
(* is sent, or when the agent is killed; no sample comes back, unless it   *)
(* was in olddata when the agent was killed; and what the file of the      *)
(* database has stays there.                                               *)
(***************************************************************************)
EXTENDS Naturals

CONSTANTS Sample

VARIABLES
  place,    \* where each sample is
  link      \* the connection the agent thinks it has: none, up, or dead;
            \* killed from the kill of the agent to its start

vars == <<place, link>>

Init == place = [s \in Sample |-> "future"] /\ link = "none"

Move(from, to) ==
  \E s \in Sample : place[s] = from /\ place' = [place EXCEPT ![s] = to]

MoveSome(from, to) ==
  \E S \in SUBSET {s \in Sample : place[s] \in from} :
    place' = [s \in Sample |-> IF s \in S THEN to ELSE place[s]]

\* A sample is taken: saved, sent, or lost with the connection.
Take ==
  \/ link = "none" /\ Move("future", "agent")
  \/ link = "up" /\ Move("future", "connection")
  \/ link = "dead" /\ Move("future", "lost")

\* A saved sample is sent, perhaps into a connection that no longer works.
Send ==
  \/ link = "up" /\ Move("agent", "connection")
  \/ link = "dead" /\ Move("agent", "lost")

\* The server takes a sample off the connection and stores it, perhaps in a
\* transaction that is open, or keeps it with others that wait.
Receive == \E to \in {"stored", "pending", "server"} : Move("connection", to)

\* A batch is stored.
Store == MoveSome({"server", "repeated"}, "stored") \/ MoveSome({"server"}, "pending")

\* The end of a connection, or a refused batch, takes samples with it.
LoseConnection == MoveSome({"connection", "server"}, "lost")

\* The server ends.
LoseServer == MoveSome({"connection", "server", "pending"}, "lost")

\* The agent is killed: what it saved is lost unless it is in olddata, and
\* what is in olddata may be sent once more, wherever it is.
Kill ==
  /\ link # "killed" /\ link' = "killed"
  /\ \E L, R \in SUBSET Sample :
       /\ \A s \in L : place[s] = "agent"
       /\ \A s \in R : place[s] \notin {"future", "stored"}
       /\ place' = [s \in Sample |-> CASE s \in R -> "repeated"
                                       [] s \in L \ R -> "lost"
                                       [] OTHER -> place[s]]

Next ==
  \/ /\ Take \/ Send \/ Receive \/ Store \/ LoseConnection \/ LoseServer
        \/ UNCHANGED place
     /\ link' \in {"none", "up", "dead", link}
  \/ Kill

Spec == Init /\ [][Next]_vars
=============================================================================
