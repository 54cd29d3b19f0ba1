------------------------------ MODULE Pipeline ------------------------------
(***************************************************************************)
(* One agent, the network and the server: the way of a sample from the     *)
(* sensors to the records table, and of a configuration from the agents    *)
(* table to the agent's file.                                              *)
(*                                                                         *)
(* The server is what module Server has of it for the connections of one   *)
(* agent: packets are handled in the order they were sent, a sample with   *)
(* oldData set waits in the Client object of its connection, a flush is    *)
(* one transaction, and a Client object takes what waits in it with it.    *)
(* The server may restart, and a new connection be made while the objects  *)
(* of older ones are still there.  The agent is the Linux or the Windows   *)
(* one; the tables are those of module Table.                              *)
(*                                                                         *)
(* Everything that goes wrong outside the two programs is one of at most   *)
(* MaxFaults faults; failing COMMITs and crashes of the agent are counted  *)
(* apart.                                                                  *)
(***************************************************************************)
EXTENDS WinAgent, Table

CONSTANTS
  KeyKnown,    \* does the agent's key have a row?
  Platforms,   \* what winsock is at the start: "absent", "up"
  MaxFaults,   \* bound: connections lost, time-outs, restarts, failed inserts
  MaxBusy,     \* bound: transactions that cannot be committed
  MaxCrashes,  \* bound: the agent killed
  MaxStops,    \* bound: the agent stopped
  MaxIncidents \* bound: all of these together

ASSUME PipelineAssumption ==
  /\ KeyKnown \in BOOLEAN /\ Config \subseteq Nat
  /\ Platforms \subseteq {"absent", "up"} /\ Refused \subseteq Samples
  /\ {MaxFaults, MaxBusy, MaxCrashes, MaxStops, MaxIncidents} \subseteq Nat

VARIABLES
  authorized, oldData,  \* per Client object
  reread,               \* samples in olddata when the agent was killed
  faults, busy, crashes, stops

clientVars == <<authorized, oldData>>
serverVars == <<clientVars, tableVars>>
budgetVars == <<faults, busy, crashes, stops, reread>>
processVars == <<agentVars, winsock>>
vars == <<processVars, serverVars, budgetVars>>

\* What the agent keeps that no packet changes.
agentKeeps == <<loopVars, state, fd, confVars, file, winsock>>

Init ==
  /\ AgentInit /\ winsock \in Platforms
  /\ authorized = [c \in Conn |-> FALSE]
  /\ oldData = [c \in Conn |-> <<>>]
  /\ row \in Config /\ \A n \in Config : row <= n
  /\ records = {} /\ disk = InTable({}, row) /\ txn = FALSE
  /\ faults = 0 /\ busy = 0 /\ crashes = 0 /\ stops = 0 /\ reread = {}

-----------------------------------------------------------------------------
(* The server.                                                             *)

\* Packets queued for an agent that has closed its end go nowhere.
Reply(c, msgs) ==
  toAgent' = IF aOpen[c] /\ ~cut[c]
             THEN [toAgent EXCEPT ![c] = @ \o msgs] ELSE toAgent

\* The next packet of a connection is handled.
Receives(c, type) ==
  /\ sOpen[c] /\ toServer[c] # <<>> /\ Head(toServer[c]).type = type
  /\ toServer' = [toServer EXCEPT ![c] = Tail(@)]
  /\ UNCHANGED <<agentKeeps, aOpen, sOpen, cut, budgetVars>>

\* Only the Linux agent sends a temperature that is no number; a Junk packet
\* may have such columns or not.
NotANumber ==
  {R \in {{}, {Junk}} : OnWindows} \cup
  {R \in {Refused, Refused \cup {Junk}} : ~OnWindows}

\* sendConfig is set in the agent's AUTH: the configuration follows the reply.
ServerAuth(c) ==
  /\ Receives(c, "AUTH")
  /\ authorized' = [authorized EXCEPT ![c] = KeyKnown]
  /\ Reply(c, IF KeyKnown THEN <<Msg("REPLY", 1), Msg("CONFIG", row)>>
                          ELSE <<Msg("REPLY", 0)>>)
  /\ UNCHANGED <<oldData, tableVars>>

ServerLive(c) ==
  /\ Receives(c, "LIVE")
  /\ \E refused \in NotANumber : insertRecord(Head(toServer[c]).val, refused)
  /\ UNCHANGED <<clientVars, toAgent>>

ServerOld(c) ==
  /\ Receives(c, "OLD")
  /\ oldData' = [oldData EXCEPT ![c] = Append(@, Head(toServer[c]).val)]
  /\ UNCHANGED <<authorized, tableVars, toAgent>>

\* Two seconds passed since the last flush: all or nothing is stored, and
\* nothing is kept.
Flushed(c) ==
  /\ sOpen[c] /\ oldData[c] # <<>>
  /\ oldData' = [oldData EXCEPT ![c] = <<>>]
  /\ UNCHANGED <<processVars, authorized>>

Flush(c) ==
  /\ Flushed(c)
  /\ \E refused \in NotANumber : insertRecords(oldData[c], refused)
  /\ UNCHANGED budgetVars

\* The object of connection c is deleted with what waits in it.
DeleteClient(c) ==
  /\ sOpen' = [sOpen EXCEPT ![c] = FALSE]
  /\ toServer' = [toServer EXCEPT ![c] = <<>>]
  /\ authorized' = [authorized EXCEPT ![c] = FALSE]
  /\ oldData' = [oldData EXCEPT ![c] = <<>>]
  /\ UNCHANGED <<agentKeeps, aOpen, cut, toAgent, tableVars>>

\* recv returns 0 or an error: the agent's end is closed.  It may be reset,
\* and then what is under way is never read.
ServerEof(c) ==
  /\ sOpen[c] /\ (~aOpen[c] \/ cut[c])
  /\ DeleteClient(c)
  /\ UNCHANGED budgetVars

\* A viewer changes the configuration; every client of the server is sent
\* what its dbAgent holds, a client that is not authorised an unset one.
Reconfigure ==
  /\ \E n \in Config :
       /\ row < n /\ updateAgent(n)
       /\ toAgent' = [c \in Conn |->
            IF sOpen[c] /\ aOpen[c] /\ ~cut[c]
            THEN Append(toAgent[c],
                        Msg("CONFIG", IF authorized[c] THEN n ELSE UnsetConfig))
            ELSE toAgent[c]]
  /\ UNCHANGED <<agentKeeps, aOpen, sOpen, cut, toServer, clientVars,
                 budgetVars>>

ServerStep(c) ==
  \/ ServerAuth(c) \/ ServerLive(c) \/ ServerOld(c) \/ Flush(c) \/ ServerEof(c)

-----------------------------------------------------------------------------
(* Faults.                                                                 *)

Incidents == faults + busy + crashes + stops

Happens == Incidents < MaxIncidents

Fault == Happens /\ faults < MaxFaults /\ faults' = faults + 1
         /\ UNCHANGED <<busy, crashes, stops, reread>>

\* The network loses a connection and what is under way on it.
Cut(c) ==
  /\ Fault /\ aOpen[c] /\ sOpen[c] /\ ~cut[c]
  /\ cut' = [cut EXCEPT ![c] = TRUE]
  /\ toServer' = [toServer EXCEPT ![c] = <<>>]
  /\ toAgent' = [toAgent EXCEPT ![c] = <<>>]
  /\ UNCHANGED <<agentKeeps, aOpen, sOpen, serverVars>>

\* The server drops a client: ping or packet time-out.
ServerDrops(c) == Fault /\ sOpen[c] /\ DeleteClient(c)

\* The server stops, with all its clients, and starts again.
ServerRestart ==
  /\ Fault
  /\ sOpen' = [c \in Conn |-> FALSE]
  /\ toServer' = [c \in Conn |-> <<>>]
  /\ authorized' = [c \in Conn |-> FALSE]
  /\ oldData' = [c \in Conn |-> <<>>]
  /\ Reopen
  /\ UNCHANGED <<agentKeeps, aOpen, cut, toAgent>>

\* The transaction is rolled back, or the INSERT of a live sample fails.
StoreFails(c) ==
  /\ Fault
  /\ \/ Flushed(c)
     \/ /\ sOpen[c] /\ toServer[c] # <<>> /\ Head(toServer[c]).type = "LIVE"
        /\ toServer' = [toServer EXCEPT ![c] = Tail(@)]
        /\ UNCHANGED <<agentKeeps, aOpen, sOpen, cut, toAgent, clientVars>>
  /\ UNCHANGED tableVars

\* The transaction is neither committed nor rolled back.
CommitBusy(c) ==
  /\ Happens /\ busy < MaxBusy /\ busy' = busy + 1
  /\ Flushed(c)
  /\ \E refused \in NotANumber : CommitFails(oldData[c], refused)
  /\ UNCHANGED <<faults, crashes, stops, reread>>

Timeout == Fault /\ AgentTimeout /\ UNCHANGED serverVars

\* olddata stays where it was read from, so it is read once more.
AgentCrash ==
  /\ Happens /\ crashes < MaxCrashes /\ crashes' = crashes + 1
  /\ Crash /\ UNCHANGED <<winsock, serverVars, faults, busy, stops>>
  /\ reread' = reread \cup IF pc = "saving" THEN {}
                           ELSE Values(file) \cap Samples

AgentStop ==
  /\ Happens /\ stops < MaxStops /\ stops' = stops + 1
  /\ Stop /\ UNCHANGED <<winsock, serverVars, faults, busy, crashes, reread>>

-----------------------------------------------------------------------------
(* The specification.                                                      *)

AgentRuns == AgentStep /\ UNCHANGED <<serverVars, budgetVars>>

Next ==
  \/ AgentRuns
  \/ \E c \in Conn : \/ ServerStep(c)
                    \/ Cut(c) \/ ServerDrops(c) \/ StoreFails(c) \/ CommitBusy(c)
  \/ Reconfigure
  \/ ServerRestart
  \/ Timeout
  \/ AgentCrash
  \/ AgentStop

Spec == Init /\ [][Next]_vars

Unbudgeted(A) == A /\ UNCHANGED <<serverVars, budgetVars>>

\* Both programs keep running.  What is under way arrives, the end of a
\* connection is noticed, and the 500 ms between two attempts pass, though
\* in any one iteration of the agent's loop they may not have yet.
FairSpec ==
  /\ Spec
  /\ WF_vars(AgentRuns)
  /\ \A c \in Conn : WF_vars(ServerStep(c))
  /\ SF_vars(Unbudgeted(Connects))
  /\ SF_vars(Unbudgeted(Reads))
  /\ SF_vars(Unbudgeted(NoticesEof))

-----------------------------------------------------------------------------
(* Properties.                                                             *)

ToServer == [type : {"AUTH", "LIVE", "OLD"}, val : Samples \cup {Junk}]

ToAgent == [type : {"REPLY"}, val : {0, 1}]
             \cup [type : {"CONFIG"}, val : Config \cup {UnsetConfig}]

\* Every variable has its type, and what the loop is doing agrees with the
\* state of the connection.
TypeOK ==
  /\ pc \in {"down", "killed", "connect", "reply", "read", "sample", "resend",
             "apply", "renaming", "saving"}
  /\ state \in {"NotConnected", "WaitingForConfig", "Connected"}
  /\ fd \in Conn \cup {NoConn}
  /\ (pc = "reply" \/ state # "NotConnected") => fd \in Conn /\ aOpen[fd]
  /\ pc = "reply" => state = "NotConnected"
  /\ pc = "read" => state # "NotConnected"
  /\ {queue, file} \subseteq Seq(Samples \cup {Junk}) /\ taken \in 0..MaxSample
  /\ {cfg, cfgFile} \subseteq Config \cup {LocalConfig, UnsetConfig, NoFile}
  /\ cfgChanged \in BOOLEAN /\ winsock \in {"absent", "up", "cleaned"}
  /\ {aOpen, sOpen, cut, authorized} \subseteq [Conn -> BOOLEAN]
  /\ toServer \in [Conn -> Seq(ToServer)] /\ toAgent \in [Conn -> Seq(ToAgent)]
  /\ oldData \in [Conn -> Seq(Samples \cup {Junk})]
  /\ disk \in [records : SUBSET (Samples \cup {Junk}), row : Config]
  /\ disk.records \subseteq records /\ records \subseteq Samples \cup {Junk}
  /\ row \in Config /\ txn \in BOOLEAN /\ reread \subseteq Samples
  /\ faults \in 0..MaxFaults /\ busy \in 0..MaxBusy
  /\ crashes \in 0..MaxCrashes /\ stops \in 0..MaxStops

InSeq(s, q) == \E i \in DOMAIN q : q[i] = s

InQueue(s) == InSeq(s, queue) \/ (Down /\ InSeq(s, file))

\* Where copies of sample s are, apart from the records table; one in
\* olddata counts while it is the agent's only memory.
Copies(s) ==
  LET At(place, c, q) ==
        {[at |-> place, conn |-> c, pos |-> i] : i \in {j \in DOMAIN q : q[j] = s}}
      Stream(c) ==
        {[at |-> "stream", conn |-> c, pos |-> i] :
           i \in {j \in DOMAIN toServer[c] : /\ toServer[c][j].type # "AUTH"
                                             /\ toServer[c][j].val = s}}
  IN  At("queue", NoConn, queue)
        \cup (IF Down THEN At("file", NoConn, file) ELSE {})
        \cup UNION {Stream(c) \cup At("server", c, oldData[c]) : c \in Conn}

\* A sample exists once, also in an agent that is killed and in an olddata
\* that is not complete: it is not sent live and saved as well, nor kept in
\* the queue after it was sent, nor read back from olddata after it was sent;
\* so no batch of old samples is rolled back for a duplicate.  Only what was
\* in olddata when the agent was killed may be sent again
\* (agent_lin/main.cpp:88-155 and 178-194, db.cpp:235).
OneCopy ==
  \A s \in Samples \ reread :
    Cardinality(Copies(s)) + (IF s \in records THEN 1 ELSE 0) <= 1

\* What the agent makes of bytes it did not read reaches the table only if it
\* was killed while it wrote olddata (agent_lin/main.cpp:91-100).
Genuine == Junk \in records => crashes > 0

\* As long as no COMMIT was refused, a transaction is ended where it was
\* begun, and what the server sees of its tables is what it finds there after
\* a restart (db.cpp:229-249).
DurableUnlessBusy == busy = 0 => disk = InTable(records, row)

\* Whatever the broadcasts of the server cross on their way, the agent never
\* runs with, or writes to its file, the configuration the server sends to a
\* client that has not authorised yet (agent_lin/server.cpp:173-185).
NeverUnset == UnsetConfig \notin {cfg, cfgFile}

\* A Linux agent whose key is known holds one socket, however often it
\* reconnects: every way a connection ends closes m_fd before connect()
\* overwrites it.  (A REPLY of 0 does not: agent_lin/server.cpp:179-185; nor
\* does the Windows agent when the connection is reset: serverWin.cpp:193.)
OneSocket ==
  KeyKnown /\ ~OnWindows => \A c \in Conn :
    aOpen[c] => c = fd /\ (state # "NotConnected" \/ pc = "reply")

\* Each sample goes from the agent to the table as Custody says.
PlaceOf(s) ==
  IF s \in disk.records THEN "stored"
  ELSE IF s \in reread THEN "repeated"
  ELSE IF s \in records THEN "pending"
  ELSE IF \E c \in Conn : InSeq(s, oldData[c]) THEN "server"
  ELSE IF \E c \in Conn : \E i \in DOMAIN toServer[c] :
            toServer[c][i].type # "AUTH" /\ toServer[c][i].val = s THEN "connection"
  ELSE IF InQueue(s) THEN "agent"
  ELSE IF s > taken THEN "future" ELSE "lost"

Promised == INSTANCE Custody
  WITH Sample <- Samples,
       place <- [s \in Samples |-> PlaceOf(s)],
       link <- CASE pc = "killed" -> "killed"
                 [] pc # "killed" /\ state # "Connected" -> "none"
                 [] OTHER -> IF Alive(fd) THEN "up" ELSE "dead"

\* The pipeline implements Custody: a saved sample leaves the agent only for a
\* connection or when the agent is killed, is lost only with the connection,
\* its batch or an open transaction, and one in the file is never lost.
KeepsCustody == Promised!Spec

\* Nothing that happened keeps saved samples from the table: no open
\* transaction, no packet that spoils its batch, and the agent has no socket
\* that is secretly dead.
Unspoilt ==
  /\ ~txn /\ reread = {} /\ Refused = {} /\ Copies(Junk) = {}
  /\ fd # NoConn => ~aOpen[fd] \/ Alive(fd)

ReachesTable(s, Provided(_)) ==
  \A n \in 0..MaxIncidents :
    (Incidents = n /\ InQueue(s) /\ Unspoilt /\ Provided(winsock))
       ~> (s \in disk.records \/ Incidents # n)

\* A saved sample is eventually in the file of the database if nothing goes
\* wrong from then on, whatever went wrong before; unless a Windows agent has
\* given its sockets up (agent_lin/main.cpp:144-155, client.cpp:177-184).
SavedSamplesStored ==
  \A s \in Samples : ReachesTable(s, LAMBDA w : w # "cleaned")

\* "save old data in order to send it to server when connected"
\* (agent_win/src/test.cpp:412): the same of a Windows agent whose sockets
\* were cleaned up.
SavedSamplesStoredAnyway ==
  \A s \in Samples : ReachesTable(s, LAMBDA w : TRUE)

\* Faults, crashes and broadcasts that cross a handshake notwithstanding, the
\* agent ends up running with, and keeping in its file, the last
\* configuration a viewer stored; but a Windows agent may have given its
\* sockets up, or have been killed between the removal of its file and the
\* renaming of the new one (agent_lin/server.cpp:255-270, config.cpp:59-79).
ConfigConverges ==
  <>[](\/ cfg = row /\ cfgFile = row
       \/ winsock = "cleaned"
       \/ OnWindows /\ cfgFile = NoFile /\ crashes > 0)
=============================================================================
