------------------------------- MODULE Agent -------------------------------
(***************************************************************************)
(* The Linux agent: the loop of agent_lin/main.cpp that takes a sample     *)
(* every interval, and the Server object of agent_lin/server.cpp it sends  *)
(* them through; with the agent's end of its TCP connections, the file     *)
(* olddata and the interval kept in the configuration file.  What the      *)
(* Windows agent does otherwise is in WinAgent.                            *)
(*                                                                         *)
(* One iteration of the loop is process (connect, or read one packet),     *)
(* take a sample, send one saved sample, apply a configuration.  connect() *)
(* blocks until the reply to AUTH, so it is two steps.  Module Pipeline    *)
(* has the server's end and the network.                                   *)
(*                                                                         *)
(* Abstractions.  A sample is its number; its time stamp is different from *)
(* every other's (the interval is at least two seconds unless the local    *)
(* file says less).  A configuration is a number.  A packet arrives whole  *)
(* or not at all.  Whether the interval, or the 500 ms between attempts to *)
(* connect, have passed is left open.  A packet read from an olddata that  *)
(* is not complete is Junk: fread is not tested, so its fields are what    *)
(* the buffer held.                                                        *)
(***************************************************************************)
EXTENDS Naturals, Sequences, FiniteSets

CONSTANTS
  Conn, NoConn,   \* TCP connections that can exist at the same time
  MaxSample,      \* bound: samples taken
  Config,         \* configurations a row of the agents table may hold
  LocalConfig,    \* the one in the agent's own file at the start
  UnsetConfig     \* what the server sends a client it does not know

ASSUME AgentAssumption ==
  /\ NoConn \notin Conn /\ MaxSample \in Nat
  /\ LocalConfig \notin Config /\ UnsetConfig \notin Config
  /\ LocalConfig # UnsetConfig

Samples == 1..MaxSample

Junk == 0

VARIABLES
  pc,              \* where the agent is: down, or a part of its loop
  state,           \* Server::m_state
  fd,              \* Server::m_fd: the connection it names
  queue,           \* oldSensorsData
  taken,           \* samples taken so far
  cfg, cfgChanged, \* Server::m_config, Server::m_configChanged
  cfgFile,         \* the configuration file
  file,            \* the file olddata
  aOpen, sOpen,    \* is the agent's, the server's end of a connection open?
  cut,             \* the network lost the connection
  toServer, toAgent  \* packets under way

loopVars == <<pc, taken, queue>>
confVars == <<cfg, cfgChanged, cfgFile>>
netVars  == <<aOpen, sOpen, cut, toServer, toAgent>>
agentVars == <<loopVars, state, fd, confVars, file, netVars>>

Msg(type, val) == [type |-> type, val |-> val]

AgentInit ==
  /\ pc = "connect" /\ state = "NotConnected" /\ fd = NoConn
  /\ queue = <<>> /\ taken = 0
  /\ cfg = LocalConfig /\ cfgChanged = FALSE /\ cfgFile = LocalConfig
  /\ file = <<>>
  /\ aOpen = [c \in Conn |-> FALSE] /\ sOpen = [c \in Conn |-> FALSE]
  /\ cut = [c \in Conn |-> FALSE]
  /\ toServer = [c \in Conn |-> <<>>] /\ toAgent = [c \in Conn |-> <<>>]

-----------------------------------------------------------------------------
(* The socket.                                                             *)

\* Bytes sent on it still reach the server.
Alive(c) == sOpen[c] /\ ~cut[c]

\* close(m_fd); what was under way to the agent is dropped.
CloseFd ==
  /\ aOpen' = [aOpen EXCEPT ![fd] = FALSE]
  /\ toAgent' = [toAgent EXCEPT ![fd] = <<>>]

\* Mutant: the socket is closed and the state is not changed.
DisconnectOnlyCloses == CloseFd /\ UNCHANGED <<state, sOpen, cut>>

\* The same, and m_state = NotConnected.
Disconnect == CloseFd /\ state' = "NotConnected" /\ UNCHANGED <<sOpen, cut>>

\* sendPacket succeeds: also when the other end is gone and nobody noticed.
Sent(m) ==
  /\ toServer' = IF Alive(fd)
                 THEN [toServer EXCEPT ![fd] = Append(@, m)] ELSE toServer
  /\ UNCHANGED <<state, aOpen, sOpen, cut, toAgent>>

\* sendPacket fails, closes the socket and gives up the connection.
SendFails == ~Alive(fd) /\ Disconnect /\ UNCHANGED toServer

-----------------------------------------------------------------------------
(* Server::process: connect.                                               *)

\* A new socket is connected and AUTH sent on it.
Connect ==
  /\ pc = "connect" /\ state = "NotConnected"
  /\ \E c \in Conn :
       /\ ~aOpen[c] /\ ~sOpen[c]
       /\ fd' = c
       /\ aOpen' = [aOpen EXCEPT ![c] = TRUE]
       /\ sOpen' = [sOpen EXCEPT ![c] = TRUE]
       /\ cut' = [cut EXCEPT ![c] = FALSE]
       /\ toServer' = [toServer EXCEPT ![c] = <<Msg("AUTH", 0)>>]
       /\ toAgent' = [toAgent EXCEPT ![c] = <<>>]
  /\ pc' = "reply"
  /\ UNCHANGED <<taken, queue, state, confVars, file>>

\* Less than 500 ms since the last attempt, or socket, getaddrinfo, connect
\* or the first send fails.
ConnectSkipped ==
  /\ pc = "connect" /\ state = "NotConnected"
  /\ pc' = "sample"
  /\ UNCHANGED <<taken, queue, state, fd, confVars, file, netVars>>

\* Mutant: the reply is taken for granted.
ReadReplyAny ==
  /\ pc = "reply" /\ toAgent[fd] # <<>>
  /\ state' = "WaitingForConfig" /\ pc' = "read"
  /\ UNCHANGED <<taken, queue, fd, confVars, file, netVars>>

\* A REPLY of 0 leaves m_fd open for ever: the next connect() overwrites it.
ReadReply ==
  /\ pc = "reply" /\ toAgent[fd] # <<>>
  /\ LET m == Head(toAgent[fd]) IN
     IF m.type # "REPLY"
     THEN Disconnect /\ pc' = "sample"
     ELSE /\ toAgent' = [toAgent EXCEPT ![fd] = Tail(@)]
          /\ IF m.val = 1 THEN state' = "WaitingForConfig" /\ pc' = "read"
                          ELSE UNCHANGED state /\ pc' = "sample"
          /\ UNCHANGED <<aOpen, sOpen, cut>>
  /\ UNCHANGED <<taken, queue, fd, confVars, file, toServer>>

\* The stream ends.  (When recvall reports an error instead, readPacket goes
\* on with a header it never read; the second recvall then returns 0.)
ReplyLost ==
  /\ pc = "reply" /\ toAgent[fd] = <<>> /\ ~Alive(fd)
  /\ Disconnect
  /\ pc' = "sample"
  /\ UNCHANGED <<taken, queue, fd, confVars, file, toServer>>

\* No reply within a second.
ReplyTimeout ==
  /\ pc = "reply"
  /\ Disconnect
  /\ pc' = "sample"
  /\ UNCHANGED <<taken, queue, fd, confVars, file, toServer>>

-----------------------------------------------------------------------------
(* Server::process: read.                                                  *)

\* process is at its select: in the iteration that connected, or in one that
\* found the connection made.
Reading == pc = "read" \/ (pc = "connect" /\ state # "NotConnected")

\* Mutant: the state changes and the socket is not closed.
ConfigTimeoutLeaks ==
  /\ pc = "connect" /\ state = "WaitingForConfig"
  /\ state' = "NotConnected"
  /\ pc' = "sample"
  /\ UNCHANGED <<taken, queue, fd, confVars, file, netVars>>

\* No CONFIG within CONFIG_TIMEOUT.
ConfigTimeout ==
  /\ pc = "connect" /\ state = "WaitingForConfig"
  /\ Disconnect
  /\ pc' = "sample"
  /\ UNCHANGED <<taken, queue, fd, confVars, file, toServer>>

\* Nothing arrived yet.
ReadNothing ==
  /\ Reading
  /\ pc' = "sample"
  /\ UNCHANGED <<taken, queue, state, fd, confVars, file, netVars>>

\* Mutant: only the first CONFIG of a connection is used.
ReadPacketFirstConfig ==
  /\ Reading /\ toAgent[fd] # <<>>
  /\ LET m == Head(toAgent[fd]) IN
     IF m.type = "CONFIG" /\ state = "WaitingForConfig"
     THEN cfg' = m.val /\ cfgChanged' = TRUE /\ state' = "Connected"
     ELSE UNCHANGED <<cfg, cfgChanged, state>>
  /\ toAgent' = [toAgent EXCEPT ![fd] = Tail(@)]
  /\ pc' = "sample"
  /\ UNCHANGED <<taken, queue, fd, cfgFile, file, aOpen, sOpen, cut, toServer>>

\* CONFIG is taken for the agent's own; every other packet is ignored.
ReadPacket ==
  /\ Reading /\ toAgent[fd] # <<>>
  /\ LET m == Head(toAgent[fd]) IN
     IF m.type = "CONFIG"
     THEN cfg' = m.val /\ cfgChanged' = TRUE /\ state' = "Connected"
     ELSE UNCHANGED <<cfg, cfgChanged, state>>
  /\ toAgent' = [toAgent EXCEPT ![fd] = Tail(@)]
  /\ pc' = "sample"
  /\ UNCHANGED <<taken, queue, fd, cfgFile, file, aOpen, sOpen, cut, toServer>>

\* The end of the stream, or an error.
ReadEof ==
  /\ Reading /\ toAgent[fd] = <<>> /\ ~Alive(fd)
  /\ Disconnect
  /\ pc' = "sample"
  /\ UNCHANGED <<taken, queue, fd, confVars, file, toServer>>

\* A packet started and did not arrive within a second.
ReadTimeout ==
  /\ Reading /\ toAgent[fd] # <<>>
  /\ Disconnect
  /\ pc' = "sample"
  /\ UNCHANGED <<taken, queue, fd, confVars, file, toServer>>

-----------------------------------------------------------------------------
(* The rest of the loop.                                                   *)

NewSample == pc = "sample" /\ taken < MaxSample /\ taken' = taken + 1
             /\ pc' = "resend"

SampleSkipped ==
  /\ pc = "sample" /\ pc' = "resend"
  /\ UNCHANGED <<taken, queue, state, fd, confVars, file, netVars>>

SampleSent ==
  /\ NewSample /\ state = "Connected"
  /\ Sent(Msg("LIVE", taken'))
  /\ UNCHANGED <<queue, fd, confVars, file>>

\* The sample is in neither the stream nor the queue.
SampleUnsent ==
  /\ NewSample /\ state = "Connected"
  /\ SendFails
  /\ UNCHANGED <<queue, fd, confVars, file>>

\* Mutant: a sample is saved and, once there is a socket, sent as well.
SampleSavedAndSent ==
  /\ NewSample /\ state # "Connected"
  /\ queue' = Append(queue, taken')
  /\ IF state = "WaitingForConfig" THEN Sent(Msg("LIVE", taken'))
     ELSE UNCHANGED <<state, netVars>>
  /\ UNCHANGED <<fd, confVars, file>>

SampleSaved ==
  /\ NewSample /\ state # "Connected"
  /\ queue' = Append(queue, taken')
  /\ UNCHANGED <<state, fd, confVars, file, netVars>>

ResendFails ==
  /\ pc = "resend" /\ queue # <<>> /\ state = "Connected"
  /\ SendFails
  /\ pc' = "apply"
  /\ UNCHANGED <<taken, queue, fd, confVars, file>>

Resend ==
  /\ pc = "resend" /\ queue # <<>> /\ state = "Connected"
  /\ Sent(Msg("OLD", Head(queue)))
  /\ queue' = Tail(queue)
  /\ pc' = "apply"
  /\ UNCHANGED <<taken, fd, confVars, file>>

NothingToResend ==
  /\ pc = "resend" /\ (queue = <<>> \/ state # "Connected")
  /\ pc' = "apply"
  /\ UNCHANGED <<taken, queue, state, fd, confVars, file, netVars>>

\* A configuration that arrived is written to the file.
Apply ==
  /\ pc = "apply" /\ pc' = "connect"
  /\ cfgFile' = IF cfgChanged THEN cfg ELSE cfgFile
  /\ cfgChanged' = FALSE
  /\ UNCHANGED <<taken, queue, state, fd, cfg, file, netVars>>

-----------------------------------------------------------------------------
(* The process.                                                            *)

\* The agent does not run: it ended by itself, or was killed.
Down == pc \in {"down", "killed"}

\* The kernel closes the sockets of a process that ends.
CloseAll ==
  /\ aOpen' = [c \in Conn |-> FALSE]
  /\ toAgent' = [c \in Conn |-> <<>>]
  /\ state' = "NotConnected" /\ fd' = NoConn
  /\ UNCHANGED <<sOpen, cut, toServer>>

\* What olddata may hold of the queue before fclose: nothing, not even the
\* count; or the count and some packets, and the others are read as Junk.
Unfinished ==
  {<<Junk>>} \cup
  {[i \in 1..Len(queue) |-> IF i <= k THEN queue[i] ELSE Junk] :
     k \in 0..Len(queue)}

\* A signal: the loop ends where it tests end, and olddata is truncated.
Stop ==
  /\ pc = "connect" /\ pc' = "saving"
  /\ file' = <<Junk>>
  /\ UNCHANGED <<taken, queue, state, fd, confVars, netVars>>

\* Mutant: an agent that is connected thinks it has nothing to save.
SavedForgets ==
  /\ pc = "saving" /\ pc' = "down"
  /\ file' = (IF state = "Connected" THEN <<>> ELSE queue) /\ queue' = <<>>
  /\ CloseAll
  /\ UNCHANGED <<taken, confVars>>

\* The queue is in olddata and the process ends.
Saved ==
  /\ pc = "saving" /\ pc' = "down"
  /\ file' = queue /\ queue' = <<>>
  /\ CloseAll
  /\ UNCHANGED <<taken, confVars>>

\* The agent is killed, what it held in memory is gone, and olddata is as far
\* as it was written; which may also be because the disk is full.
Crash ==
  /\ ~Down /\ pc' = "killed"
  /\ file' \in (IF pc = "saving" THEN Unfinished ELSE {file})
  /\ queue' = <<>> /\ cfg' = cfgFile /\ cfgChanged' = FALSE
  /\ CloseAll
  /\ UNCHANGED <<taken, cfgFile>>

Starts ==
  /\ Down /\ pc' = "connect"
  /\ cfg' = cfgFile /\ cfgChanged' = FALSE
  /\ UNCHANGED <<taken, state, fd, cfgFile, file, netVars>>

\* Mutant: the samples of the run before are not read back.
StartUpEmpty == Starts /\ queue' = <<>>

\* Mutant: a packet more than the count says is read.
StartUpOneMore == Starts /\ queue' = Append(file, Junk)

\* olddata is read and stays where it is.
StartUp == Starts /\ queue' = file

\* The count was not written, and the memory it is read to holds 0.  (When it
\* holds more than the memory has room for, the process dies: Crash.)
StartUpNoCount == Starts /\ file = <<Junk>> /\ queue' = <<>>

\* What both agents do when nothing goes wrong.
CommonStep ==
  \/ ConnectSkipped \/ ReadReply \/ ReadNothing \/ ReadPacket
  \/ SampleSkipped \/ SampleSent \/ SampleSaved
  \/ Resend \/ NothingToResend
  \/ Saved \/ StartUp \/ StartUpNoCount

\* What only the Linux agent does: it tests what send returned, closes the
\* socket and nothing else, and replaces its configuration file at once.
LinuxStep ==
  \/ Connect \/ ReplyLost \/ ReadEof \/ SampleUnsent \/ ResendFails \/ Apply

LinuxTimeout == ReplyTimeout \/ ConfigTimeout \/ ReadTimeout
=============================================================================
