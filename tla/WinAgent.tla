------------------------------ MODULE WinAgent ------------------------------
(***************************************************************************)
(* The Windows agent: agent_win/src/test.cpp and serverWin.cpp, a port of  *)
(* the Linux agent of module Agent.  Most of it does what Agent says; this *)
(* module has what it does otherwise.                                      *)
(*                                                                         *)
(* WSAStartup is called once, in main; but wherever the Linux agent closes *)
(* a socket because the connection is over, this one also calls            *)
(* WSACleanup, after which no socket of the process works.  What send      *)
(* returned is not tested.  readPacket tests for the end of the stream but *)
(* not for an error.  The configuration file is removed before the new one *)
(* takes its name.                                                         *)
(***************************************************************************)
EXTENDS Agent

CONSTANTS NoFile  \* there is no configuration file

ASSUME WinAgentAssumption ==
  NoFile \notin Config \cup {LocalConfig, UnsetConfig}

VARIABLES
  winsock  \* "absent" in the Linux agent; "up" or "cleaned" up in the other

OnWindows == winsock # "absent"

-----------------------------------------------------------------------------
(* The end of a connection.                                                *)

\* closesocket, WSACleanup, m_state = NotConnected.
CleanUp ==
  /\ aOpen' = [c \in Conn |-> FALSE]
  /\ toAgent' = [c \in Conn |-> <<>>]
  /\ state' = "NotConnected" /\ winsock' = "cleaned"
  /\ pc' = "sample"
  /\ UNCHANGED <<taken, queue, fd, confVars, file, sOpen, cut, toServer>>

\* connect to the server needs the sockets that WSACleanup took away: then
\* getaddrinfo fails, and connectServer goes on with a result it never got.
\* It says that it is unable to connect (ConnectSkipped), or dies (Crash).
WinConnect == winsock = "up" /\ Connect /\ UNCHANGED winsock

\* readPacket finds the end of the stream.
WinReplyLost ==
  /\ pc = "reply" /\ toAgent[fd] = <<>> /\ ~Alive(fd)
  /\ CleanUp

\* The connection is reset while readPacket waits.  It goes on with a header
\* it never read: the reply is no reply and connectServer closes the socket,
\* or it is one of 0 and the socket stays open.
WinReplyReset ==
  /\ pc = "reply" /\ toAgent[fd] = <<>> /\ ~Alive(fd)
  /\ Disconnect \/ UNCHANGED <<state, aOpen, sOpen, cut, toAgent>>
  /\ pc' = "sample"
  /\ UNCHANGED <<taken, queue, fd, confVars, file, toServer, winsock>>

WinReplyTimeout == pc = "reply" /\ CleanUp

WinConfigTimeout ==
  pc = "connect" /\ state = "WaitingForConfig" /\ CleanUp

WinReadEof == Reading /\ toAgent[fd] = <<>> /\ ~Alive(fd) /\ CleanUp

WinReadTimeout == Reading /\ toAgent[fd] # <<>> /\ CleanUp

-----------------------------------------------------------------------------
(* The configuration file and the process.                                 *)

\* The new file is written next to the old one, which is removed.
WinApply ==
  /\ pc = "apply"
  /\ IF cfgChanged THEN pc' = "renaming" /\ cfgFile' = NoFile
                   ELSE pc' = "connect" /\ UNCHANGED cfgFile
  /\ UNCHANGED <<taken, queue, state, fd, cfg, cfgChanged, file, netVars,
                 winsock>>

\* The new file gets the name of the old one.
WinRename ==
  /\ pc = "renaming" /\ pc' = "connect"
  /\ cfgFile' = cfg /\ cfgChanged' = FALSE
  /\ UNCHANGED <<taken, queue, state, fd, cfg, file, netVars, winsock>>

\* A process that ends gives its winsock back, one that starts asks for it;
\* without a configuration file main returns at once.
CommonWinsock ==
  /\ Down => cfgFile # NoFile
  /\ winsock' = IF Down /\ OnWindows THEN "up" ELSE winsock

WinStep ==
  \/ WinConnect \/ WinReplyLost \/ WinReplyReset \/ WinReadEof
  \/ WinApply \/ WinRename

WinTimeout == WinReplyTimeout \/ WinConfigTimeout \/ WinReadTimeout

-----------------------------------------------------------------------------
(* The agent of either platform.                                           *)

AgentStep ==
  \/ CommonStep /\ CommonWinsock
  \/ ~OnWindows /\ LinuxStep /\ UNCHANGED winsock
  \/ OnWindows /\ WinStep

AgentTimeout ==
  \/ ~OnWindows /\ LinuxTimeout /\ UNCHANGED winsock
  \/ OnWindows /\ WinTimeout

\* The steps that bring a connection forward.
Connects == (~OnWindows /\ Connect /\ UNCHANGED winsock) \/ WinConnect

Reads == ReadPacket /\ UNCHANGED winsock

NoticesEof == (~OnWindows /\ ReadEof /\ UNCHANGED winsock)
              \/ (OnWindows /\ WinReadEof)
=============================================================================
