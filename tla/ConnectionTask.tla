--------------------------- MODULE ConnectionTask ---------------------------
(***************************************************************************)
(* The viewer's connection on Android: ConnectionTask.java, whose run() is *)
(* the network thread, and the calls ConnectionService makes on it from    *)
(* the main thread.  The two share state, host, isConnected and the queue  *)
(* of packets; connect, stop and disconnect do not hold a lock run() takes.*)
(*                                                                         *)
(* net is where the network thread is: "loop" is the reading of state by   *)
(* the switch, a name of a state is the case that was taken, and every     *)
(* other name is a point at which the main thread can get in between two   *)
(* writes.  Of the packets only the effect is kept: START and STOP turn a  *)
(* server's feed on and off.  Those in the queue are counted; each may be  *)
(* a START, which is how the interval is changed.  Whether a second has    *)
(* passed since the last PING is left open.                                *)
(***************************************************************************)
EXTENDS Naturals, FiniteSets

CONSTANTS
  Server,   \* servers the user connects to
  NoHost,   \* host = "", after a network error
  MaxSock,  \* bound: sockets made
  MaxCalls, \* bound: calls of the main thread
  MaxQueue  \* bound: packets in packetQueue

ASSUME TaskAssumption ==
  NoHost \notin Server /\ {MaxSock, MaxCalls, MaxQueue} \subseteq Nat

Sock == 1..MaxSock

VARIABLES
  state, host, isConnected, isStopped, endTask,  \* the fields of that name
  queue,     \* packetQueue: how many packets
  socket,    \* the one made last, 0 if none was
  net,       \* where the network thread is
  ui,        \* what the main thread is about to write to state, idle, unbound
  calls,     \* how many calls the main thread has made
  told,      \* the message the last step sent to the activity
  \* of each socket: its server, are the task's and the server's end open, has
  \* the server granted access, does it send its agents' data
  server, open, up, granted, feed

fieldVars == <<state, host, isConnected, isStopped, endTask, queue>>
sockVars  == <<server, open, up, granted, feed>>
uiVars    == <<ui, calls>>
vars == <<fieldVars, socket, net, uiVars, told, sockVars>>

States == {"IDLE", "CONNECTING", "STARTING", "ACTIVE", "STOPPING",
           "DISCONNECTING"}

Init ==
  /\ state = "IDLE" /\ host = NoHost /\ isConnected = FALSE
  /\ isStopped = TRUE /\ endTask = FALSE /\ queue = 0
  /\ socket = 0 /\ net = "loop" /\ ui = "idle" /\ calls = 0 /\ told = "nothing"
  /\ server = [s \in Sock |-> NoHost] /\ open = [s \in Sock |-> FALSE]
  /\ up = [s \in Sock |-> FALSE] /\ granted = [s \in Sock |-> FALSE]
  /\ feed = [s \in Sock |-> FALSE]

-----------------------------------------------------------------------------
(* The main thread.                                                        *)

Call ==
  /\ ui = "idle" /\ calls < MaxCalls /\ calls' = calls + 1
  /\ UNCHANGED <<isConnected, isStopped, endTask, socket, net, sockVars>>

\* connect: a new connection is needed, unless there is one to the same host.
\* Hosts are compared by reference: equal names may count as different.
Connect(h) ==
  /\ Call
  /\ \/ /\ host' = h /\ ui' = "CONNECTING"
     \/ /\ isConnected /\ host = h
        /\ ui' = "STARTING" /\ UNCHANGED host
  /\ told' = "nothing" /\ UNCHANGED <<state, queue>>

\* The rest of connect.
ConnectEnds ==
  /\ ui \in {"CONNECTING", "STARTING"}
  /\ state' = ui /\ ui' = "idle"
  /\ told' = IF ui = "STARTING" THEN "CONNECTED" ELSE "nothing"
  /\ UNCHANGED <<host, isConnected, isStopped, endTask, queue, socket, net,
                 calls, sockVars>>

Stop ==
  /\ Call /\ state' = "STOPPING"
  /\ told' = "nothing" /\ UNCHANGED <<ui, host, queue>>

Enqueue ==
  /\ Call /\ queue < MaxQueue /\ queue' = queue + 1
  /\ told' = "nothing" /\ UNCHANGED <<ui, state, host>>

\* The last activity goes: disconnect, stopSelf.
Unbind ==
  /\ Call /\ ui' = "unbound" /\ state' = "DISCONNECTING"
  /\ told' = "nothing" /\ UNCHANGED <<host, queue>>

-----------------------------------------------------------------------------
(* The network thread.                                                     *)

\* The steps that neither touch a socket nor the main thread's calls.
Runs == net # "dead" /\ UNCHANGED uiVars

\* Case taken by the switch.
Switch ==
  /\ Runs /\ net = "loop"
  /\ net' = (IF endTask THEN "dead" ELSE IF state = "IDLE" THEN "ping" ELSE state)
  /\ told' = "nothing"
  /\ UNCHANGED <<fieldVars, socket, sockVars>>

\* An exception: processNetworkError, up to where it has written state.
Throws ==
  /\ state' = "IDLE" /\ net' = "error" /\ told' = "nothing"
  /\ UNCHANGED <<host, isConnected, isStopped, endTask, queue>>

\* The rest of processNetworkError; run writes state again if it comes from
\* processConnecting.
Error ==
  /\ Runs /\ net \in {"error", "errorConnecting"}
  /\ host' = NoHost /\ isConnected' = FALSE
  /\ state' = IF net = "errorConnecting" THEN "IDLE" ELSE state
  /\ told' = "CONNECTION_ERROR" /\ net' = "ping"
  /\ UNCHANGED <<isStopped, endTask, queue, socket, sockVars>>

ThrowsConnecting ==
  /\ state' = "IDLE" /\ net' = "errorConnecting" /\ told' = "nothing"
  /\ UNCHANGED <<host, isConnected, isStopped, endTask, queue>>

\* A socket is made, and the key is sent on it.
Opens ==
  /\ socket < MaxSock /\ socket' = socket + 1
  /\ server' = [server EXCEPT ![socket'] = host]
  /\ open' = [open EXCEPT ![socket'] = TRUE]
  /\ up' = [up EXCEPT ![socket'] = TRUE]
  /\ UNCHANGED <<granted, feed>>

\* Mutant: connected as soon as the socket is.
ProcessConnectingEager ==
  /\ Runs /\ net = "CONNECTING" /\ host \in Server
  /\ Opens
  /\ net' = "ping" /\ isConnected' = TRUE /\ state' = "STARTING"
  /\ told' = "nothing"
  /\ UNCHANGED <<host, isStopped, endTask, queue>>

ProcessConnecting ==
  /\ Runs /\ net = "CONNECTING" /\ host \in Server
  /\ Opens
  /\ net' = "auth" /\ told' = "nothing"
  /\ UNCHANGED fieldVars

\* The host is not found, or connecting fails or takes 1500 ms.
ConnectingFails ==
  /\ Runs /\ net = "CONNECTING"
  /\ ThrowsConnecting /\ UNCHANGED <<socket, sockVars>>

AccessGranted ==
  /\ Runs /\ net = "auth" /\ up[socket]
  /\ granted' = [granted EXCEPT ![socket] = TRUE]
  /\ isConnected' = TRUE /\ state' = "STARTING"
  /\ told' = "CONNECTED" /\ net' = "ping"
  /\ UNCHANGED <<host, isStopped, endTask, queue, socket, server, open, up, feed>>

AuthFailed ==
  /\ Runs /\ net = "auth" /\ up[socket]
  /\ isConnected' = FALSE /\ state' = "IDLE"
  /\ told' = "AUTH_FAILED" /\ net' = "ping"
  /\ UNCHANGED <<host, isStopped, endTask, queue, socket, sockVars>>

\* No reply within a second, or another packet.
NoReply ==
  /\ Runs /\ net = "auth"
  /\ ThrowsConnecting /\ UNCHANGED <<socket, sockVars>>

\* A packet is written; it has its effect if the server is still there.
Writes(effect) ==
  /\ socket # 0 /\ open[socket]
  /\ feed' = [feed EXCEPT ![socket] = up[socket] /\ granted[socket] /\ effect]
  /\ UNCHANGED <<socket, server, open, up, granted>>

\* Writing may fail once the server's end is gone, and does without a stream.
WriteFails ==
  /\ ~(socket # 0 /\ open[socket] /\ up[socket])
  /\ Throws /\ UNCHANGED <<socket, sockVars>>

ProcessStarting ==
  /\ Runs /\ net = "STARTING"
  /\ \/ Writes(TRUE) /\ net' = "started" /\ told' = "nothing"
        /\ UNCHANGED fieldVars
     \/ WriteFails

\* Mutant: the state stays STARTING.
StartedForgets ==
  /\ Runs /\ net = "started"
  /\ isStopped' = FALSE /\ net' = "ping" /\ told' = "nothing"
  /\ UNCHANGED <<state, host, isConnected, endTask, queue, socket, sockVars>>

Started ==
  /\ Runs /\ net = "started"
  /\ isStopped' = FALSE /\ state' = "ACTIVE" /\ net' = "ping"
  /\ told' = "nothing"
  /\ UNCHANGED <<host, isConnected, endTask, queue, socket, sockVars>>

ProcessStopping ==
  /\ Runs /\ net = "STOPPING"
  /\ \/ Writes(FALSE) /\ net' = "stopped" /\ told' = "nothing"
        /\ UNCHANGED fieldVars
     \/ WriteFails

Stopped ==
  /\ Runs /\ net = "stopped"
  /\ isStopped' = TRUE /\ state' = "ACTIVE" /\ net' = "ping"
  /\ told' = "nothing"
  /\ UNCHANGED <<host, isConnected, endTask, queue, socket, sockVars>>

\* Mutant: the packet polled from the queue is not tested for null.
ProcessActiveUntested ==
  /\ Runs /\ net = "ACTIVE" /\ queue' = queue - 1
  /\ net' = "ping" /\ told' = "nothing"
  /\ UNCHANGED <<state, host, isConnected, isStopped, endTask, socket, sockVars>>

\* processActive: a packet is read (also after the end of the connection, if
\* it came before) or, if it is stopped, none is; then one is sent, which
\* turns the feed on if it is a START, stopped or not.
ProcessActive ==
  /\ Runs /\ net = "ACTIVE" /\ socket # 0 /\ open[socket]
  /\ queue > 0 => \E isStart \in BOOLEAN : Writes(feed[socket] \/ isStart)
  /\ queue = 0 => UNCHANGED <<socket, sockVars>>
  /\ queue' = IF queue > 0 THEN queue - 1 ELSE 0
  /\ told' \in {"nothing", "DATA"}
  /\ net' = "ping"
  /\ UNCHANGED <<state, host, isConnected, isStopped, endTask>>

\* No packet within 2 * interval + 1000 ms unless it is stopped, or half of
\* one: nothing has been polled yet.
ActiveTimeout ==
  /\ Runs /\ net = "ACTIVE"
  /\ Throws /\ UNCHANGED <<socket, sockVars>>

\* The packet polled from the queue is lost: it cannot be written, or is too
\* long for the short that its size is kept in (PacketConfig.java:75-82).
ActiveFails ==
  /\ Runs /\ net = "ACTIVE" /\ socket # 0 /\ open[socket]
  /\ queue > 0 /\ queue' = queue - 1
  /\ state' = "IDLE" /\ net' = "error" /\ told' \in {"nothing", "DATA"}
  /\ UNCHANGED <<host, isConnected, isStopped, endTask, socket, sockVars>>

\* Mutant: the thread ends and leaves its socket.
ProcessDisconnectingLeaks ==
  /\ Runs /\ net = "DISCONNECTING"
  /\ isConnected' = FALSE /\ endTask' = TRUE
  /\ net' = "ping" /\ told' = "nothing"
  /\ UNCHANGED <<state, host, isStopped, queue, socket, sockVars>>

\* Without a socket output is null, and the exception ends the thread as well.
ProcessDisconnecting ==
  /\ Runs /\ net = "DISCONNECTING"
  /\ open' = [s \in Sock |-> open[s] /\ s # socket]
  /\ isConnected' = FALSE /\ endTask' = TRUE
  /\ net' = "ping" /\ told' = "nothing"
  /\ UNCHANGED <<state, host, isStopped, queue, socket, server, up, granted, feed>>

\* The end of the iteration: there is nothing to send.
NoPing ==
  /\ Runs /\ net = "ping" /\ net' = "loop" /\ told' = "nothing"
  /\ UNCHANGED <<fieldVars, socket, sockVars>>

Ping ==
  /\ Runs /\ net = "ping" /\ isConnected
  /\ Writes(feed[socket])
  /\ net' = "loop" /\ told' = "nothing"
  /\ UNCHANGED fieldVars

\* Mutant: no PING is sent while there is no feed.
PingFailsUnlessStopped ==
  /\ Runs /\ net = "ping" /\ isConnected /\ ~isStopped
  /\ WriteFails

PingFails ==
  /\ Runs /\ net = "ping" /\ isConnected
  /\ WriteFails

NetworkThread ==
  \/ Switch \/ Error
  \/ ProcessConnecting \/ ConnectingFails \/ AccessGranted \/ AuthFailed \/ NoReply
  \/ ProcessStarting \/ Started \/ ProcessStopping \/ Stopped
  \/ ProcessActive \/ ActiveTimeout \/ ActiveFails
  \/ ProcessDisconnecting \/ NoPing \/ Ping \/ PingFails

\* The server, or the network, ends a connection.
ServerGone(s) ==
  /\ up[s] /\ up' = [up EXCEPT ![s] = FALSE]
  /\ feed' = [feed EXCEPT ![s] = FALSE] /\ told' = "nothing"
  /\ UNCHANGED <<fieldVars, socket, net, uiVars, server, open, granted>>

-----------------------------------------------------------------------------
Next ==
  \/ \E h \in Server : Connect(h)
  \/ ConnectEnds \/ Stop \/ Enqueue \/ Unbind
  \/ NetworkThread
  \/ \E s \in Sock : ServerGone(s)

Spec == Init /\ [][Next]_vars

\* Both threads run, and a PING is due every second.
FairSpec ==
  /\ Spec
  /\ WF_vars(NetworkThread) /\ WF_vars(ConnectEnds)
  /\ SF_vars(PingFails)

-----------------------------------------------------------------------------
(* Properties.                                                             *)

\* Every variable has its type.
TypeOK ==
  /\ state \in States /\ host \in Server \cup {NoHost}
  /\ {isConnected, isStopped, endTask} \subseteq BOOLEAN
  /\ queue \in 0..MaxQueue /\ socket \in 0..MaxSock
  /\ net \in (States \ {"IDLE"})
       \cup {"loop", "ping", "dead", "auth", "started", "stopped", "error",
             "errorConnecting"}
  /\ ui \in {"idle", "unbound", "CONNECTING", "STARTING"}
  /\ calls \in 0..MaxCalls
  /\ told \in {"nothing", "CONNECTED", "AUTH_FAILED", "CONNECTION_ERROR", "DATA"}
  /\ server \in [Sock -> Server \cup {NoHost}]
  /\ {open, up, granted, feed} \subseteq [Sock -> BOOLEAN]

\* However the two threads race, what keeps a connection alive (a PING) is
\* only sent to a server that has granted access, and on an open socket
\* (ConnectionTask.java:142, 257).
PingGranted ==
  net = "ping" /\ isConnected => socket # 0 /\ granted[socket] /\ open[socket]

\* A thread that ends has closed the socket it made last
\* (ConnectionTask.java:195-202).
ClosedAtEnd == net = "dead" => \A s \in Sock : open[s] => s # socket

\* Also when the feed is off, and nothing is expected from the server, the
\* loss of the connection is noticed: the next PINGs fail
\* (ConnectionTask.java:257-267).
LossNoticed ==
  (isConnected /\ ~up[socket]) ~> (~isConnected \/ up[socket])

\* Once the main thread makes no more calls, the network thread comes to rest
\* in a state that it only leaves for an error, or ends: no lost update leaves
\* it repeating a command (ConnectionTask.java:94-152).
Settles ==
  <>[](state \in {"IDLE", "ACTIVE"} \/ net = "dead")

\* "Connect to given host using auth key.", "Disconnect from connected host."
\* (ConnectionTask.java:374, 401): what the main thread called for last is what
\* becomes of it.  After disconnect the network thread ends; otherwise it is
\* not for ever active with another host than the one connect was given.
LastCallObeyed ==
  <>[](IF ui = "unbound" THEN net = "dead"
       ELSE state = "ACTIVE" /\ isConnected => server[socket] = host)
=============================================================================
