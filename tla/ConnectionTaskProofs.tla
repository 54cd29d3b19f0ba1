------------------------ MODULE ConnectionTaskProofs ------------------------
(***************************************************************************)
(* Proofs about ConnectionTask, for any number of servers, sockets, calls  *)
(* and waiting packets.                                                    *)
(***************************************************************************)
EXTENDS ConnectionTask, TLAPS

-----------------------------------------------------------------------------
(* Types.                                                                  *)

\* The fields that both threads write.
FieldType ==
  /\ state \in States /\ host \in Server \cup {NoHost}
  /\ isConnected \in BOOLEAN /\ isStopped \in BOOLEAN /\ endTask \in BOOLEAN
  /\ queue \in 0..MaxQueue

\* Where the threads are.
ThreadType ==
  /\ net \in (States \ {"IDLE"})
       \cup {"loop", "ping", "dead", "auth", "started", "stopped", "error",
             "errorConnecting"}
  /\ ui \in {"idle", "unbound", "CONNECTING", "STARTING"}
  /\ calls \in 0..MaxCalls
  /\ told \in {"nothing", "CONNECTED", "AUTH_FAILED", "CONNECTION_ERROR", "DATA"}

\* The sockets.
SocketType ==
  /\ socket \in 0..MaxSock
  /\ server \in [Sock -> Server \cup {NoHost}]
  /\ open \in [Sock -> BOOLEAN] /\ up \in [Sock -> BOOLEAN]
  /\ granted \in [Sock -> BOOLEAN] /\ feed \in [Sock -> BOOLEAN]

\* TypeOK is what the three say, before a step and after it.
LEMMA TypeParts ==
  /\ TypeOK <=> FieldType /\ ThreadType /\ SocketType
  /\ TypeOK' <=> FieldType' /\ ThreadType' /\ SocketType'
BY DEF TypeOK, FieldType, ThreadType, SocketType

\* A conjunct is kept by a step that changes none of its variables.
LEMMA FieldFrame == ASSUME FieldType, UNCHANGED fieldVars PROVE FieldType'
BY DEF FieldType, fieldVars

LEMMA SocketFrame ==
  ASSUME SocketType, UNCHANGED socket, UNCHANGED sockVars PROVE SocketType'
BY DEF SocketType, sockVars

\* A packet that is written only changes the feed.
LEMMA WritesType ==
  ASSUME SocketType, NEW effect \in BOOLEAN, Writes(effect) PROVE SocketType'
<1>1. (up[socket] /\ granted[socket] /\ effect) \in BOOLEAN
  OBVIOUS
<1> QED
  BY <1>1 DEF SocketType, Writes, sockVars

\* The calls of the main thread.
LEMMA TypeMain ==
  ASSUME TypeOK,
         (\E h \in Server : Connect(h)) \/ ConnectEnds \/ Stop \/ Enqueue \/ Unbind
  PROVE  TypeOK'
<1> USE TypeParts
<1>1. FieldType'
  BY TaskAssumption
  DEF FieldType, Connect, ConnectEnds, Stop, Enqueue, Unbind, Call, States
<1>2. ThreadType'
  BY TaskAssumption
  DEF ThreadType, Connect, ConnectEnds, Stop, Enqueue, Unbind, Call
<1>3. SocketType'
  BY SocketFrame DEF Connect, ConnectEnds, Stop, Enqueue, Unbind, Call
<1> QED BY <1>1, <1>2, <1>3

\* The steps of the network thread that touch no socket.
LEMMA TypeNoSocket ==
  ASSUME TypeOK,
         \/ Switch \/ Error \/ ConnectingFails \/ AuthFailed \/ NoReply
         \/ Started \/ Stopped \/ ActiveTimeout \/ NoPing \/ PingFails
  PROVE  TypeOK'
<1> USE TypeParts
<1> USE DEF Runs, uiVars, Switch, Error, ConnectingFails, AuthFailed, NoReply,
            Started, Stopped, ActiveTimeout, NoPing, PingFails,
            Throws, ThrowsConnecting, WriteFails
<1>1. FieldType'
  BY DEF FieldType, States, fieldVars
<1>2. ThreadType'
  BY DEF ThreadType, FieldType, States
<1>3. SocketType'
  BY SocketFrame
<1> QED BY <1>1, <1>2, <1>3

\* The packet that cannot be sent is gone from the queue.
LEMMA TypeActiveFails == ASSUME TypeOK, ActiveFails PROVE TypeOK'
<1> USE TypeParts
<1>1. queue' \in 0..MaxQueue
  BY TaskAssumption DEF ActiveFails, FieldType
<1>2. FieldType'
  BY <1>1 DEF ActiveFails, FieldType, States
<1>3. ThreadType'
  BY DEF ActiveFails, Runs, uiVars, ThreadType
<1>4. SocketType'
  BY SocketFrame DEF ActiveFails
<1> QED BY <1>2, <1>3, <1>4

\* The steps that make, write on or close a socket.
LEMMA TypeSocket ==
  ASSUME TypeOK,
         \/ ProcessConnecting \/ AccessGranted \/ ProcessStarting
         \/ ProcessStopping \/ ProcessActive \/ ProcessDisconnecting \/ Ping
  PROVE  TypeOK'
<1> USE TypeParts DEF Runs, uiVars
<1>1. CASE ProcessConnecting
  <2>1. SocketType'
    BY <1>1, TaskAssumption
    DEF ProcessConnecting, Opens, SocketType, FieldType, Sock, sockVars
  <2> QED
    BY <1>1, <2>1, FieldFrame DEF ProcessConnecting, ThreadType
<1>2. CASE AccessGranted
  BY <1>2 DEF AccessGranted, FieldType, ThreadType, SocketType, States
<1>3. CASE ProcessStarting \/ ProcessStopping
  <2>1. CASE Writes(TRUE) \/ Writes(FALSE)
    <3>1. SocketType'
      BY <2>1, WritesType
    <3> QED
      BY <1>3, <3>1, FieldFrame
      DEF ProcessStarting, ProcessStopping, ThreadType, FieldType, States,
          WriteFails, Throws, fieldVars
  <2>2. CASE WriteFails
    BY <1>3, <2>2, SocketFrame
    DEF ProcessStarting, ProcessStopping, WriteFails, Throws, FieldType,
        ThreadType, States
  <2> QED BY <1>3, <2>1, <2>2 DEF ProcessStarting, ProcessStopping
<1>4. CASE ProcessActive
  <2>1. SocketType'
    <3>1. CASE queue > 0
      <4>1. PICK isStart \in BOOLEAN : Writes(feed[socket] \/ isStart)
        BY <1>4, <3>1 DEF ProcessActive
      <4>2. feed[socket] \in BOOLEAN
        BY <4>1 DEF Writes, SocketType, Sock
      <4>3. (feed[socket] \/ isStart) \in BOOLEAN
        OBVIOUS
      <4> QED BY <4>1, <4>3, WritesType
    <3>2. CASE ~(queue > 0)
      BY <1>4, <3>2, SocketFrame DEF ProcessActive, FieldType
    <3> QED BY <3>1, <3>2
  <2>2. FieldType'
    BY <1>4, TaskAssumption DEF ProcessActive, FieldType
  <2>3. ThreadType'
    BY <1>4 DEF ProcessActive, ThreadType
  <2> QED BY <2>1, <2>2, <2>3
<1>5. CASE ProcessDisconnecting
  <2>1. SocketType'
    BY <1>5 DEF ProcessDisconnecting, SocketType
  <2> QED
    BY <1>5, <2>1 DEF ProcessDisconnecting, FieldType, ThreadType
<1>6. CASE Ping
  <2>1. feed[socket] \in BOOLEAN
    BY <1>6 DEF Ping, Writes, SocketType, Sock
  <2>2. SocketType'
    BY <1>6, <2>1, WritesType DEF Ping
  <2> QED
    BY <1>6, <2>2, FieldFrame DEF Ping, ThreadType
<1> QED BY <1>1, <1>2, <1>3, <1>4, <1>5, <1>6

\* TypeOK is inductive.
LEMMA TypeStep == ASSUME TypeOK, [Next]_vars PROVE TypeOK'
<1>1. CASE NetworkThread
  BY <1>1, TypeNoSocket, TypeActiveFails, TypeSocket DEF NetworkThread
<1>2. ASSUME NEW s \in Sock, ServerGone(s) PROVE TypeOK'
  BY <1>2, TypeParts, FieldFrame
  DEF ServerGone, FieldType, ThreadType, SocketType, uiVars
<1>3. CASE UNCHANGED vars
  <2>1. UNCHANGED fieldVars /\ UNCHANGED socket /\ UNCHANGED sockVars
    BY <1>3 DEF vars
  <2>2. ThreadType'
    BY <1>3, TypeParts DEF vars, uiVars, ThreadType
  <2> QED BY <2>1, <2>2, TypeParts, FieldFrame, SocketFrame
<1> QED BY <1>1, <1>2, <1>3, TypeMain DEF Next

\* Every variable has its type.
THEOREM TypeCorrect == Spec => []TypeOK
<1>1. Init => TypeOK
  <2> SUFFICES ASSUME Init PROVE FieldType /\ ThreadType /\ SocketType
    BY TypeParts
  <2>1. MaxSock \in Nat /\ MaxCalls \in Nat /\ MaxQueue \in Nat
    BY TaskAssumption
  <2>2. FieldType
    <3>1. queue \in 0..MaxQueue
      BY <2>1 DEF Init
    <3> QED BY <3>1, Zenon DEF Init, FieldType, States
  <2>3. ThreadType
    BY <2>1 DEF Init, ThreadType, States
  <2>4. SocketType
    BY <2>1 DEF Init, SocketType
  <2> QED BY <2>2, <2>3, <2>4
<1> QED BY <1>1, TypeStep, PTL DEF Spec
-----------------------------------------------------------------------------
(* Connections: what isConnected and endTask say of the socket.            *)

\* Once connected, the socket made last is open and its server has granted
\* access, but for the time in which processConnecting makes another one, or
\* handles its failure, with isConnected still set; a thread that was told to
\* end has closed its socket, is not connected and does nothing more.
LinkInv ==
  /\ isConnected /\ net \notin {"auth", "errorConnecting"} =>
       socket # 0 /\ granted[socket] /\ open[socket]
  /\ net = "auth" => socket # 0 /\ open[socket]
  /\ endTask => /\ net \in {"ping", "loop", "dead"} /\ ~isConnected
                /\ socket # 0 => ~open[socket]
  /\ net = "dead" => endTask

\* A step in which the network thread goes on with the socket it has.
LEMMA LinkFrame ==
  ASSUME LinkInv, UNCHANGED <<socket, open, granted, isConnected, endTask>>,
         \/ UNCHANGED net
         \/ /\ net \notin {"auth", "errorConnecting", "dead"} /\ ~endTask
            /\ net' \notin {"auth", "dead"}
  PROVE  LinkInv'
BY DEF LinkInv

\* The calls of the main thread write none of it: what the two threads race
\* for is state and host.
LEMMA LinkMain ==
  ASSUME LinkInv,
         (\E h \in Server : Connect(h)) \/ ConnectEnds \/ Stop \/ Enqueue \/ Unbind
  PROVE  LinkInv'
BY LinkFrame
DEF Connect, ConnectEnds, Stop, Enqueue, Unbind, Call, sockVars

\* The steps that leave the socket, or write on it.
LEMMA LinkUse ==
  ASSUME TypeOK, LinkInv,
         \/ ProcessStarting \/ Started \/ ProcessStopping \/ Stopped
         \/ ProcessActive \/ ActiveTimeout \/ ActiveFails \/ PingFails
  PROVE  LinkInv'
<1>1. ~endTask
  BY DEF LinkInv, ProcessStarting, Started, ProcessStopping, Stopped,
     ProcessActive, ActiveTimeout, ActiveFails, PingFails
<1>2. UNCHANGED <<socket, open, granted, isConnected, endTask>>
  BY DEF TypeOK, ProcessStarting, Started, ProcessStopping, Stopped,
     ProcessActive, ActiveTimeout, ActiveFails, PingFails, Writes, WriteFails,
     Throws, fieldVars, sockVars
<1>3. /\ net \notin {"auth", "errorConnecting", "dead"}
      /\ net' \notin {"auth", "dead"}
  BY DEF ProcessStarting, Started, ProcessStopping, Stopped, ProcessActive,
     ActiveTimeout, ActiveFails, PingFails, WriteFails, Throws
<1> QED BY <1>1, <1>2, <1>3, LinkFrame

\* The steps from an iteration to the next, and the PING between them.
LEMMA LinkLoop ==
  ASSUME TypeOK, LinkInv, Switch \/ NoPing \/ Ping PROVE LinkInv'
<1>1. UNCHANGED <<socket, open, granted, isConnected, endTask>>
  BY DEF Switch, NoPing, Ping, Writes, fieldVars, sockVars
<1>2. \/ net = "ping" /\ net' = "loop"
      \/ net = "loop" /\ IF endTask THEN net' = "dead"
                         ELSE net' \in {"ping"} \cup (States \ {"IDLE"})
  BY DEF Switch, NoPing, Ping, TypeOK
<1> QED
  BY <1>1, <1>2 DEF LinkInv, States

\* The handshake: a new socket is not granted access until its server says so,
\* and while it is not the thread does not reach its PINGs connected.
LEMMA LinkHandshake ==
  ASSUME TypeOK, LinkInv,
         \/ ProcessConnecting \/ ConnectingFails \/ AccessGranted \/ AuthFailed
         \/ NoReply \/ Error
  PROVE  LinkInv'
<1>1. ~endTask
  BY DEF LinkInv, ProcessConnecting, ConnectingFails, AccessGranted,
     AuthFailed, NoReply, Error
<1>2. CASE ProcessConnecting
  <2>1. socket' \in Sock /\ open'[socket']
    BY <1>2, TaskAssumption DEF ProcessConnecting, Opens, TypeOK, Sock
  <2> QED
    BY <1>1, <1>2, <2>1 DEF ProcessConnecting, LinkInv, fieldVars, Sock
<1>3. CASE ConnectingFails \/ NoReply
  BY <1>1, <1>3
  DEF ConnectingFails, NoReply, ThrowsConnecting, LinkInv, sockVars
<1>4. CASE AccessGranted
  <2>1. socket \in Sock
    BY <1>4, TaskAssumption DEF AccessGranted, LinkInv, TypeOK, Sock
  <2> QED
    BY <1>1, <1>4, <2>1 DEF AccessGranted, LinkInv, TypeOK
<1>5. CASE AuthFailed \/ Error
  BY <1>1, <1>5 DEF AuthFailed, Error, LinkInv
<1> QED BY <1>2, <1>3, <1>4, <1>5

\* LinkInv is inductive, given the types.
LEMMA LinkStep == ASSUME TypeOK, LinkInv, [Next]_vars PROVE LinkInv'
<1>1. CASE ProcessDisconnecting
  <2>1. socket # 0 => socket \in Sock
    BY TaskAssumption DEF TypeOK, Sock
  <2>2. socket # 0 => ~open'[socket]
    BY <1>1, <2>1 DEF ProcessDisconnecting
  <2> QED
    BY <1>1, <2>2 DEF ProcessDisconnecting, LinkInv
<1>2. ASSUME NEW s \in Sock, ServerGone(s) PROVE LinkInv'
  BY <1>2, LinkFrame DEF ServerGone, fieldVars
<1>3. CASE UNCHANGED vars
  BY <1>3, LinkFrame DEF vars, fieldVars, sockVars
<1> QED
  BY <1>1, <1>2, <1>3, LinkMain, LinkUse, LinkLoop, LinkHandshake
  DEF Next, NetworkThread

\* LinkInv always holds.
THEOREM LinkCorrect == Spec => []LinkInv
<1>1. Init => LinkInv
  BY DEF Init, LinkInv
<1> QED BY <1>1, LinkStep, TypeCorrect, PTL DEF Spec

\* However the main thread's calls interleave with the network thread, a PING
\* is only due on an open socket whose server has granted access
\* (ConnectionTask.java:142, 257).
THEOREM PingCorrect == Spec => []PingGranted
<1>1. LinkInv => PingGranted
  BY DEF LinkInv, PingGranted
<1> QED BY <1>1, LinkCorrect, PTL

\* A network thread that ends leaves no socket that it made last open, however
\* it came to its end (ConnectionTask.java:195-202).
THEOREM EndCorrect == Spec => []ClosedAtEnd
<1>1. TypeOK /\ LinkInv => ClosedAtEnd
  BY TaskAssumption DEF TypeOK, LinkInv, ClosedAtEnd, Sock
<1> QED BY <1>1, LinkCorrect, TypeCorrect, PTL
=============================================================================
