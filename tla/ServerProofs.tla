---------------------------- MODULE ServerProofs ----------------------------
(***************************************************************************)
(* Proofs about Server, for any number of connections, descriptors, agents *)
(* and packets: the types, with what a connection that never sent a key can*)
(* hold; who owns which descriptor; under which agent a sample is stored;  *)
(* and that every copy of an agent's row is current at select.             *)
(***************************************************************************)
EXTENDS Server, TLAPS

-----------------------------------------------------------------------------
(* Facts about the operators of Server.                                    *)

\* The fields of a packet peers send have their types.
LEMMA PacketFields ==
  ASSUME NEW p \in Packets
  PROVE  /\ p.type \in PacketTypes /\ p.empty \in BOOLEAN
         /\ p.agent \in Agent \cup {NoAgent} /\ p.num \in Nat
         /\ p.flag \in BOOLEAN
         /\ p.type = "AGENTDATA" => p.num \in Time
BY ServerAssumption DEF Packet

\* Whatever interval START carries, the timer's is one a viewer may have
\* (client.cpp:272-275).
LEMMA ClampFeedType ==
  ASSUME NEW n \in Nat PROVE ClampFeed(n) \in 0..FeedMax
BY ServerAssumption DEF ClampFeed

\* A changed interval is a number the agents table can hold
\* (client.cpp:322-325).
LEMMA ClampAgentType ==
  ASSUME NEW n \in Nat PROVE ClampAgent(n) \in Nat
BY ServerAssumption DEF ClampAgent

\* A conjunct of TypeOK is kept by a step that changes none of its variables.
LEMMA LoopFrame ==
  ASSUME LoopType, UNCHANGED loopVars, UNCHANGED clients PROVE LoopType'
BY DEF LoopType, loopVars

LEMMA SocketFrame == ASSUME SocketType, UNCHANGED sockVars PROVE SocketType'
BY DEF SocketType, sockVars

LEMMA ReceiveFrame == ASSUME ReceiveType, UNCHANGED recvVars PROVE ReceiveType'
BY DEF ReceiveType, recvVars

LEMMA SessionFrame ==
  ASSUME SessionType, UNCHANGED sessVars, UNCHANGED settingsChanged
  PROVE  SessionType'
BY DEF SessionType, sessVars

LEMMA FeedFrame == ASSUME FeedType, UNCHANGED feedVars PROVE FeedType'
BY DEF FeedType, feedVars

LEMMA DataFrame ==
  ASSUME DataType, UNCHANGED oldVars, UNCHANGED table, UNCHANGED records
  PROVE  DataType'
BY DEF DataType, oldVars

LEMMA OutputFrame == ASSUME OutputType, UNCHANGED outVars PROVE OutputType'
BY DEF OutputType, outVars

\* kill() and close() keep the socket variables well typed.
LEMMA KillType ==
  ASSUME SocketType, NEW c \in Conn, Kill(c), UNCHANGED <<clients, fd>>
  PROVE  SocketType'
BY DEF SocketType, Kill, Close

\* The constructor of Client (client.cpp:49-65) gives every field a value of
\* its type.
LEMMA ConstructType ==
  ASSUME TypeOK, NEW c \in Conn, NEW f \in Fd \cup {NoFd},
         NEW age \in 0..OldFlush, Construct(c, f, age),
         UNCHANGED <<dataAge, received, table, records>>
  PROVE  ReceiveType' /\ SessionType' /\ FeedType' /\ DataType' /\ OutputType'
<1> USE ServerAssumption DEF TypeOK, Construct
<1>1. ReceiveType'
  BY DEF ReceiveType
<1>2. SessionType'
  BY DEF SessionType
<1>3. FeedType'
  BY DEF FeedType
<1>4. DataType'
  BY DEF DataType, ConstructOld
<1>5. OutputType'
  BY DEF OutputType, UnsetConfig
<1> QED BY <1>1, <1>2, <1>3, <1>4, <1>5

\* A packet that completes leaves the loop and the receive state well typed.
LEMMA CompletesType ==
  ASSUME TypeOK, NEW c \in Conn, NEW p \in Packets, Completes(c, p),
         UNCHANGED clients
  PROVE  LoopType' /\ ReceiveType'
<1> USE ServerAssumption DEF TypeOK, Completes
<1>1. LoopType'
  BY DEF LoopType
<1>2. ReceiveType'
  BY DEF ReceiveType
<1> QED BY <1>1, <1>2

-----------------------------------------------------------------------------
(* TypeOK, one lemma for each action.                                      *)

\* The loop starts well typed.
LEMMA TypeInit == ASSUME Init PROVE TypeOK
<1> USE ServerAssumption DEF Init
<1>1. left \in 0..MaxBatch
  OBVIOUS
<1>2. LoopType
  BY <1>1 DEF LoopType, Phases
<1>3. SocketType /\ ReceiveType
  BY DEF SocketType, ReceiveType
<1>4. SessionType /\ FeedType
  BY DEF SessionType, FeedType
<1>5. DataType
  BY DEF DataType
<1>6. OutputType
  BY DEF OutputType, UnsetConfig
<1> QED BY <1>2, <1>3, <1>4, <1>5, <1>6 DEF TypeOK

\* Time passes.
LEMMA TypeTick == ASSUME TypeOK, Tick PROVE TypeOK'
<1> USE DEF TypeOK, Tick
<1>1. ReceiveType'
  BY ServerAssumption DEF ReceiveType, Least
<1>2. FeedType'
  BY ServerAssumption DEF FeedType, Least
<1>3. DataType'
  BY ServerAssumption DEF DataType, Least
<1>4. LoopType' /\ SocketType' /\ SessionType' /\ OutputType'
  BY LoopFrame, SocketFrame, SessionFrame, OutputFrame DEF sockVars
<1> QED BY <1>1, <1>2, <1>3, <1>4

\* The steps that only move the loop from one pass to the next.
LEMMA TypeLoop ==
  ASSUME TypeOK,
         \/ Select \/ SelectInterrupted
         \/ BeginProcess \/ BeginFetch \/ BeginErase
  PROVE  TypeOK'
<1>1. LoopType'
  BY DEF TypeOK, Select, SelectInterrupted, BeginProcess, BeginFetch,
         BeginErase, LoopType, Phases, sockVars
<1> QED
  BY <1>1, SocketFrame, ReceiveFrame, SessionFrame, FeedFrame, DataFrame,
     OutputFrame
  DEF TypeOK, Select, SelectInterrupted, BeginProcess, BeginFetch, BeginErase

\* The end of an iteration, with or without the hourly clean-up.
LEMMA TypeEndIteration == ASSUME TypeOK, EndIteration PROVE TypeOK'
<1>1. LoopType'
  BY DEF TypeOK, EndIteration, LoopType, Phases, sockVars
<1>2. DataType'
  BY DEF TypeOK, EndIteration, DataType, oldVars
<1> QED
  BY <1>1, <1>2, SocketFrame, ReceiveFrame, SessionFrame, FeedFrame,
     OutputFrame DEF TypeOK, EndIteration

\* A connection is accepted.
LEMMA TypeAccept ==
  ASSUME TypeOK, NEW c \in Conn, Accept(c) PROVE TypeOK'
<1>1. PICK f \in FreeFds, age \in 0..OldFlush :
        owner' = [owner EXCEPT ![f] = c] /\ Construct(c, f, age)
  BY DEF Accept
<1>2. f \in Fd
  BY DEF FreeFds
<1>3. ReceiveType' /\ SessionType' /\ FeedType' /\ DataType' /\ OutputType'
  BY <1>1, <1>2, ConstructType DEF Accept
<1>4. LoopType'
  BY DEF TypeOK, Accept, LoopType, Phases
<1>5. SocketType'
  BY <1>1, <1>2 DEF TypeOK, Accept, Construct, SocketType
<1> QED BY <1>3, <1>4, <1>5 DEF TypeOK

\* A client object is destroyed.
LEMMA TypeErase ==
  ASSUME TypeOK, NEW c \in Conn, Erase(c) PROVE TypeOK'
<1>1. 0 \in 0..OldFlush
  BY ServerAssumption
<1>2. ReceiveType' /\ SessionType' /\ FeedType' /\ DataType' /\ OutputType'
  BY <1>1, ConstructType DEF Erase
<1>3. LoopType'
  BY DEF TypeOK, Erase, LoopType
<1>4. SocketType'
  BY DEF TypeOK, Erase, Construct, Close, SocketType
<1> QED BY <1>2, <1>3, <1>4 DEF TypeOK

\* The server leaves its loop, or has left it.
LEMMA TypeShutdown == ASSUME TypeOK, Shutdown \/ Exited PROVE TypeOK'
<1>1. CASE Shutdown
  <2>1. LoopType'
    BY <1>1 DEF TypeOK, Shutdown, LoopType, Phases
  <2>2. SocketType'
    BY <1>1 DEF TypeOK, Shutdown, SocketType
  <2> QED
    BY <1>1, <2>1, <2>2, ReceiveFrame, SessionFrame, FeedFrame, DataFrame,
       OutputFrame DEF TypeOK, Shutdown
<1>2. CASE Exited
  BY <1>2, LoopFrame, SocketFrame, ReceiveFrame, SessionFrame, FeedFrame,
     DataFrame, OutputFrame DEF TypeOK, Exited, vars, sockVars
<1> QED BY <1>1, <1>2

\* recv reports that the peer is gone.
LEMMA TypeReadClosed ==
  ASSUME TypeOK, NEW c \in Conn, ReadClosed(c) PROVE TypeOK'
<1>1. LoopType'
  BY DEF TypeOK, ReadClosed, LoopType
<1>2. SocketType'
  BY KillType DEF TypeOK, ReadClosed
<1> QED
  BY <1>1, <1>2, ReceiveFrame, SessionFrame, FeedFrame, DataFrame,
     OutputFrame DEF TypeOK, ReadClosed

\* recv delivers data, and the buffer is empty of complete packets again.
LEMMA TypeRead ==
  ASSUME TypeOK, NEW c \in Conn, ReadData(c) \/ ReadDone(c) PROVE TypeOK'
<1>1. CASE ReadData(c)
  <2>1. LoopType'
    BY <1>1, ServerAssumption DEF TypeOK, ReadData, LoopType, Phases, sockVars
  <2>2. ReceiveType'
    BY <1>1, ServerAssumption DEF TypeOK, ReadData, ReceiveType
  <2> QED
    BY <1>1, <2>1, <2>2, SocketFrame, SessionFrame, FeedFrame, DataFrame,
       OutputFrame DEF TypeOK, ReadData
<1>2. CASE ReadDone(c)
  <2>1. LoopType'
    BY <1>2, ServerAssumption DEF TypeOK, ReadDone, LoopType, Phases, sockVars
  <2>2. ReceiveType'
    <3>1. 0 \in 0..PacketTimeout
      BY ServerAssumption
    <3>2. \A p \in Sendable(c) : p.type \in PacketTypes
      BY PacketFields DEF Sendable
    <3> QED
      BY <1>2, <3>1, <3>2 DEF TypeOK, ReadDone, ReceiveType
  <2> QED
    BY <1>2, <2>1, <2>2, SocketFrame, SessionFrame, FeedFrame, DataFrame,
       OutputFrame DEF TypeOK, ReadDone
<1> QED BY <1>1, <1>2
\* A packet processPacket kills the connection for.
LEMMA TypeRejected ==
  ASSUME TypeOK, NEW c \in Conn, NEW p \in Packets, Rejected(c, p)
  PROVE  TypeOK'
<1>1. LoopType' /\ ReceiveType'
  BY CompletesType DEF Rejected
<1>2. SocketType'
  BY KillType DEF TypeOK, Rejected
<1> QED
  BY <1>1, <1>2, SessionFrame, FeedFrame, DataFrame, OutputFrame
  DEF TypeOK, Rejected

\* AUTH.
LEMMA TypeAuth ==
  ASSUME TypeOK, NEW c \in Conn, NEW p \in Packets, Auth(c, p) PROVE TypeOK'
<1>1. LoopType' /\ ReceiveType'
  BY CompletesType DEF Auth, sockVars
<1>2. \/ UNCHANGED sessVars
      \/ /\ Known(p.agent)
         /\ authorized' = [authorized EXCEPT ![c] = TRUE]
         /\ agent' = [agent EXCEPT ![c] = p.agent]
         /\ row' = [row EXCEPT ![c] = table[p.agent]]
  BY DEF Auth
<1>3. SessionType'
  BY <1>2 DEF TypeOK, Auth, SessionType, DataType, Known, sessVars
<1>4. OutputType'
  BY <1>3 DEF TypeOK, Auth, OutputType, SessionType
<1> QED
  BY <1>1, <1>3, <1>4, SocketFrame, FeedFrame, DataFrame DEF TypeOK, Auth

\* AGENTDATA.
LEMMA TypeAgentData ==
  ASSUME TypeOK, NEW c \in Conn, NEW p \in Packets, AgentData(c, p),
         agent[c] \in Agent
  PROVE  TypeOK'
<1>1. LoopType' /\ ReceiveType'
  BY CompletesType DEF AgentData, sockVars
<1>2. p.num \in Time
  BY PacketFields DEF AgentData
<1>3. DataType'
  <2>1. Append(oldData[c], p.num) \in Seq(Time)
    BY <1>2 DEF TypeOK, DataType
  <2>2. oldData' \in [Conn -> Seq(Time)]
    BY <2>1 DEF TypeOK, AgentData, DataType
  <2>3. records' \subseteq Agent \X Time /\ received' \subseteq Agent \X Time
    BY <1>2 DEF TypeOK, AgentData, DataType, Insert
  <2> QED
    BY <2>2, <2>3 DEF TypeOK, AgentData, DataType
<1>4. FeedType'
  <2>1. dataAge' = dataAge \/ dataAge' = [dataAge EXCEPT ![agent[c]] = 0]
    BY DEF AgentData
  <2>2. dataAge' \in [Agent -> 0..DataFresh]
    BY <2>1, ServerAssumption DEF TypeOK, FeedType
  <2> QED
    BY <2>2 DEF TypeOK, AgentData, FeedType
<1> QED
  BY <1>1, <1>3, <1>4, SocketFrame, SessionFrame, OutputFrame
  DEF TypeOK, AgentData

\* START and STOP.
LEMMA TypeStartStop ==
  ASSUME TypeOK, NEW c \in Conn, NEW p \in Packets, Start(c, p) \/ Stop(c, p)
  PROVE  TypeOK'
<1>1. LoopType' /\ ReceiveType'
  BY CompletesType DEF Start, Stop, sockVars
<1>2. ClampFeed(p.num) \in 0..FeedMax
  BY ClampFeedType, PacketFields
<1>3. FeedType'
  BY <1>2 DEF TypeOK, Start, Stop, FeedType
<1> QED
  BY <1>1, <1>3, SocketFrame, SessionFrame, DataFrame, OutputFrame
  DEF TypeOK, Start, Stop

\* The requests for a key, a configuration and statistics.
LEMMA TypeRequests ==
  ASSUME TypeOK, NEW c \in Conn, NEW p \in Packets,
         KeyRequest(c, p) \/ ConfigRequest(c, p) \/ StatsRequest(c, p)
  PROVE  TypeOK'
<1>1. LoopType' /\ ReceiveType'
  BY CompletesType DEF KeyRequest, ConfigRequest, StatsRequest, sockVars
<1>2. DataType'
  BY ServerAssumption DEF TypeOK, KeyRequest, ConfigRequest, StatsRequest,
     DataType, oldVars
<1>3. OutputType'
  BY DEF TypeOK, KeyRequest, ConfigRequest, StatsRequest, OutputType
<1> QED
  BY <1>1, <1>2, <1>3, SocketFrame, SessionFrame, FeedFrame
  DEF TypeOK, KeyRequest, ConfigRequest, StatsRequest

\* CONFIG_CHANGE_REQUEST, with or without a body.
LEMMA TypeConfigChange ==
  ASSUME TypeOK, NEW c \in Conn, NEW p \in Packets, ConfigChangeRequest(c, p)
  PROVE  TypeOK'
<1>1. LoopType' /\ ReceiveType'
  BY CompletesType DEF ConfigChangeRequest, sockVars
<1>2. \A n \in NumField(p) : ClampAgent(n) \in Nat
  BY ServerAssumption, PacketFields, ClampAgentType DEF NumField
<1>3. DataType'
  BY <1>2 DEF TypeOK, ConfigChangeRequest, DataType, oldVars, Known
<1>4. SessionType'
  BY DEF TypeOK, ConfigChangeRequest, SessionType, sessVars
<1>5. OutputType'
  BY DEF TypeOK, ConfigChangeRequest, OutputType
<1> QED
  BY <1>1, <1>3, <1>4, <1>5, SocketFrame, FeedFrame
  DEF TypeOK, ConfigChangeRequest

\* PING and unknown types.
LEMMA TypeIgnored ==
  ASSUME TypeOK, NEW c \in Conn, NEW p \in Packets, Ignored(c, p)
  PROVE  TypeOK'
<1>1. LoopType' /\ ReceiveType'
  BY CompletesType DEF Ignored, sockVars
<1> QED
  BY <1>1, SocketFrame, SessionFrame, FeedFrame, DataFrame, OutputFrame
  DEF TypeOK, Ignored

\* What every step of the process pass does to the loop and the flags.
LEMMA VisitType ==
  ASSUME TypeOK, NEW c \in Conn, Visit(c), UNCHANGED <<clients, sessVars>>
  PROVE  LoopType' /\ SessionType'
<1>1. LoopType'
  BY DEF TypeOK, Visit, LoopType, SessionType
<1>2. SessionType'
  BY DEF TypeOK, Visit, SessionType, sessVars
<1> QED BY <1>1, <1>2

\* The two ways the process pass drops a client.
LEMMA TypeProcessDrop ==
  ASSUME TypeOK, NEW c \in Conn, ProcessSendError(c) \/ ProcessTimeout(c)
  PROVE  TypeOK'
<1>1. LoopType' /\ SessionType'
  BY VisitType DEF ProcessSendError, ProcessTimeout
<1>2. SocketType'
  BY KillType DEF TypeOK, ProcessSendError, ProcessTimeout
<1>3. OutputType'
  BY OutputFrame
  DEF TypeOK, ProcessSendError, ProcessTimeout, AfterSend, OutputType
<1> QED
  BY <1>1, <1>2, <1>3, ReceiveFrame, FeedFrame, DataFrame
  DEF TypeOK, ProcessSendError, ProcessTimeout

\* What FlushOld leaves in the records table: nothing but rows of samples of
\* the agent, and what was there.
LEMMA FlushOldType ==
  ASSUME DataType, NEW c \in Conn, FlushOld(c), UNCHANGED <<received, table>>,
         agent[c] \in Agent \/ oldData[c] = <<>>
  PROVE  DataType'
<1>1. CASE ~(oldData[c] # <<>> /\ oldAge[c] >= OldFlush)
  BY <1>1 DEF DataType, FlushOld
<1>2. CASE oldData[c] # <<>> /\ oldAge[c] >= OldFlush
  <2> DEFINE rows == {<<agent[c], oldData[c][i]>> : i \in DOMAIN oldData[c]}
  <2>1. rows \subseteq Agent \X Time
    BY <1>2 DEF DataType
  <2>2. records' = records \cup rows \/ UNCHANGED records
    BY <1>2 DEF FlushOld, InsertAll
  <2>3. records' \subseteq Agent \X Time
    BY <2>1, <2>2 DEF DataType
  <2>4. 0 \in 0..OldFlush
    BY ServerAssumption
  <2>5. /\ oldData' = [oldData EXCEPT ![c] = <<>>]
        /\ oldAge' = [oldAge EXCEPT ![c] = 0]
    BY <1>2 DEF FlushOld
  <2>6. oldData' \in [Conn -> Seq(Time)] /\ oldAge' \in [Conn -> 0..OldFlush]
    BY <2>4, <2>5 DEF DataType
  <2> QED
    BY <2>3, <2>6 DEF DataType
<1> QED BY <1>1, <1>2

\* A client that is not dropped.
LEMMA TypeProcessAlive ==
  ASSUME TypeOK, NEW c \in Conn, ProcessAlive(c),
         agent[c] \in Agent \/ oldData[c] = <<>>
  PROVE  TypeOK'
<1>1. LoopType' /\ SessionType'
  BY VisitType DEF ProcessAlive, sockVars
<1>2. DataType'
  BY FlushOldType DEF TypeOK, ProcessAlive
<1>3. FeedType'
  <2>1. 0 \in 0..FeedMax + 1
    BY ServerAssumption
  <2>2. {a \in Agent : dataAge[a] < DataFresh} \subseteq Agent
    OBVIOUS
  <2>3. feedAge' \in [Conn -> 0..FeedMax + 1] /\ lastFeed' \in [Conn -> SUBSET Agent]
    BY <2>1, <2>2 DEF TypeOK, ProcessAlive, Feed, FeedType
  <2> QED
    BY <2>3 DEF TypeOK, ProcessAlive, FeedType
<1>4. OutputType'
  <2>1. \A b \in AfterSend(c) : (b \/ FeedDue(c)) \in BOOLEAN
    OBVIOUS
  <2> QED
    BY <2>1 DEF TypeOK, ProcessAlive, OutputType
<1> QED
  BY <1>1, <1>2, <1>3, <1>4, SocketFrame, ReceiveFrame DEF TypeOK, ProcessAlive

\* The settings broadcast.
LEMMA TypeFetchConfig ==
  ASSUME TypeOK, NEW c \in Conn, FetchConfig(c) PROVE TypeOK'
<1>1. LoopType'
  BY DEF TypeOK, FetchConfig, LoopType, sockVars
<1>2. \/ row' = row
      \/ Known(agent[c]) /\ row' = [row EXCEPT ![c] = table[agent[c]]]
  BY DEF FetchConfig
<1>3. SessionType'
  BY <1>2 DEF TypeOK, FetchConfig, SessionType, DataType, Known
<1>4. OutputType'
  BY <1>3 DEF TypeOK, FetchConfig, OutputType, SessionType
<1> QED
  BY <1>1, <1>3, <1>4, SocketFrame, ReceiveFrame, FeedFrame, DataFrame
  DEF TypeOK, FetchConfig
-----------------------------------------------------------------------------
(* Sessions: what a client object holds depends on whether a key was sent. *)

\* An authorised client names a row of the agents table, which is never
\* deleted; any other client has gathered nothing an agent or a viewer has.
\* TypeOK needs it: agent data only follows an authorisation.
SessionOK ==
  \A c \in Conn :
    /\ authorized[c] => agent[c] \in Agent /\ table[agent[c]] # NoRow
    /\ ~authorized[c] => /\ agent[c] = NoAgent /\ row[c] = NoRow
                         /\ oldData[c] = <<>> /\ ~sending[c]
                         /\ lastFeed[c] = {} /\ lastCfg[c] = UnsetConfig

SessInv == TypeOK /\ SessionOK

\* A step that changes nothing a session holds.
LEMMA SessionOKFrame ==
  ASSUME SessionOK,
         UNCHANGED <<sessVars, table, oldData, sending, lastFeed, lastCfg>>
  PROVE  SessionOK'
BY DEF SessionOK, sessVars

\* The object of a new connection, or of none, is that of a stranger.
LEMMA SessionOKConstruct ==
  ASSUME SessInv, NEW c \in Conn, NEW f, NEW age, Construct(c, f, age),
         UNCHANGED table
  PROVE  SessionOK'
BY DEF SessInv, TypeOK, SessionType, FeedType, DataType, OutputType,
       SessionOK, Construct, ConstructOld

\* A packet that is not rejected, and is not AUTH or ignored, comes from an
\* authorised client: the guards at the top of each case of processPacket.
LEMMA AcceptedAuthorized ==
  ASSUME NEW c, NEW p, ~MustKill(c, p), p.type \notin {"AUTH", "OTHER"}
  PROVE  authorized[c]
BY DEF MustKill

\* The packets.
LEMMA SessPacket ==
  ASSUME SessInv, NEW c \in Conn, NEW p \in Packets, ProcessPacket(c, p)
  PROVE  SessInv'
<1>1. CASE Rejected(c, p)
  BY <1>1, TypeRejected, SessionOKFrame
  DEF SessInv, Rejected, feedVars, oldVars, outVars
<1>2. CASE Auth(c, p)
  <2>1. TypeOK'
    BY <1>2, TypeAuth DEF SessInv
  <2>2. \/ UNCHANGED sessVars
        \/ /\ p.agent \in Agent /\ table[p.agent] # NoRow
           /\ authorized' = [authorized EXCEPT ![c] = TRUE]
           /\ agent' = [agent EXCEPT ![c] = p.agent]
           /\ row' = [row EXCEPT ![c] = table[p.agent]]
    BY <1>2 DEF Auth, Known
  <2>3. lastCfg' = lastCfg
          \/ (authorized'[c] /\ \E x : lastCfg' = [lastCfg EXCEPT ![c] = x])
    BY <1>2 DEF Auth
  <2>4. UNCHANGED <<table, oldData, sending, lastFeed>>
    BY <1>2 DEF Auth, oldVars, feedVars
  <2>5. SessionOK'
    <3> SUFFICES ASSUME NEW d \in Conn
                 PROVE  /\ authorized'[d] => agent'[d] \in Agent /\ table[agent'[d]] # NoRow
                        /\ ~authorized'[d] =>
                             /\ agent'[d] = NoAgent /\ row'[d] = NoRow
                             /\ oldData[d] = <<>> /\ ~sending[d]
                             /\ lastFeed[d] = {} /\ lastCfg'[d] = UnsetConfig
      BY <2>4 DEF SessionOK
    <3>1. d # c => lastCfg'[d] = lastCfg[d]
      BY <2>3 DEF SessInv, TypeOK, OutputType
    <3>2. ~authorized'[d] => UNCHANGED lastCfg[d]
      BY <2>3, <3>1 DEF SessInv, TypeOK, OutputType
    <3> QED
      BY <2>2, <3>2 DEF SessInv, TypeOK, SessionOK, SessionType, sessVars
  <2> QED BY <2>1, <2>5 DEF SessInv
<1>3. CASE AgentData(c, p)
  <2>1. authorized[c] /\ agent[c] \in Agent
    BY <1>3, AcceptedAuthorized DEF AgentData, SessInv, SessionOK
  <2>2. TypeOK'
    BY <1>3, <2>1, TypeAgentData DEF SessInv
  <2>3. \E x : oldData' = [oldData EXCEPT ![c] = x] \/ oldData' = oldData
    BY <1>3 DEF AgentData
  <2>4. UNCHANGED <<sessVars, table, sending, lastFeed, lastCfg>>
    BY <1>3 DEF AgentData, outVars
  <2>5. SessionOK'
    BY <2>1, <2>3, <2>4 DEF SessInv, TypeOK, DataType, SessionOK, sessVars
  <2> QED BY <2>2, <2>5 DEF SessInv
<1>4. CASE Start(c, p) \/ Stop(c, p)
  <2>1. authorized[c]
    BY <1>4, AcceptedAuthorized DEF Start, Stop
  <2>2. SessionOK'
    BY <1>4, <2>1 DEF Start, Stop, SessInv, TypeOK, FeedType, SessionOK,
       sessVars, oldVars, outVars
  <2> QED BY <1>4, <2>2, TypeStartStop DEF SessInv
<1>5. CASE KeyRequest(c, p) \/ ConfigRequest(c, p) \/ StatsRequest(c, p)
  <2>1. \A a \in Agent : table[a] # NoRow => table'[a] = table[a]
    BY <1>5 DEF KeyRequest, ConfigRequest, StatsRequest, Known, SessInv,
       TypeOK, DataType
  <2>2. SessionOK'
    BY <1>5, <2>1 DEF KeyRequest, ConfigRequest, StatsRequest, SessInv,
       SessionOK, sessVars, oldVars, feedVars
  <2> QED BY <1>5, <2>2, TypeRequests DEF SessInv
<1>6. CASE ConfigChangeRequest(c, p)
  <2>1. \A n \in NumField(p) : ClampAgent(n) # NoRow
    BY ServerAssumption, PacketFields, ClampAgentType DEF NumField, NoRow
  <2>2. \A a \in Agent : table[a] # NoRow => table'[a] # NoRow
    BY <1>6, <2>1 DEF ConfigChangeRequest, SessInv, TypeOK, DataType
  <2>3. SessionOK'
    BY <1>6, <2>2 DEF ConfigChangeRequest, SessInv, SessionOK, sessVars,
       oldVars, feedVars
  <2> QED BY <1>6, <2>3, TypeConfigChange DEF SessInv
<1>7. CASE Ignored(c, p)
  BY <1>7, TypeIgnored, SessionOKFrame
  DEF SessInv, Ignored, feedVars, oldVars, outVars
<1> QED
  BY <1>1, <1>2, <1>3, <1>4, <1>5, <1>6, <1>7 DEF ProcessPacket

\* The process pass and the settings broadcast.
LEMMA SessProcess ==
  ASSUME SessInv, NEW c \in Conn,
         \/ ProcessSendError(c) \/ ProcessTimeout(c)
         \/ ProcessAlive(c) \/ FetchConfig(c)
  PROVE  SessInv'
<1>1. CASE ProcessSendError(c) \/ ProcessTimeout(c)
  BY <1>1, TypeProcessDrop, SessionOKFrame
  DEF SessInv, ProcessSendError, ProcessTimeout, feedVars, oldVars, outVars
<1>2. CASE ProcessAlive(c)
  <2>1. agent[c] \in Agent \/ oldData[c] = <<>>
    BY DEF SessInv, SessionOK
  <2>2. TypeOK'
    BY <1>2, <2>1, TypeProcessAlive DEF SessInv
  <2>3. /\ oldData' \in {oldData, [oldData EXCEPT ![c] = <<>>]}
        /\ lastFeed' = lastFeed
             \/ (sending[c] /\ \E x : lastFeed' = [lastFeed EXCEPT ![c] = x])
    BY <1>2 DEF ProcessAlive, FlushOld, Feed, FeedDue
  <2>4. SessionOK'
    BY <1>2, <2>3 DEF ProcessAlive, SessInv, TypeOK, DataType, FeedType,
       SessionOK, sessVars
  <2> QED BY <2>2, <2>4 DEF SessInv
<1>3. CASE FetchConfig(c)
  <2>1. TypeOK'
    BY <1>3, TypeFetchConfig DEF SessInv
  <2>2. row' = row \/ (authorized[c] /\ \E x : row' = [row EXCEPT ![c] = x])
    BY <1>3, ServerAssumption DEF FetchConfig, Known, SessInv, SessionOK
  <2>3. ~authorized[c] => lastCfg' = [lastCfg EXCEPT ![c] = UnsetConfig]
    BY <1>3, <2>2 DEF FetchConfig, SessInv, SessionOK, UnsetConfig
  <2>4. \E x : lastCfg' = [lastCfg EXCEPT ![c] = x]
    BY <1>3 DEF FetchConfig
  <2>5. SessionOK'
    BY <1>3, <2>2, <2>3, <2>4 DEF FetchConfig, SessInv, TypeOK, SessionType,
       OutputType, SessionOK, feedVars, oldVars
  <2> QED BY <2>1, <2>5 DEF SessInv
<1> QED BY <1>1, <1>2, <1>3

\* SessInv is inductive.
LEMMA SessStep == ASSUME SessInv, [Next]_vars PROVE SessInv'
<1>1. CASE Tick
  BY <1>1, TypeTick, SessionOKFrame DEF SessInv, Tick, outVars
<1>2. CASE \/ Select \/ SelectInterrupted
           \/ BeginProcess \/ BeginFetch \/ BeginErase
  BY <1>2, TypeLoop, SessionOKFrame
  DEF SessInv, Select, SelectInterrupted, BeginProcess, BeginFetch,
      BeginErase, feedVars, oldVars, outVars
<1>3. CASE EndIteration
  BY <1>3, TypeEndIteration, SessionOKFrame
  DEF SessInv, EndIteration, feedVars, oldVars, outVars
<1>4. CASE Shutdown \/ Exited
  BY <1>4, TypeShutdown, SessionOKFrame
  DEF SessInv, Shutdown, Exited, vars, feedVars, oldVars, outVars
<1>5. ASSUME NEW c \in Conn, Accept(c) PROVE SessInv'
  BY <1>5, TypeAccept, SessionOKConstruct DEF SessInv, Accept
<1>6. ASSUME NEW c \in Conn, Erase(c) PROVE SessInv'
  BY <1>6, TypeErase, SessionOKConstruct DEF SessInv, Erase
<1>7. ASSUME NEW c \in Conn, ReadClosed(c) PROVE SessInv'
  BY <1>7, TypeReadClosed, SessionOKFrame
  DEF SessInv, ReadClosed, feedVars, oldVars, outVars
<1>8. ASSUME NEW c \in Conn, ReadData(c) \/ ReadDone(c) PROVE SessInv'
  BY <1>8, TypeRead, SessionOKFrame
  DEF SessInv, ReadData, ReadDone, feedVars, oldVars, outVars
<1>9. CASE UNCHANGED vars
  BY <1>9, SessionOKFrame, LoopFrame, SocketFrame, ReceiveFrame, SessionFrame,
     FeedFrame, DataFrame, OutputFrame
  DEF SessInv, TypeOK, vars, sockVars, feedVars, oldVars, outVars
<1> QED
  BY <1>1, <1>2, <1>3, <1>4, <1>5, <1>6, <1>7, <1>8, <1>9, SessPacket,
     SessProcess DEF Next, LoopStep

\* SessInv holds initially.
LEMMA SessInit == ASSUME Init PROVE SessInv
BY TypeInit DEF Init, SessInv, SessionOK

\* SessInv always holds.
THEOREM SessionCorrect == Spec => []SessInv
BY SessInit, SessStep, PTL DEF Spec

\* Every variable has its type, and a pass of the main loop only visits
\* clients that are still in the vector (main.cpp:225-256).
THEOREM TypeCorrect == Spec => []TypeOK
BY SessionCorrect, PTL DEF SessInv

\* A connection that never sent the key of an agent is never queued an
\* agent's configuration or data (main.cpp:243-247, client.cpp:168-175).
THEOREM StrangersCorrect == Spec => []StrangersSeeNothing
<1>1. SessInv => StrangersSeeNothing
  BY DEF SessInv, TypeOK, SocketType, SessionOK, StrangersSeeNothing
<1> QED BY <1>1, SessionCorrect, PTL
-----------------------------------------------------------------------------
(* Descriptors: who owns which, although a dead client's is closed twice.  *)

\* The clients of the vector have descriptors of their own, open exactly when
\* the client is not marked; marks are only there between the reads and the
\* end of the iteration, and the deletion pass has all of them to visit.
FdInv ==
  /\ pc # "failed"
  /\ \A c \in clients : fd[c] \in Fd
  /\ \A c, d \in clients : fd[c] = fd[d] => c = d
  /\ \A c \in clients : owner[fd[c]] = IF toDelete[c] THEN NoConn ELSE c
  /\ pc \in {"select", "accept"} => \A c \in clients : ~toDelete[c]
  /\ pc = "erase" => \A c \in clients : toDelete[c] => c \in todo

\* A step that leaves the sockets alone and does not move the loop.
LEMMA FdFrame ==
  ASSUME FdInv, UNCHANGED sockVars,
         pc' \notin {"select", "accept", "erase", "failed"}
  PROVE  FdInv'
BY DEF FdInv, sockVars

\* kill() of a client of the vector, outside select, accept and erase.
LEMMA FdKill ==
  ASSUME TypeOK, FdInv, NEW c \in clients, Kill(c), UNCHANGED <<clients, fd>>,
         pc' \notin {"select", "accept", "erase", "failed"}
  PROVE  FdInv'
<1>1. \A d \in clients : d # c => fd[d] # fd[c]
  BY DEF FdInv
<1>2. \A d \in clients : owner'[fd[d]] = IF d = c THEN NoConn ELSE owner[fd[d]]
  BY <1>1 DEF TypeOK, SocketType, FdInv, Kill, Close
<1>3. \A d \in clients : toDelete'[d] = (d = c \/ toDelete[d])
  BY DEF TypeOK, SocketType, Kill
<1> QED
  BY <1>2, <1>3 DEF FdInv

\* The steps of the loop that touch no socket.
LEMMA FdLoop ==
  ASSUME TypeOK, FdInv,
         \/ SelectInterrupted \/ BeginProcess \/ BeginFetch \/ BeginErase
         \/ EndIteration \/ Tick
  PROVE  FdInv'
<1>1. CASE SelectInterrupted \/ BeginProcess \/ BeginFetch
  BY <1>1, FdFrame DEF SelectInterrupted, BeginProcess, BeginFetch
<1>2. CASE BeginErase
  BY <1>2 DEF BeginErase, FdInv, sockVars
<1>3. CASE EndIteration
  BY <1>3 DEF EndIteration, FdInv, sockVars
<1>4. CASE Tick
  BY <1>4 DEF Tick, FdInv, loopVars, sockVars
<1> QED BY <1>1, <1>2, <1>3, <1>4

\* select never sees a closed descriptor.
LEMMA FdSelect == ASSUME TypeOK, FdInv, Select PROVE FdInv'
<1>1. \A c \in clients : owner[fd[c]] # NoConn
  BY ServerAssumption DEF TypeOK, SocketType, FdInv, Select
<1>2. pc' \in {"read", "accept"}
  BY <1>1 DEF Select
<1> QED
  BY <1>2 DEF Select, FdInv, sockVars

\* The number accept is given is nobody's: at that point of the loop no client
\* is marked, so every descriptor a client names is open.
LEMMA FdAccept ==
  ASSUME TypeOK, FdInv, NEW c \in Conn, Accept(c) PROVE FdInv'
<1>1. PICK f \in FreeFds, age \in 0..OldFlush :
        owner' = [owner EXCEPT ![f] = c] /\ Construct(c, f, age)
  BY DEF Accept
<1>2. f \in Fd /\ owner[f] = NoConn /\ c \notin clients /\ pc' = "read"
  BY DEF FreeFds, Accept
<1>3. \A d \in clients : /\ fd[d] \in Fd /\ owner[fd[d]] = d /\ fd[d] # f
                         /\ ~toDelete[d]
  BY <1>2, ServerAssumption DEF FdInv, Accept, TypeOK, SocketType
<1>4. /\ fd' = [fd EXCEPT ![c] = f] /\ toDelete' = [toDelete EXCEPT ![c] = FALSE]
      /\ clients' = clients \cup {c}
  BY <1>1 DEF Construct, Accept
<1>5. /\ fd'[c] = f /\ owner'[f] = c /\ ~toDelete'[c]
      /\ \A d \in clients : /\ fd'[d] = fd[d] /\ owner'[fd[d]] = owner[fd[d]]
                            /\ toDelete'[d] = toDelete[d]
  BY <1>1, <1>2, <1>3, <1>4 DEF TypeOK, SocketType
<1>6. \A d \in clients' : /\ fd'[d] \in Fd /\ owner'[fd'[d]] = d
                          /\ ~toDelete'[d]
  <2> TAKE d \in clients'
  <2>1. CASE d = c
    BY <2>1, <1>2, <1>5
  <2>2. CASE d \in clients
    BY <2>2, <1>3, <1>5
  <2> QED BY <2>1, <2>2, <1>4
<1>7. \A d, e \in clients' : fd'[d] = fd'[e] => d = e
  BY <1>6
<1> QED
  BY <1>2, <1>6, <1>7 DEF FdInv

\* The second close of a dead client's descriptor hits nobody else's.
LEMMA FdErase ==
  ASSUME TypeOK, FdInv, NEW c \in Conn, Erase(c) PROVE FdInv'
<1>1. c \in clients /\ clients' = clients \ {c} /\ todo' = todo \ {c}
      /\ pc = "erase" /\ pc' = "erase"
  BY DEF TypeOK, LoopType, Erase
<1>2. /\ owner' = [owner EXCEPT ![fd[c]] = NoConn]
      /\ fd' = [fd EXCEPT ![c] = NoFd]
      /\ toDelete' = [toDelete EXCEPT ![c] = FALSE]
  BY DEF Erase, Close, Construct
<1>3. \A d \in clients' : /\ fd'[d] = fd[d] /\ owner'[fd[d]] = owner[fd[d]]
                          /\ toDelete'[d] = toDelete[d]
  BY <1>1, <1>2 DEF TypeOK, SocketType, FdInv
<1> QED
  BY <1>1, <1>3 DEF FdInv

\* The packets: a rejected one kills the client, the others leave the sockets.
LEMMA FdPacket ==
  ASSUME TypeOK, FdInv, NEW c \in Conn, NEW p \in Packets, ProcessPacket(c, p)
  PROVE  FdInv'
<1>1. Completes(c, p)
  BY DEF ProcessPacket, Rejected, Auth, AgentData, Start, Stop, KeyRequest,
     ConfigRequest, ConfigChangeRequest, StatsRequest, Ignored
<1>2. c \in clients /\ pc' = "parse"
  BY <1>1 DEF Completes, TypeOK, LoopType
<1>3. CASE Rejected(c, p)
  BY <1>2, <1>3, FdKill DEF Rejected
<1>4. CASE ~Rejected(c, p)
  <2>1. UNCHANGED sockVars
    BY <1>4 DEF ProcessPacket, Auth, AgentData, Start, Stop, KeyRequest,
       ConfigRequest, ConfigChangeRequest, StatsRequest, Ignored
  <2> QED BY <1>2, <2>1, FdFrame
<1> QED BY <1>3, <1>4

\* FdInv is inductive, given the types.
LEMMA FdStep == ASSUME TypeOK, FdInv, [Next]_vars PROVE FdInv'
<1>1. CASE \/ SelectInterrupted \/ BeginProcess \/ BeginFetch \/ BeginErase
           \/ EndIteration \/ Tick
  BY <1>1, FdLoop
<1>2. CASE Shutdown
  BY <1>2 DEF Shutdown, FdInv
<1>3. CASE UNCHANGED vars
  BY <1>3 DEF vars, loopVars, sockVars, FdInv
<1>4. ASSUME NEW c \in Conn, ReadClosed(c) PROVE FdInv'
  <2>1. c \in clients /\ pc' = "read"
    BY <1>4 DEF ReadClosed, TypeOK, LoopType
  <2> QED BY <1>4, <2>1, FdKill DEF ReadClosed
<1>5. ASSUME NEW c \in Conn, ReadData(c) \/ ReadDone(c) PROVE FdInv'
  BY <1>5, FdFrame DEF ReadData, ReadDone
<1>6. ASSUME NEW c \in Conn, ProcessSendError(c) \/ ProcessTimeout(c)
      PROVE  FdInv'
  <2>1. c \in clients /\ pc' = "process"
    BY <1>6 DEF ProcessSendError, ProcessTimeout, Visit, TypeOK, LoopType
  <2> QED BY <1>6, <2>1, FdKill DEF ProcessSendError, ProcessTimeout
<1>7. ASSUME NEW c \in Conn, ProcessAlive(c) PROVE FdInv'
  BY <1>7, FdFrame DEF ProcessAlive, Visit
<1>8. ASSUME NEW c \in Conn, FetchConfig(c) PROVE FdInv'
  BY <1>8, FdFrame DEF FetchConfig
<1> QED
  BY <1>1, <1>2, <1>3, <1>4, <1>5, <1>6, <1>7, <1>8, FdSelect, FdAccept,
     FdErase, FdPacket DEF Next, LoopStep, Exited

\* FdInv always holds.
THEOREM FdCorrect == Spec => []FdInv
<1>1. Init => FdInv
  BY DEF Init, FdInv
<1> QED BY <1>1, FdStep, TypeCorrect, PTL DEF Spec

\* A client that is not marked for deletion has its socket open: the second
\* close of a dead client's descriptor (main.cpp:252) never hits a number that
\* accept has meanwhile given to another client.
THEOREM DescriptorsCorrect == Spec => []DescriptorsOwned
<1>1. FdInv => DescriptorsOwned
  BY DEF FdInv, DescriptorsOwned
<1> QED BY <1>1, FdCorrect, PTL

\* The server never leaves its loop because select failed on the descriptor of
\* a client it had closed (main.cpp:195-202).
THEOREM LoopCorrect == Spec => []LoopNeverFails
<1>1. FdInv => LoopNeverFails
  BY DEF FdInv, LoopNeverFails
<1> QED BY <1>1, FdCorrect, PTL
-----------------------------------------------------------------------------
(* Records: under which agent an old sample is stored.                     *)

\* Every old sample a client object holds came in under the agent that the
\* object still has; it is what FlushOld inserts them under.
AttrInv ==
  /\ records \subseteq received
  /\ \A c \in Conn : \A i \in DOMAIN oldData[c] :
       <<agent[c], oldData[c][i]>> \in received

\* A step that adds no sample and changes no agent.
LEMMA AttrFrame ==
  ASSUME AttrInv, records' \subseteq records, UNCHANGED <<oldVars, agent>>
  PROVE  AttrInv'
BY DEF AttrInv, oldVars

\* The object of a new connection, or of none, holds no samples.
LEMMA AttrConstruct ==
  ASSUME TypeOK, AttrInv, NEW c \in Conn, NEW f, NEW age, Construct(c, f, age),
         UNCHANGED <<records, received>>
  PROVE  AttrInv'
BY DEF TypeOK, SessionType, DataType, AttrInv, Construct, ConstructOld

\* A connection that has sent a key sends no other agent's, and one that has
\* not holds no samples (client.cpp:210-235).
LEMMA AttrAuth ==
  ASSUME ~Rekey, SessInv, AttrInv, NEW c \in Conn, NEW p \in Packets, Auth(c, p)
  PROVE  AttrInv'
<1>1. agent' = agent \/ (agent' = [agent EXCEPT ![c] = p.agent] /\ Known(p.agent))
  BY DEF Auth, sessVars
<1>2. authorized[c] => p.agent \in {agent[c], NoAgent}
  BY DEF Auth, Completes, Sendable
<1>3. \A d \in Conn : agent'[d] = agent[d] \/ oldData[d] = <<>>
  BY <1>1, <1>2, ServerAssumption
  DEF SessInv, SessionOK, TypeOK, SessionType, Known
<1> QED
  BY <1>3 DEF Auth, AttrInv, oldVars

\* A sample that arrives is recorded as received under the agent of now
\* (client.cpp:237-262).
LEMMA AttrAgentData ==
  ASSUME SessInv, AttrInv, NEW c \in Conn, NEW p \in Packets, AgentData(c, p)
  PROVE  AttrInv'
<1>1. /\ UNCHANGED agent /\ received \subseteq received'
      /\ oldData' = oldData \/ /\ oldData' = [oldData EXCEPT ![c] = Append(@, p.num)]
                               /\ <<agent[c], p.num>> \in received'
  BY DEF AgentData, sessVars
<1>2. records' \subseteq received'
  BY DEF AgentData, Insert, AttrInv
<1>3. CASE oldData' = oldData
  BY <1>1, <1>2, <1>3 DEF AttrInv
<1>4. CASE /\ oldData' = [oldData EXCEPT ![c] = Append(@, p.num)]
           /\ <<agent[c], p.num>> \in received'
  <2>1. oldData[c] \in Seq(Time) /\ p.num \in Time
    BY PacketFields DEF SessInv, TypeOK, DataType, AgentData
  <2>2. \A i \in DOMAIN Append(oldData[c], p.num) :
          \/ i \in DOMAIN oldData[c] /\ Append(oldData[c], p.num)[i] = oldData[c][i]
          \/ Append(oldData[c], p.num)[i] = p.num
    BY <2>1
  <2>3. \A d \in Conn : oldData'[d] = IF d = c THEN Append(oldData[c], p.num)
                                      ELSE oldData[d]
    BY <1>4 DEF SessInv, TypeOK, DataType
  <2> QED
    BY <1>1, <1>2, <1>4, <2>2, <2>3 DEF AttrInv
<1> QED BY <1>1, <1>3, <1>4

\* FlushOld inserts what the object holds, or nothing (client.cpp:177-184).
LEMMA AttrAlive ==
  ASSUME TypeOK, AttrInv, NEW c \in Conn, ProcessAlive(c) PROVE AttrInv'
<1>1. UNCHANGED <<agent, received>>
  BY DEF ProcessAlive, sessVars
<1>2. \A d \in Conn : oldData'[d] \in {oldData[d], <<>>}
  BY DEF ProcessAlive, FlushOld, TypeOK, DataType
<1>3. records' \subseteq
        records \cup {<<agent[c], oldData[c][i]>> : i \in DOMAIN oldData[c]}
  BY DEF ProcessAlive, FlushOld, InsertAll
<1> QED
  BY <1>1, <1>2, <1>3 DEF AttrInv

\* AttrInv is inductive, given SessInv.
LEMMA AttrStep == ASSUME ~Rekey, SessInv, AttrInv, [Next]_vars PROVE AttrInv'
<1> USE DEF SessInv
<1>1. ASSUME NEW c \in Conn, NEW p \in Packets, ProcessPacket(c, p)
      PROVE  AttrInv'
  <2>1. CASE ~Auth(c, p) /\ ~AgentData(c, p)
    BY <1>1, <2>1, AttrFrame
    DEF ProcessPacket, Rejected, Start, Stop, KeyRequest, ConfigRequest,
        ConfigChangeRequest, StatsRequest, Ignored, sessVars
  <2> QED BY <1>1, <2>1, AttrAuth, AttrAgentData
<1>2. ASSUME NEW c \in Conn, Accept(c) \/ Erase(c) PROVE AttrInv'
  BY <1>2, AttrConstruct DEF Accept, Erase
<1>3. ASSUME NEW c \in Conn,
             \/ ReadClosed(c) \/ ReadData(c) \/ ReadDone(c) \/ FetchConfig(c)
             \/ ProcessSendError(c) \/ ProcessTimeout(c)
      PROVE  AttrInv'
  BY <1>3, AttrFrame
  DEF ReadClosed, ReadData, ReadDone, FetchConfig, ProcessSendError,
      ProcessTimeout, sessVars
<1>4. CASE \/ Select \/ SelectInterrupted \/ BeginProcess \/ BeginFetch
           \/ BeginErase \/ EndIteration \/ Shutdown
  BY <1>4, AttrFrame
  DEF Select, SelectInterrupted, BeginProcess, BeginFetch, BeginErase,
      EndIteration, Shutdown, sessVars
<1>5. CASE Tick \/ UNCHANGED vars
  BY <1>5 DEF Tick, vars, AttrInv, oldVars, sessVars
<1> QED
  BY <1>1, <1>2, <1>3, <1>4, <1>5, AttrAlive DEF Next, LoopStep, Exited

\* If no connection sends the keys of two agents, a row of the records table
\* names the agent that sent the sample, though an old sample is inserted
\* seconds after it arrived, and under the agent its object names then
\* (client.cpp:177-184).
THEOREM RecordsCorrect == ASSUME ~Rekey PROVE Spec => []RecordsAttributed
<1>1. Init => AttrInv
  BY DEF Init, AttrInv
<1>2. AttrInv => RecordsAttributed
  BY DEF AttrInv, RecordsAttributed
<1>3. SessInv /\ AttrInv /\ [Next]_vars => AttrInv'
  BY AttrStep
<1> QED BY <1>1, <1>2, <1>3, SessionCorrect, PTL DEF Spec
-----------------------------------------------------------------------------
(* Configurations: cached rows and queued CONFIGs follow the table.        *)

\* What the object of c says of its agent's configuration is in the table.
Coherent(c) ==
  /\ authorized[c] => row[c] = table[agent[c]]
  /\ lastCfg[c].agent # NoAgent
       => lastCfg[c].interval = table[lastCfg[c].agent]

\* Unless the broadcast is due, all objects are coherent: a change is only
\* made while clients are read, and marks its client; the process pass, which
\* visits every client, collects the marks; the fetch pass, if there is one,
\* makes the clients it has visited coherent.
CohInv ==
  /\ \A c \in clients : lastCfg[c].agent # NoAgent
                          => lastCfg[c].agent \in Agent
                             /\ table[lastCfg[c].agent] # NoRow
  /\ pc \in {"select", "accept", "fetch", "erase"} =>
       \A c \in clients : ~settingsChanged[c]
  /\ pc = "process" => \A c \in clients : settingsChanged[c] => c \in todo
  /\ pc \in {"select", "accept", "erase"} => \A c \in clients : Coherent(c)
  /\ pc \in {"read", "parse"} =>
       \/ \A c \in clients : Coherent(c)
       \/ \E d \in clients : settingsChanged[d]
  /\ pc = "process" =>
       \/ \A c \in clients : Coherent(c)
       \/ needReload \/ \E d \in clients : settingsChanged[d]
  /\ pc = "fetch" => \A c \in clients \ todo : Coherent(c)

\* What CohInv is about, apart from the place of the loop.
cohVars == <<clients, authorized, agent, row, table, lastCfg, settingsChanged>>

\* A step that changes nothing of it, to or inside the reads or out of the loop.
LEMMA CohFrame ==
  ASSUME CohInv, UNCHANGED cohVars,
         \/ pc = "select" /\ pc' \in {"accept", "read"}
         \/ pc \in {"read", "parse"} /\ pc' \in {"read", "parse"}
         \/ pc' = "failed"
  PROVE  CohInv'
BY DEF CohInv, cohVars, Coherent

\* The steps that move the loop from one pass to the next.
LEMMA CohLoop ==
  ASSUME TypeOK, CohInv,
         \/ Select \/ SelectInterrupted \/ BeginProcess \/ BeginFetch
         \/ BeginErase \/ EndIteration \/ Shutdown \/ Tick
  PROVE  CohInv'
<1>1. CASE Select
  BY <1>1, CohFrame DEF Select, cohVars, sockVars, sessVars, outVars
<1>2. CASE SelectInterrupted \/ BeginProcess
  BY <1>2 DEF SelectInterrupted, BeginProcess, CohInv, Coherent, sockVars,
     sessVars, outVars
<1>3. CASE BeginFetch
  BY <1>3 DEF BeginFetch, CohInv, Coherent, sockVars, sessVars, outVars
<1>4. CASE BeginErase \/ EndIteration
  BY <1>4 DEF BeginErase, EndIteration, CohInv, Coherent, sockVars, sessVars,
     outVars
<1>5. CASE Shutdown
  BY <1>5 DEF Shutdown, CohInv
<1>6. CASE Tick
  BY <1>6 DEF Tick, CohInv, Coherent, loopVars, sockVars, sessVars, outVars
<1> QED BY <1>1, <1>2, <1>3, <1>4, <1>5, <1>6

\* A new connection has nothing that could disagree, and one that is gone has
\* nothing at all.
LEMMA CohConstruct ==
  ASSUME SessInv, CohInv, NEW c \in Conn, Accept(c) \/ Erase(c) PROVE CohInv'
<1>1. PICK f, age : Construct(c, f, age)
  BY DEF Accept, Erase
<1>2. /\ ~authorized'[c] /\ ~settingsChanged'[c]
      /\ lastCfg'[c].agent = NoAgent
      /\ \A d \in Conn \ {c} :
           /\ authorized'[d] = authorized[d] /\ agent'[d] = agent[d]
           /\ row'[d] = row[d] /\ lastCfg'[d] = lastCfg[d]
           /\ settingsChanged'[d] = settingsChanged[d]
  BY <1>1 DEF Construct, SessInv, TypeOK, SessionType, OutputType, UnsetConfig
<1>3. \A d \in Conn \ {c} : Coherent(d) => Coherent(d)'
  BY <1>2 DEF Coherent, Accept, Erase
<1>4. Coherent(c)'
  BY <1>2 DEF Coherent
<1>5. CASE Accept(c)
  <2>1. clients' = clients \cup {c} /\ pc = "accept" /\ pc' = "read"
        /\ UNCHANGED table
    BY <1>5 DEF Accept
  <2>2. \A d \in clients' : Coherent(d)'
    BY <2>1, <1>3, <1>4 DEF CohInv, SessInv, TypeOK, SocketType
  <2> QED
    BY <2>1, <2>2, <1>2 DEF CohInv, SessInv, TypeOK, SocketType
<1>6. CASE Erase(c)
  <2>1. clients' = clients \ {c} /\ pc = "erase" /\ pc' = "erase"
        /\ UNCHANGED table
    BY <1>6 DEF Erase
  <2> QED
    BY <2>1, <1>2, <1>3 DEF CohInv, SessInv, TypeOK, SocketType
<1> QED BY <1>5, <1>6

\* AUTH: a client that is found caches, and is sent, what the table has; one
\* that is not keeps what it has (client.cpp:210-235).
LEMMA CohAuth ==
  ASSUME SessInv, CohInv, NEW c \in Conn, NEW p \in Packets, Auth(c, p)
  PROVE  CohInv'
<1>1. /\ pc = "parse" /\ pc' = "parse" /\ c \in clients
      /\ UNCHANGED <<clients, table, settingsChanged>>
  BY DEF Auth, Completes, SessInv, TypeOK, LoopType, sockVars
<1>2. \A d \in Conn \ {c} :
        /\ authorized'[d] = authorized[d] /\ agent'[d] = agent[d]
        /\ row'[d] = row[d] /\ lastCfg'[d] = lastCfg[d]
  BY DEF Auth, SessInv, TypeOK, SessionType, OutputType, sessVars
<1>3. \/ UNCHANGED sessVars
      \/ /\ p.agent \in Agent /\ table[p.agent] # NoRow
         /\ authorized'[c] /\ agent'[c] = p.agent /\ row'[c] = table[p.agent]
  BY DEF Auth, Known, SessInv, TypeOK, SessionType
<1>4. \/ lastCfg'[c] = lastCfg[c]
      \/ authorized'[c] /\ lastCfg'[c] = [agent |-> agent'[c], interval |-> row'[c]]
  BY DEF Auth, SessInv, TypeOK, OutputType
<1>5. authorized'[c] => agent'[c] \in Agent /\ table[agent'[c]] # NoRow
  BY <1>3 DEF SessInv, SessionOK, sessVars
<1>6. \A d \in clients : Coherent(d) => Coherent(d)'
  <2>1. Coherent(c) => Coherent(c)'
    BY <1>1, <1>3, <1>4 DEF Coherent, sessVars
  <2> QED
    BY <2>1, <1>1, <1>2 DEF Coherent, SessInv, TypeOK, SocketType
<1>7. \A d \in clients : lastCfg'[d].agent # NoAgent
                           => lastCfg'[d].agent \in Agent
                              /\ table[lastCfg'[d].agent] # NoRow
  BY <1>2, <1>4, <1>5 DEF CohInv, SessInv, TypeOK, SocketType
<1> QED
  BY <1>1, <1>6, <1>7 DEF CohInv

\* A change of the table marks the client it was made through, before
\* anything is coherent or not (client.cpp:314-334).
LEMMA CohConfigChange ==
  ASSUME SessInv, CohInv, NEW c \in Conn, NEW p \in Packets,
         ConfigChangeRequest(c, p)
  PROVE  CohInv'
<1>1. /\ pc = "parse" /\ pc' = "parse" /\ c \in clients
      /\ UNCHANGED <<clients, lastCfg>>
  BY DEF ConfigChangeRequest, Completes, SessInv, TypeOK, LoopType, sockVars
<1>2. settingsChanged'[c]
  BY DEF ConfigChangeRequest, SessInv, TypeOK, SessionType
<1>3. \A n \in NumField(p) : ClampAgent(n) # NoRow
  <2>1. NumField(p) \subseteq Nat
    BY ServerAssumption, PacketFields DEF NumField
  <2> QED
    BY <2>1, ClampAgentType DEF NoRow
<1>4. \A a \in Agent : table[a] # NoRow => table'[a] # NoRow
  BY <1>3 DEF ConfigChangeRequest, SessInv, TypeOK, DataType
<1> QED
  BY <1>1, <1>2, <1>4 DEF CohInv

\* KEY_REQUEST gives a row to an agent that has none, so nobody caches it.
LEMMA CohKeyRequest ==
  ASSUME SessInv, CohInv, NEW c \in Conn, NEW p \in Packets, KeyRequest(c, p)
  PROVE  CohInv'
<1>1. /\ pc = "parse" /\ pc' = "parse"
      /\ UNCHANGED <<clients, sessVars, lastCfg, settingsChanged>>
  BY DEF KeyRequest, Completes, sockVars
<1>2. \A a \in Agent : table[a] # NoRow => table'[a] = table[a]
  BY DEF KeyRequest, Known, SessInv, TypeOK, DataType
<1>3. \A d \in clients : Coherent(d) => Coherent(d)'
  BY <1>1, <1>2
  DEF Coherent, CohInv, SessInv, SessionOK, TypeOK, SocketType, sessVars
<1> QED
  BY <1>1, <1>2, <1>3 DEF CohInv

\* The other packets.
LEMMA CohPacket ==
  ASSUME SessInv, CohInv, NEW c \in Conn, NEW p \in Packets, ProcessPacket(c, p)
  PROVE  CohInv'
<1>1. CASE \/ Rejected(c, p) \/ AgentData(c, p) \/ Start(c, p) \/ Stop(c, p)
           \/ ConfigRequest(c, p) \/ StatsRequest(c, p) \/ Ignored(c, p)
  BY <1>1, CohFrame
  DEF Rejected, AgentData, Start, Stop, ConfigRequest, StatsRequest, Ignored,
      Completes, cohVars, sockVars, sessVars, outVars
<1> QED
  BY <1>1, CohAuth, CohConfigChange, CohKeyRequest DEF ProcessPacket

\* A visit of the process pass turns a mark into needReload.
LEMMA CohVisit ==
  ASSUME TypeOK, CohInv, NEW c \in Conn, Visit(c),
         UNCHANGED <<clients, sessVars, table, lastCfg>>
  PROVE  CohInv'
<1>1. /\ pc = "process" /\ pc' = "process" /\ c \in todo /\ todo' = todo \ {c}
      /\ needReload' = (needReload \/ settingsChanged[c])
      /\ ~settingsChanged'[c]
      /\ \A d \in Conn \ {c} : settingsChanged'[d] = settingsChanged[d]
  BY DEF Visit, TypeOK, SessionType
<1>2. \A d \in clients : Coherent(d) => Coherent(d)'
  BY DEF Coherent, sessVars
<1>3. /\ \A d \in clients : settingsChanged'[d] => d \in todo'
      /\ (\E d \in clients : settingsChanged[d]) =>
            needReload' \/ \E d \in clients : settingsChanged'[d]
      /\ needReload => needReload'
  BY <1>1 DEF CohInv, TypeOK, SocketType, LoopType
<1> QED
  BY <1>1, <1>2, <1>3 DEF CohInv

\* The broadcast makes a client coherent, if the SELECT does not fail: who has
\* an agent has a row, and who has none is sent none (main.cpp:243-247).
LEMMA CohFetchConfig ==
  ASSUME ~ReadsFail, SessInv, CohInv, NEW c \in Conn, FetchConfig(c)
  PROVE  CohInv'
<1>1. /\ pc = "fetch" /\ pc' = "fetch" /\ c \in todo /\ todo' = todo \ {c}
      /\ UNCHANGED <<clients, table, authorized, agent, settingsChanged>>
  BY DEF FetchConfig, sockVars
<1>2. /\ row' = IF Known(agent[c]) THEN [row EXCEPT ![c] = table[agent[c]]]
                ELSE row
      /\ lastCfg' = [lastCfg EXCEPT ![c] = [agent |-> agent[c],
                                            interval |-> row'[c]]]
  BY DEF FetchConfig
<1>3. \A d \in Conn \ {c} : row'[d] = row[d] /\ lastCfg'[d] = lastCfg[d]
  BY <1>2 DEF SessInv, TypeOK, SessionType, OutputType
<1>4. /\ lastCfg'[c] = [agent |-> agent[c], interval |-> row'[c]]
      /\ Known(agent[c]) => row'[c] = table[agent[c]]
  BY <1>2 DEF SessInv, TypeOK, SessionType, OutputType
<1>5. IF authorized[c] THEN agent[c] \in Agent /\ table[agent[c]] # NoRow
      ELSE agent[c] = NoAgent
  BY DEF SessInv, SessionOK
<1>6. Coherent(c)'
  BY <1>1, <1>4, <1>5 DEF Coherent, Known
<1>7. \A d \in clients \ {c} : Coherent(d) => Coherent(d)'
  BY <1>1, <1>3 DEF Coherent, SessInv, TypeOK, SocketType
<1>8. \A d \in clients : lastCfg'[d].agent # NoAgent
                           => lastCfg'[d].agent \in Agent
                              /\ table[lastCfg'[d].agent] # NoRow
  BY <1>3, <1>4, <1>5 DEF CohInv, SessInv, TypeOK, SocketType
<1> QED
  BY <1>1, <1>6, <1>7, <1>8 DEF CohInv

\* CohInv is inductive, given SessInv.
LEMMA CohStep == ASSUME ~ReadsFail, SessInv, CohInv, [Next]_vars PROVE CohInv'
<1>1. CASE UNCHANGED vars
  BY <1>1 DEF vars, loopVars, sockVars, sessVars, outVars, CohInv, Coherent
<1>2. ASSUME NEW c \in Conn, ReadClosed(c) \/ ReadData(c) \/ ReadDone(c)
      PROVE  CohInv'
  BY <1>2, CohFrame
  DEF ReadClosed, ReadData, ReadDone, cohVars, sockVars, sessVars, outVars
<1>3. ASSUME NEW c \in Conn,
             ProcessSendError(c) \/ ProcessTimeout(c) \/ ProcessAlive(c)
      PROVE  CohInv'
  BY <1>3, CohVisit
  DEF SessInv, ProcessSendError, ProcessTimeout, ProcessAlive, sockVars, outVars
<1> QED
  BY <1>1, <1>2, <1>3, CohLoop, CohConstruct, CohPacket, CohFetchConfig
  DEF SessInv, Next, LoopStep, Exited

\* If the SELECTs on the agents table do not fail, whenever the loop is back
\* at select every cached row and every last CONFIG agree with the table: a
\* configuration change reaches every connection in the iteration it was made
\* in, also if the client that made it was killed (main.cpp:233-247).
THEOREM CoherenceCorrect == ASSUME ~ReadsFail PROVE Spec => []ConfigCoherent
<1>1. Init => CohInv
  BY DEF Init, CohInv
<1>2. CohInv => ConfigCoherent
  BY DEF CohInv, ConfigCoherent, Coherent
<1>3. SessInv /\ CohInv /\ [Next]_vars => CohInv'
  BY CohStep
<1> QED BY <1>1, <1>2, <1>3, SessionCorrect, PTL DEF Spec
=============================================================================
