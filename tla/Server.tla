------------------------------- MODULE Server -------------------------------
(***************************************************************************)
(* The AdminTools server: the select loop of server/main.cpp, the Client   *)
(* objects of server/client.cpp it drives, and the agents and records      *)
(* tables of server/db.cpp they read and write.                            *)
(*                                                                         *)
(* The server has one thread, so a step is one call the loop makes on one  *)
(* client (or the handling of one packet inside readData), and the outside *)
(* world acts only through what select, recv, accept and send return.      *)
(* Peers are arbitrary: a recv delivers any packets of the set Packets.    *)
(*                                                                         *)
(* Abstractions.  A connection is named by an element of Conn, which stands*)
(* for the Client object; the vector of clients is the set clients, and a  *)
(* pass over the vector visits its members once each in any order.  A      *)
(* configuration is its interval, the one field the server alters.  The    *)
(* bytes of a receive buffer are the packets they complete (module Framing *)
(* has the bytes); dataToSend is whether it is empty, plus the last CONFIG *)
(* and AGENTSDATA appended to it.  Clocks are ages in ticks, which the     *)
(* unsigned differences of getTicks() in the code amount to.               *)
(*                                                                         *)
(* The biggest gap: accept never fails (descriptors do not run out).       *)
(***************************************************************************)
EXTENDS Integers, Sequences, FiniteSets

CONSTANTS
  Conn,           \* Client objects that can exist at the same time
  NoConn,         \* owner of a descriptor that is not open
  Fd,             \* descriptor numbers the kernel gives to client sockets
  Agent,          \* ids the agents table can hold; each has a key of its own
  NoAgent,        \* dbAgent.id of a client that never authenticated, or an
                  \* unknown key or id in a packet
  KnownAgents,    \* agents with a row when the server starts
  Packets,        \* the packets peers send
  Time,           \* timestamps of samples
  Intervals,      \* values an uninitialised interval may have
  AgentMin, AgentMax, DefaultInterval,  \* AGENT_UPDATE_INTERVAL_*, db default
  FeedMin, FeedMax,                     \* CLIENT_UPDATE_INTERVAL_*
  PingTime, PacketTimeout, OldFlush,    \* timeouts, in ticks
  DataFresh,      \* age from which an agent is left out of AGENTSDATA
  MaxBatch,       \* bound: packets completed by one recv
  MaxOld,         \* bound: old samples a client object may hold
  Rekey,          \* may an authenticated peer send the key of another agent?
  ReadsFail       \* may a SELECT on the agents table fail?

PacketTypes == {"AUTH", "AGENTDATA", "START", "STOP", "KEY_REQUEST",
                "CONFIG_REQUEST", "CONFIG_CHANGE_REQUEST", "STATS_REQUEST",
                "OTHER"}

\* agent: whose key (AUTH) or id (CONFIG_*); num: interval or timestamp;
\* flag: sendConfig (AUTH) or oldData (AGENTDATA); empty: header.size = 0.
Packet == [type: PacketTypes, empty: BOOLEAN, agent: Agent \cup {NoAgent},
           num: Nat, flag: BOOLEAN]

ASSUME ServerAssumption ==
  /\ NoConn \notin Conn /\ NoAgent \notin Agent
  /\ Fd \subseteq Nat /\ Time \subseteq Nat /\ Intervals \subseteq Nat
  /\ KnownAgents \subseteq Agent
  /\ Packets \subseteq Packet
  /\ \A p \in Packets : p.type = "AGENTDATA" => p.num \in Time
  /\ AgentMin \in Nat /\ AgentMax \in Nat /\ AgentMin <= AgentMax
  /\ FeedMin \in Nat /\ FeedMax \in Nat /\ FeedMin <= FeedMax
  /\ DefaultInterval \in Nat
  /\ PingTime \in Nat /\ PacketTimeout \in Nat
  /\ OldFlush \in Nat /\ DataFresh \in Nat
  /\ MaxBatch \in Nat /\ MaxOld \in Nat
  /\ Rekey \in BOOLEAN /\ ReadsFail \in BOOLEAN

NoPacket == "none"   \* state = WAITING_FOR_HEADER
NoFd  == -1   \* fd of an object that was not constructed
NoRow == -1   \* no row in the agents table; interval of an unset dbAgent

VARIABLES
  pc,           \* where the main loop is
  todo,         \* clients the current pass has still to visit
  cur, left,    \* the client in readData, packets its buffer may complete
  needReload,   \* needSettingsReload
  clients,      \* the objects in the vector clients
  fd, toDelete, \* Client::fd, Client::toDelete
  owner,        \* the kernel's table: descriptor -> connection using it
  pending,      \* type of the header whose body is awaited, or NoPacket
  pktAge, idle, \* age of packetStartTime, of lastPingTime
  authorized, agent, row,  \* Client::authorized, dbAgent.id, dbAgent.interval
  settingsChanged,
  sending, every, feedAge, \* sendingActive, sendDataTimer
  dataAge,      \* age of each agent's entry in agentsData
  lastFeed,     \* agents in the last AGENTSDATA queued
  oldData, oldAge,         \* Client::oldData, age of oldDataUpdateTime
  table,        \* agents table: interval of each row
  records,      \* records table: <<agent, timestamp>>, a unique index
  received,     \* history: samples received, under the agent of that moment
  backlog,      \* dataToSend is not empty
  lastCfg       \* history: the last CONFIG queued

loopVars == <<pc, todo, cur, left, needReload>>
sockVars == <<clients, fd, toDelete, owner>>
recvVars == <<pending, pktAge, idle>>
sessVars == <<authorized, agent, row>>
feedVars == <<sending, every, feedAge, dataAge, lastFeed>>
oldVars  == <<oldData, oldAge, received>>
outVars  == <<backlog, lastCfg>>
vars == <<loopVars, sockVars, recvVars, sessVars, settingsChanged, feedVars,
          oldVars, table, records, outVars>>

Phases == {"select", "accept", "read", "parse", "process", "fetch", "erase",
           "stopped", "failed"}

UnsetConfig == [agent |-> NoAgent, interval |-> NoRow]

-----------------------------------------------------------------------------
(* Helpers.                                                                *)

Least(x, y) == IF x <= y THEN x ELSE y

\* client.cpp:322-325, settings.h:10-11
ClampAgent(n) == IF n < AgentMin THEN AgentMin
                 ELSE IF n > AgentMax THEN AgentMax ELSE n

\* client.cpp:272-275, settings.h:7-8
ClampFeed(n) == IF n <= FeedMin THEN FeedMin
                ELSE IF n >= FeedMax THEN FeedMax ELSE n

Known(a) == a \in Agent /\ table[a] # NoRow

FreeFds == {f \in Fd : owner[f] = NoConn}

\* close(fd) of client c: frees the number whoever uses it by now.
Close(c) == owner' = [owner EXCEPT ![fd[c]] = NoConn]

\* Mutant: the socket is closed and the client is not marked.
KillUnmarked(c) == UNCHANGED toDelete /\ Close(c)

Kill(c) == toDelete' = [toDelete EXCEPT ![c] = TRUE] /\ Close(c)

\* Mutant: a new object starts with the samples of the one it replaces.
ConstructOldKept(c, age) == UNCHANGED oldData /\ oldAge' = [oldAge EXCEPT ![c] = age]

ConstructOld(c, age) ==
  /\ oldData' = [oldData EXCEPT ![c] = <<>>]
  /\ oldAge' = [oldAge EXCEPT ![c] = age]

\* The constructor of Client; row, every and the timers it leaves
\* uninitialised are never read before they are set, except oldAge.
Construct(c, f, age) ==
  /\ fd' = [fd EXCEPT ![c] = f]
  /\ toDelete' = [toDelete EXCEPT ![c] = FALSE]
  /\ pending' = [pending EXCEPT ![c] = NoPacket]
  /\ pktAge' = [pktAge EXCEPT ![c] = 0]
  /\ idle' = [idle EXCEPT ![c] = 0]
  /\ authorized' = [authorized EXCEPT ![c] = FALSE]
  /\ agent' = [agent EXCEPT ![c] = NoAgent]
  /\ row' = [row EXCEPT ![c] = NoRow]
  /\ settingsChanged' = [settingsChanged EXCEPT ![c] = FALSE]
  /\ sending' = [sending EXCEPT ![c] = FALSE]
  /\ every' = [every EXCEPT ![c] = 0]
  /\ feedAge' = [feedAge EXCEPT ![c] = FeedMax + 1]
  /\ lastFeed' = [lastFeed EXCEPT ![c] = {}]
  /\ ConstructOld(c, age)
  /\ backlog' = [backlog EXCEPT ![c] = FALSE]
  /\ lastCfg' = [lastCfg EXCEPT ![c] = UnsetConfig]

Init ==
  /\ pc = "select" /\ todo = {} /\ cur = NoConn /\ left = 0
  /\ needReload = FALSE
  /\ clients = {}
  /\ fd = [c \in Conn |-> NoFd]
  /\ toDelete = [c \in Conn |-> FALSE]
  /\ owner = [f \in Fd |-> NoConn]
  /\ pending = [c \in Conn |-> NoPacket]
  /\ pktAge = [c \in Conn |-> 0]
  /\ idle = [c \in Conn |-> 0]
  /\ authorized = [c \in Conn |-> FALSE]
  /\ agent = [c \in Conn |-> NoAgent]
  /\ row = [c \in Conn |-> NoRow]
  /\ settingsChanged = [c \in Conn |-> FALSE]
  /\ sending = [c \in Conn |-> FALSE]
  /\ every = [c \in Conn |-> 0]
  /\ feedAge = [c \in Conn |-> FeedMax + 1]
  /\ dataAge = [a \in Agent |-> DataFresh]
  /\ lastFeed = [c \in Conn |-> {}]
  /\ oldData = [c \in Conn |-> <<>>]
  /\ oldAge = [c \in Conn |-> 0]
  /\ table = [a \in Agent |-> IF a \in KnownAgents THEN DefaultInterval
                              ELSE NoRow]
  /\ records = {}
  /\ received = {}
  /\ backlog = [c \in Conn |-> FALSE]
  /\ lastCfg = [c \in Conn |-> UnsetConfig]

-----------------------------------------------------------------------------
(* Time and peers.                                                         *)

\* Time passes while the loop sits in select.
Tick ==
  /\ pc = "select"
  /\ pktAge' = [c \in Conn |-> IF pending[c] = NoPacket THEN 0
                               ELSE Least(pktAge[c] + 1, PacketTimeout)]
  /\ idle' = [c \in Conn |-> IF c \in clients
                             THEN Least(idle[c] + 1, PingTime) ELSE 0]
  /\ feedAge' = [c \in Conn |-> Least(feedAge[c] + 1, FeedMax + 1)]
  /\ oldAge' = [c \in Conn |-> IF c \in clients
                               THEN Least(oldAge[c] + 1, OldFlush) ELSE 0]
  /\ dataAge' = [a \in Agent |-> Least(dataAge[a] + 1, DataFresh)]
  /\ UNCHANGED <<loopVars, sockVars, pending, sessVars, settingsChanged,
                 sending, every, lastFeed, oldData, received, table, records,
                 outVars>>

-----------------------------------------------------------------------------
(* The main loop: select, accept, read.                                    *)

\* select returned: a descriptor that is not open makes it fail with EBADF
\* and the server exits; otherwise some sockets are readable, and a new
\* connection may be waiting on the listening one.
Select ==
  /\ pc = "select"
  /\ IF \E c \in clients : owner[fd[c]] = NoConn
     THEN pc' = "failed" /\ todo' = {}
     ELSE /\ todo' \in SUBSET clients
          /\ pc' \in {"read"} \cup (IF clients # Conn /\ FreeFds # {}
                                    THEN {"accept"} ELSE {})
  /\ UNCHANGED <<cur, left, needReload, sockVars, recvVars, sessVars,
                 settingsChanged, feedVars, oldVars, table, records, outVars>>

\* EINTR: the descriptors are not looked at, the rest of the body runs.
SelectInterrupted ==
  /\ pc = "select" /\ \A c \in clients : owner[fd[c]] # NoConn
  /\ pc' = "process" /\ todo' = clients /\ needReload' = FALSE
  /\ UNCHANGED <<cur, left, sockVars, recvVars, sessVars, settingsChanged,
                 feedVars, oldVars, table, records, outVars>>

\* The kernel hands out the lowest free number.
Accept(c) ==
  /\ pc = "accept" /\ c \in Conn \ clients
  /\ \E f \in FreeFds :
       /\ \A g \in FreeFds : f <= g
       /\ owner' = [owner EXCEPT ![f] = c]
       /\ \E age \in 0..OldFlush : Construct(c, f, age)
  /\ clients' = clients \cup {c}
  /\ pc' = "read"
  /\ UNCHANGED <<todo, cur, left, needReload, dataAge, received, table,
                 records>>

\* recv returned 0 or -1.
ReadClosed(c) ==
  /\ pc = "read" /\ c \in todo
  /\ todo' = todo \ {c}
  /\ Kill(c)
  /\ UNCHANGED <<pc, cur, left, needReload, clients, fd, recvVars,
                 sessVars, settingsChanged, feedVars, oldVars, table, records,
                 outVars>>

\* recv returned data; with what the buffer held it completes some packets.
ReadData(c) ==
  /\ pc = "read" /\ c \in todo /\ owner[fd[c]] # NoConn
  /\ todo' = todo \ {c}
  /\ idle' = [idle EXCEPT ![c] = 0]
  /\ pc' = "parse" /\ cur' = c
  /\ left' = MaxBatch
  /\ UNCHANGED <<needReload, sockVars, pending, pktAge, sessVars,
                 settingsChanged, feedVars, oldVars, table, records, outVars>>

-----------------------------------------------------------------------------
(* readData, 82-120: one step per packet the buffer completes.  A packet is*)
(* processed whatever the packets before it did to the client, kill        *)
(* included.                                                               *)

\* The packets peer c may send next.
Sendable(c) ==
  {p \in Packets :
     /\ p.type = "AUTH" /\ authorized[c] /\ ~Rekey
          => p.agent \in {agent[c], NoAgent}
     /\ p.type = "AGENTDATA" /\ p.flag => Len(oldData[c]) < MaxOld}

\* p is the next packet completed in the buffer of c.
Completes(c, p) ==
  /\ pc = "parse" /\ c = cur /\ left > 0
  /\ p \in Sendable(c)
  /\ pending[c] # NoPacket => p.type = pending[c] /\ ~p.empty
  /\ left' = left - 1
  /\ pending' = [pending EXCEPT ![c] = NoPacket]
  /\ pktAge' = [pktAge EXCEPT ![c] = 0]
  /\ UNCHANGED <<pc, todo, cur, needReload, idle>>

\* Mutant: START is answered to whoever sends it.
MustKillButStart(c, p) ==
  \/ p.type \in {"AUTH", "AGENTDATA", "START"} /\ p.empty
  \/ p.type \notin {"AUTH", "START", "OTHER"} /\ ~authorized[c]

\* The packets processPacket answers with kill(): see the guards at the top
\* of every case.
MustKill(c, p) ==
  \/ p.type \in {"AUTH", "AGENTDATA", "START"} /\ p.empty
  \/ p.type \notin {"AUTH", "OTHER"} /\ ~authorized[c]

\* The values of a body that was not sent are those of uninitialised fields.
AgentField(p) == IF p.empty THEN Agent \cup {NoAgent} ELSE {p.agent}
NumField(p)   == IF p.empty THEN Intervals ELSE {p.num}

Rejected(c, p) ==
  /\ Completes(c, p) /\ MustKill(c, p)
  /\ Kill(c)
  /\ UNCHANGED <<clients, fd, sessVars, settingsChanged, feedVars,
                 oldVars, table, records, outVars>>

\* findAgentByKey fills dbAgent only when it finds a row; a wrong key leaves
\* an earlier authorisation in place.
Auth(c, p) ==
  /\ Completes(c, p) /\ ~MustKill(c, p) /\ p.type = "AUTH"
  /\ \E found \in {Known(p.agent)} \cup (IF ReadsFail THEN {FALSE} ELSE {}) :
       IF found
       THEN /\ authorized' = [authorized EXCEPT ![c] = TRUE]
            /\ agent' = [agent EXCEPT ![c] = p.agent]
            /\ row' = [row EXCEPT ![c] = table[p.agent]]
       ELSE UNCHANGED sessVars
  /\ backlog' = [backlog EXCEPT ![c] = TRUE]
  /\ lastCfg' = IF authorized'[c] /\ p.flag
                THEN [lastCfg EXCEPT ![c] = [agent |-> agent'[c],
                                             interval |-> row'[c]]]
                ELSE lastCfg
  /\ UNCHANGED <<sockVars, settingsChanged, feedVars, oldVars, table,
                 records>>

\* An INSERT may fail; a duplicate <<agent, timestamp>> always does.
Insert(r) == records' \in {records, records \cup {r}}

\* A live sample refreshes agentsData and is inserted; an old one waits in
\* the client object; a body too short for its fields is dropped.
AgentData(c, p) ==
  /\ Completes(c, p) /\ ~MustKill(c, p) /\ p.type = "AGENTDATA"
  /\ \/ /\ p.flag
        /\ oldData' = [oldData EXCEPT ![c] = Append(@, p.num)]
        /\ received' = received \cup {<<agent[c], p.num>>}
        /\ UNCHANGED <<dataAge, records>>
     \/ /\ ~p.flag
        /\ dataAge' = [dataAge EXCEPT ![agent[c]] = 0]
        /\ Insert(<<agent[c], p.num>>)
        /\ received' = received \cup {<<agent[c], p.num>>}
        /\ UNCHANGED oldData
     \/ UNCHANGED <<received, oldData, dataAge, records>>
  /\ UNCHANGED <<sockVars, sessVars, settingsChanged, sending, every, feedAge,
                 lastFeed, oldAge, table, outVars>>

Start(c, p) ==
  /\ Completes(c, p) /\ ~MustKill(c, p) /\ p.type = "START"
  /\ sending' = [sending EXCEPT ![c] = TRUE]
  /\ every' = [every EXCEPT ![c] = ClampFeed(p.num)]
  /\ UNCHANGED <<sockVars, sessVars, settingsChanged, feedAge, dataAge,
                 lastFeed, oldVars, table, records, outVars>>

Stop(c, p) ==
  /\ Completes(c, p) /\ ~MustKill(c, p) /\ p.type = "STOP"
  /\ sending' = [sending EXCEPT ![c] = FALSE]
  /\ UNCHANGED <<sockVars, sessVars, settingsChanged, every, feedAge, dataAge,
                 lastFeed, oldVars, table, records, outVars>>

\* The key is sent whether or not its row could be inserted.
KeyRequest(c, p) ==
  /\ Completes(c, p) /\ ~MustKill(c, p) /\ p.type = "KEY_REQUEST"
  /\ \/ \E a \in Agent : ~Known(a)
                         /\ table' = [table EXCEPT ![a] = DefaultInterval]
     \/ UNCHANGED table
  /\ backlog' = [backlog EXCEPT ![c] = TRUE]
  /\ UNCHANGED <<sockVars, sessVars, settingsChanged, feedVars, oldVars,
                 records, lastCfg>>

\* The reply is a CONFIG_REPLY, which an agent does not take for its own
\* configuration.
ConfigRequest(c, p) ==
  /\ Completes(c, p) /\ ~MustKill(c, p) /\ p.type = "CONFIG_REQUEST"
  /\ backlog' = [backlog EXCEPT ![c] = TRUE]
  /\ UNCHANGED <<sockVars, sessVars, settingsChanged, feedVars, oldVars,
                 table, records, lastCfg>>

\* UPDATE of a row that exists, unless it fails; the reply is 1 either way.
ConfigChangeRequest(c, p) ==
  /\ Completes(c, p) /\ ~MustKill(c, p) /\ p.type = "CONFIG_CHANGE_REQUEST"
  /\ \/ \E a \in AgentField(p), n \in NumField(p) :
          Known(a) /\ table' = [table EXCEPT ![a] = ClampAgent(n)]
     \/ UNCHANGED table
  /\ settingsChanged' = [settingsChanged EXCEPT ![c] = TRUE]
  /\ backlog' = [backlog EXCEPT ![c] = TRUE]
  /\ UNCHANGED <<sockVars, sessVars, feedVars, oldVars, records, lastCfg>>

\* The statistics themselves are module Stats.
StatsRequest(c, p) ==
  /\ Completes(c, p) /\ ~MustKill(c, p) /\ p.type = "STATS_REQUEST"
  /\ backlog' = [backlog EXCEPT ![c] = TRUE]
  /\ UNCHANGED <<sockVars, sessVars, settingsChanged, feedVars, oldVars,
                 table, records, lastCfg>>

\* PING and every type processPacket has no case for.
Ignored(c, p) ==
  /\ Completes(c, p) /\ p.type = "OTHER"
  /\ UNCHANGED <<sockVars, sessVars, settingsChanged, feedVars, oldVars,
                 table, records, outVars>>

ProcessPacket(c, p) ==
  \/ Rejected(c, p) \/ Auth(c, p) \/ AgentData(c, p) \/ Start(c, p)
  \/ Stop(c, p) \/ KeyRequest(c, p) \/ ConfigRequest(c, p)
  \/ ConfigChangeRequest(c, p) \/ StatsRequest(c, p) \/ Ignored(c, p)

\* Mutant: every read restarts the timer of the packet it belongs to.
ReadDoneRestarts(c) ==
  /\ pc = "parse" /\ c = cur
  /\ \/ UNCHANGED pending
     \/ /\ pending[c] = NoPacket
        /\ \E p \in Sendable(c) :
             ~p.empty /\ pending' = [pending EXCEPT ![c] = p.type]
  /\ pktAge' = [pktAge EXCEPT ![c] = 0]
  /\ pc' = "read" /\ cur' = NoConn /\ left' = 0
  /\ UNCHANGED <<todo, needReload, sockVars, idle, sessVars, settingsChanged,
                 feedVars, oldVars, table, records, outVars>>

\* The buffer completes nothing more; it may hold the header of the next
\* packet, whose body is then awaited from now on.
ReadDone(c) ==
  /\ pc = "parse" /\ c = cur
  /\ \/ UNCHANGED <<pending, pktAge>>
     \/ /\ pending[c] = NoPacket
        /\ \E p \in Sendable(c) :
             ~p.empty /\ pending' = [pending EXCEPT ![c] = p.type]
        /\ pktAge' = [pktAge EXCEPT ![c] = 0]
  /\ pc' = "read" /\ cur' = NoConn /\ left' = 0
  /\ UNCHANGED <<todo, needReload, sockVars, idle, sessVars, settingsChanged,
                 feedVars, oldVars, table, records, outVars>>

BeginProcess ==
  /\ pc = "read" /\ todo = {}
  /\ pc' = "process" /\ todo' = clients /\ needReload' = FALSE
  /\ UNCHANGED <<cur, left, sockVars, recvVars, sessVars, settingsChanged,
                 feedVars, oldVars, table, records, outVars>>

-----------------------------------------------------------------------------
(* The process pass: Client::process, then the settingsChanged flag is     *)
(* collected whatever process did.                                         *)

\* Mutant: the last client visited alone decides on the reload.
VisitOverwrites(c) ==
  /\ pc = "process" /\ c \in todo
  /\ todo' = todo \ {c}
  /\ needReload' = settingsChanged[c]
  /\ settingsChanged' = [settingsChanged EXCEPT ![c] = FALSE]
  /\ UNCHANGED <<pc, cur, left>>

Visit(c) ==
  /\ pc = "process" /\ c \in todo
  /\ todo' = todo \ {c}
  /\ needReload' = (needReload \/ settingsChanged[c])
  /\ settingsChanged' = [settingsChanged EXCEPT ![c] = FALSE]
  /\ UNCHANGED <<pc, cur, left>>

\* send returns an error other than EAGAIN; on a closed socket it must.
ProcessSendError(c) ==
  /\ Visit(c) /\ backlog[c]
  /\ Kill(c)
  /\ UNCHANGED <<clients, fd, recvVars, sessVars, feedVars, oldVars,
                 table, records, outVars>>

\* What dataToSend holds after send took all, some or (EAGAIN) none of it.
AfterSend(c) == IF backlog[c] THEN BOOLEAN ELSE {FALSE}
CanSend(c) == backlog[c] => owner[fd[c]] # NoConn

\* Mutant: the ping timeout is not checked.
TimedOutPacketOnly(c) == pending[c] # NoPacket /\ pktAge[c] >= PacketTimeout

TimedOut(c) ==
  \/ pending[c] # NoPacket /\ pktAge[c] >= PacketTimeout
  \/ idle[c] >= PingTime

ProcessTimeout(c) ==
  /\ Visit(c) /\ CanSend(c) /\ TimedOut(c)
  /\ \E b \in AfterSend(c) : backlog' = [backlog EXCEPT ![c] = b]
  /\ Kill(c)
  /\ UNCHANGED <<clients, fd, recvVars, sessVars, feedVars, oldVars,
                 table, records, lastCfg>>

FeedDue(c) == sending[c] /\ feedAge[c] > every[c]

\* Mutant: the age of an entry is compared with <= instead of <.
FeedStale(c) ==
  IF FeedDue(c)
  THEN /\ feedAge' = [feedAge EXCEPT ![c] = 0]
       /\ lastFeed' = [lastFeed EXCEPT ![c] =
                         {a \in Agent : dataAge[a] <= DataFresh}]
  ELSE UNCHANGED <<feedAge, lastFeed>>

\* AGENTSDATA leaves out the agents not heard of for DataFresh.
Feed(c) ==
  IF FeedDue(c)
  THEN /\ feedAge' = [feedAge EXCEPT ![c] = 0]
       /\ lastFeed' = [lastFeed EXCEPT ![c] =
                         {a \in Agent : dataAge[a] < DataFresh}]
  ELSE UNCHANGED <<feedAge, lastFeed>>

\* insertRecords: one transaction, rolled back if any INSERT fails.
InsertAll(a, samples) ==
  LET rows == {<<a, samples[i]>> : i \in DOMAIN samples}
  IN  \/ /\ \A i, j \in DOMAIN samples : samples[i] = samples[j] => i = j
         /\ rows \cap records = {}
         /\ records' = records \cup rows
      \/ UNCHANGED records

\* oldData is cleared whatever became of the transaction.
FlushOld(c) ==
  IF oldData[c] # <<>> /\ oldAge[c] >= OldFlush
  THEN /\ InsertAll(agent[c], oldData[c])
       /\ oldData' = [oldData EXCEPT ![c] = <<>>]
       /\ oldAge' = [oldAge EXCEPT ![c] = 0]
  ELSE UNCHANGED <<records, oldData, oldAge>>

ProcessAlive(c) ==
  /\ Visit(c) /\ CanSend(c) /\ ~TimedOut(c)
  /\ \E b \in AfterSend(c) :
       backlog' = [backlog EXCEPT ![c] = b \/ FeedDue(c)]
  /\ Feed(c)
  /\ FlushOld(c)
  /\ UNCHANGED <<sockVars, recvVars, sessVars, sending, every, dataAge,
                 received, table, lastCfg>>

-----------------------------------------------------------------------------
(* The fetchConfig pass, the deletions, and the end of the iteration.      *)

BeginFetch ==
  /\ pc = "process" /\ todo = {}
  /\ pc' = "fetch" /\ todo' = IF needReload THEN clients ELSE {}
  /\ UNCHANGED <<cur, left, needReload, sockVars, recvVars, sessVars,
                 settingsChanged, feedVars, oldVars, table, records, outVars>>

\* Mutant: one dbAgent is filled and sent to every client.
FetchConfigShared(c) ==
  /\ pc = "fetch" /\ c \in todo
  /\ todo' = todo \ {c}
  /\ backlog' = [backlog EXCEPT ![c] = TRUE]
  /\ \E d \in clients :
       lastCfg' = [lastCfg EXCEPT ![c] = [agent |-> agent[d],
                                          interval |-> row[d]]]
  /\ UNCHANGED <<pc, cur, left, needReload, sockVars, recvVars, sessVars,
                 settingsChanged, feedVars, oldVars, table, records>>

\* A client whose id has no row is sent what dbAgent holds.  The id is looked
\* up as a uint16_t: there are fewer than 65535 agents, so NoAgent, -1 in the
\* code, and an id are not mixed up (db.cpp:123).
FetchConfig(c) ==
  /\ pc = "fetch" /\ c \in todo
  /\ todo' = todo \ {c}
  /\ \E found \in {Known(agent[c])} \cup (IF ReadsFail THEN {FALSE} ELSE {}) :
       row' = IF found THEN [row EXCEPT ![c] = table[agent[c]]] ELSE row
  /\ backlog' = [backlog EXCEPT ![c] = TRUE]
  /\ lastCfg' = [lastCfg EXCEPT ![c] = [agent |-> agent[c],
                                        interval |-> row'[c]]]
  /\ UNCHANGED <<pc, cur, left, needReload, sockVars, recvVars, authorized,
                 agent, settingsChanged, feedVars, oldVars, table, records>>

\* Mutant: dead clients are only removed when no reload was due.
BeginEraseUnlessReload ==
  /\ pc = "fetch" /\ todo = {}
  /\ pc' = "erase"
  /\ todo' = IF needReload THEN {} ELSE {c \in clients : toDelete[c]}
  /\ UNCHANGED <<cur, left, needReload, sockVars, recvVars, sessVars,
                 settingsChanged, feedVars, oldVars, table, records, outVars>>

BeginErase ==
  /\ pc = "fetch" /\ todo = {}
  /\ pc' = "erase" /\ todo' = {c \in clients : toDelete[c]}
  /\ UNCHANGED <<cur, left, needReload, sockVars, recvVars, sessVars,
                 settingsChanged, feedVars, oldVars, table, records, outVars>>

\* Mutant: the pass comes back to the place of the client it erased.
EraseRevisits(c) ==
  /\ pc = "erase" /\ c \in todo
  /\ UNCHANGED todo
  /\ Close(c)
  /\ clients' = clients \ {c}
  /\ Construct(c, NoFd, 0)
  /\ UNCHANGED <<pc, cur, left, needReload, dataAge, received, table, records>>

\* The descriptor is closed a second time.  The object is gone: its fields
\* go back to what the constructor gives, so that they tell nothing apart.
Erase(c) ==
  /\ pc = "erase" /\ c \in todo
  /\ todo' = todo \ {c}
  /\ Close(c)
  /\ clients' = clients \ {c}
  /\ Construct(c, NoFd, 0)
  /\ UNCHANGED <<pc, cur, left, needReload, dataAge, received, table, records>>

\* Once an hour the records older than 30 days are deleted.
EndIteration ==
  /\ pc = "erase" /\ todo = {}
  /\ pc' = "select"
  /\ \/ UNCHANGED records
     \/ \E limit \in Time : records' = {r \in records : r[2] >= limit}
  /\ UNCHANGED <<todo, cur, left, needReload, sockVars, recvVars, sessVars,
                 settingsChanged, feedVars, oldVars, table, outVars>>

\* A signal set end, and the loop tests it.
Shutdown ==
  /\ pc = "select"
  /\ pc' = "stopped"
  /\ owner' = [f \in Fd |-> IF \E c \in clients : fd[c] = f THEN NoConn
                            ELSE owner[f]]
  /\ clients' = {}
  /\ UNCHANGED <<todo, cur, left, needReload, fd, toDelete,
                 recvVars, sessVars, settingsChanged, feedVars, oldVars,
                 table, records, outVars>>

Exited == pc \in {"stopped", "failed"} /\ UNCHANGED vars
-----------------------------------------------------------------------------
(* The specification.                                                      *)

LoopStep ==
  \/ Select \/ SelectInterrupted
  \/ \E c \in Conn :
       \/ Accept(c) \/ ReadClosed(c) \/ ReadData(c)
       \/ \E p \in Packets : ProcessPacket(c, p)
       \/ ReadDone(c)
       \/ ProcessSendError(c) \/ ProcessTimeout(c) \/ ProcessAlive(c)
       \/ FetchConfig(c) \/ Erase(c)
  \/ BeginProcess \/ BeginFetch \/ BeginErase \/ EndIteration

Next ==
  \/ LoopStep
  \/ Tick
  \/ Shutdown
  \/ Exited

Spec == Init /\ [][Next]_vars

\* The server's thread keeps running, and the clock keeps advancing while
\* the loop comes back to select again and again.
FairSpec == Spec /\ WF_vars(LoopStep) /\ SF_vars(Tick)

-----------------------------------------------------------------------------
(* Properties.                                                             *)

LoopType ==
  /\ pc \in Phases /\ todo \subseteq clients /\ left \in 0..MaxBatch
  /\ pc = "select" => todo = {}
  /\ IF pc = "parse" THEN cur \in clients ELSE cur = NoConn
  /\ needReload \in BOOLEAN

SocketType ==
  /\ clients \subseteq Conn
  /\ fd \in [Conn -> Fd \cup {NoFd}] /\ owner \in [Fd -> Conn \cup {NoConn}]
  /\ toDelete \in [Conn -> BOOLEAN]

ReceiveType ==
  /\ pending \in [Conn -> PacketTypes \cup {NoPacket}]
  /\ pktAge \in [Conn -> 0..PacketTimeout] /\ idle \in [Conn -> 0..PingTime]

SessionType ==
  /\ authorized \in [Conn -> BOOLEAN] /\ settingsChanged \in [Conn -> BOOLEAN]
  /\ agent \in [Conn -> Agent \cup {NoAgent}]
  /\ row \in [Conn -> Nat \cup {NoRow}]

FeedType ==
  /\ sending \in [Conn -> BOOLEAN] /\ every \in [Conn -> 0..FeedMax]
  /\ feedAge \in [Conn -> 0..FeedMax + 1] /\ dataAge \in [Agent -> 0..DataFresh]
  /\ lastFeed \in [Conn -> SUBSET Agent]

DataType ==
  /\ oldData \in [Conn -> Seq(Time)] /\ oldAge \in [Conn -> 0..OldFlush]
  /\ table \in [Agent -> Nat \cup {NoRow}]
  /\ records \subseteq Agent \X Time /\ received \subseteq Agent \X Time

OutputType ==
  /\ backlog \in [Conn -> BOOLEAN]
  /\ lastCfg \in [Conn -> [agent: Agent \cup {NoAgent},
                           interval: Nat \cup {NoRow}]]

\* Every variable has its type, and the loop's bookkeeping is sound: a pass
\* only visits clients that are still in the vector (main.cpp:225-256).
TypeOK ==
  /\ LoopType /\ SocketType /\ ReceiveType /\ SessionType /\ FeedType
  /\ DataType /\ OutputType

\* A client that is not marked for deletion has its socket open: although
\* kill() and the deletion pass (main.cpp:252) close a dead client's
\* descriptor twice, the second close never hits a number that accept has
\* meanwhile given to another client.
DescriptorsOwned ==
  \A c \in clients : ~toDelete[c] => owner[fd[c]] = c

\* Every client killed in an iteration is out of the vector before the next
\* select, which would fail with EBADF on its closed descriptor and take the
\* whole server down (main.cpp:195-202).
LoopNeverFails == pc # "failed"

\* Whenever the loop is back at select, what every client object caches of
\* its agents row, and the last CONFIG queued for it, agree with the table,
\* whichever clients changed the configuration in whatever order, and even if
\* the client that did was killed in the same read (main.cpp:233-247).
ConfigCoherent ==
  pc = "select" =>
    \A c \in clients :
      /\ authorized[c] => row[c] = table[agent[c]]
      /\ lastCfg[c].agent # NoAgent
           => lastCfg[c].interval = table[lastCfg[c].agent]

\* A row of the records table names the agent whose key the connection had
\* sent when the sample arrived, though a sample with oldData set is inserted
\* seconds later and under the dbAgent of that moment (client.cpp:177-184).
RecordsAttributed == records \subseteq received

\* A connection that never sent the key of an agent is never queued another
\* agent's configuration or the data of any agent, though the settings
\* broadcast goes to every client (main.cpp:243-247).
StrangersSeeNothing ==
  \A c \in clients : ~authorized[c] => lastCfg[c] = UnsetConfig
                                       /\ lastFeed[c] = {}

\* A client object is heard from or removed again and again: a peer that
\* disappears without closing its socket does not keep it for ever
\* (client.cpp:160-166).
SilentPeerReaped == \A c \in Conn : []<>(c \notin clients \/ idle[c] = 0)

\* A peer that sends a header and then trickles or withholds the body is
\* dropped: bytes that do not complete the packet do not restart its timer
\* (client.cpp:97 and 152-158).
StalledPacketReaped ==
  \A c \in Conn : pending[c] # NoPacket
                    ~> (pending[c] = NoPacket \/ c \notin clients)

\* A viewer that is being sent AGENTSDATA, and keeps being sent it, stops
\* being shown an agent that no longer sends samples (client.cpp:170-174).
SilentAgentLeavesFeed ==
  \A c \in Conn, a \in Agent :
    (c \in clients /\ a \in lastFeed[c])
      ~> (a \notin lastFeed[c] \/ c \notin clients \/ ~sending[c]
            \/ dataAge[a] < DataFresh)

=============================================================================
