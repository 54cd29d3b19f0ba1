------------------------ MODULE PipelineCustodyProofs ------------------------
(***************************************************************************)
(* Proofs about where samples are in Pipeline: what a step moves, that a   *)
(* sample is in one place, once, that nothing but samples reaches the      *)
(* table; and that Pipeline implements Custody: every step moves each      *)
(* sample from one of Custody's places to another as Custody allows, or    *)
(* moves none.                                                             *)
(***************************************************************************)
EXTENDS PipelineProofs, FiniteSetTheorems

-----------------------------------------------------------------------------
(* What a sequence holds.                                                  *)

\* An element of T is in q, at most one is.
Has(q, T) == \E i \in DOMAIN q : q[i] \in T

Once(q, T) == \A i, j \in DOMAIN q : q[i] \in T /\ q[j] \in T => i = j

LEMMA HasEmpty == ASSUME NEW T PROVE ~Has(<<>>, T) /\ Once(<<>>, T)
BY DEF Has, Once

LEMMA HasSingle ==
  ASSUME NEW x, NEW T
  PROVE  (Has(<<x>>, T) <=> x \in T) /\ Once(<<x>>, T)
BY DEF Has, Once

LEMMA HasAppend ==
  ASSUME NEW S, NEW q \in Seq(S), NEW x \in S, NEW T
  PROVE  /\ Has(Append(q, x), T) <=> Has(q, T) \/ x \in T
         /\ Once(q, T) /\ ~(Has(q, T) /\ x \in T) => Once(Append(q, x), T)
<1> DEFINE r == Append(q, x)
           l == Len(q)
<1>1. /\ l \in Nat /\ DOMAIN q = 1..l /\ DOMAIN r = 1..l + 1
      /\ \A i \in 1..l : r[i] = q[i]
      /\ r[l + 1] = x
  OBVIOUS
<1> HIDE DEF r, l
<1>2. \A i \in 1..l + 1 : i \in 1..l \/ i = l + 1
  BY <1>1
<1>3. 1..l \subseteq 1..l + 1 /\ l + 1 \in 1..l + 1
  BY <1>1
<1>4. Has(r, T) <=> Has(q, T) \/ x \in T
  BY <1>1, <1>2, <1>3, Zenon DEF Has
<1>5. Once(q, T) /\ ~(Has(q, T) /\ x \in T) => Once(r, T)
  BY <1>1, <1>2, Zenon DEF Has, Once
<1> QED BY <1>4, <1>5 DEF r

LEMMA HasTail ==
  ASSUME NEW S, NEW q \in Seq(S), q # <<>>, NEW T
  PROVE  /\ Has(q, T) <=> Head(q) \in T \/ Has(Tail(q), T)
         /\ Once(q, T) => Once(Tail(q), T)
         /\ Once(q, T) /\ Head(q) \in T => ~Has(Tail(q), T)
<1> DEFINE r == Tail(q)
           l == Len(q)
<1>1. /\ l \in Nat /\ l > 0 /\ DOMAIN q = 1..l /\ DOMAIN r = 1..l - 1
      /\ \A i \in 1..l - 1 : r[i] = q[i + 1]
      /\ Head(q) = q[1]
  <2>1. r \in Seq(S) /\ Len(r) = Len(q) - 1 /\ \A i \in 1..Len(r) : r[i] = q[i + 1]
    BY HeadTailProperties
  <2>2. l \in Nat /\ l > 0 /\ DOMAIN q = 1..l /\ Head(q) = q[1]
    BY EmptySeq
  <2>3. DOMAIN r = 1..Len(r)
    BY <2>1
  <2> QED BY <2>1, <2>2, <2>3
<1> HIDE DEF r, l
<1>2. \A i \in 1..l : i = 1 \/ (i - 1 \in 1..l - 1 /\ r[i - 1] = q[i])
  BY <1>1
<1>3. \A i \in 1..l - 1 : i + 1 \in 1..l /\ i + 1 # 1
  BY <1>1
<1>4. 1 \in 1..l
  BY <1>1
<1>5. \A i, j \in 1..l - 1 : i + 1 = j + 1 => i = j
  BY <1>1
<1>6. Has(q, T) <=> Head(q) \in T \/ Has(r, T)
  BY <1>1, <1>2, <1>3, <1>4, Zenon DEF Has
<1>7. Once(q, T) => Once(r, T)
  BY <1>1, <1>3, <1>5, Zenon DEF Once
<1>8. Once(q, T) /\ Head(q) \in T => ~Has(r, T)
  BY <1>1, <1>3, <1>4, Zenon DEF Has, Once
<1> QED BY <1>6, <1>7, <1>8 DEF r

LEMMA HasValues == ASSUME NEW q, NEW s PROVE s \in Values(q) <=> Has(q, {s})
BY DEF Values, Has

-----------------------------------------------------------------------------
(* Where a sample is.                                                      *)

\* What the agent has: its queue or, while it does not run, olddata.
Mem == IF Down THEN file ELSE queue

MemInv == Down => queue = <<>>

\* The packets with sample s.
Of(s) == {m \in ToServer : m.type # "AUTH" /\ m.val = s}

InMem(s) == Has(Mem, {s})

OnWay(s, c) == Has(toServer[c], Of(s))

Waits(s, c) == Has(oldData[c], {s})

-----------------------------------------------------------------------------
(* What a step moves.                                                      *)

\* olddata is not touched, and an agent that was writing it still is.
FileStays == UNCHANGED file /\ (UNCHANGED pc \/ pc # "saving")

AgentStays == Mem' = Mem /\ UNCHANGED taken /\ FileStays

WayStays == UNCHANGED toServer /\ UNCHANGED oldData

TableStays == UNCHANGED records /\ disk'.records = disk.records

\* A packet is sent, into a connection that may be dead.
Sends(m) ==
  toServer' = IF Alive(fd) THEN [toServer EXCEPT ![fd] = Append(@, m)] ELSE toServer

\* No sample moves; that a junk one does not become part of the queue or that
\* olddata is written with what the agent has does not count.
Stays ==
  /\ UNCHANGED taken /\ WayStays /\ TableStays /\ UNCHANGED reread
  /\ \/ /\ Mem' = Mem
        /\ FileStays \/ file' = Mem \/ (file' = <<Junk>> /\ pc' = "saving")
     \/ Mem = <<Junk>> /\ Mem' = <<>> /\ FileStays

Taken == taken < MaxSample /\ taken' = taken + 1 /\ pc = "sample"
         /\ FileStays /\ UNCHANGED oldData /\ TableStays /\ UNCHANGED reread

\* A sample is taken and saved, or sent.
TakenSaved ==
  /\ Taken /\ Mem' = Append(Mem, taken') /\ UNCHANGED toServer
  /\ state # "Connected"

TakenSent ==
  /\ Taken /\ Mem' = Mem /\ Sends(Msg("LIVE", taken'))
  /\ state = "Connected"

\* A saved one is sent.
Resent ==
  /\ Mem # <<>> /\ Mem' = Tail(Mem) /\ Sends(Msg("OLD", Head(Mem)))
  /\ UNCHANGED taken /\ FileStays /\ UNCHANGED oldData /\ TableStays /\ UNCHANGED reread
  /\ pc = "resend" /\ state = "Connected"

\* The agent is killed.
Killed ==
  /\ ~Down /\ pc' = "killed" /\ crashes' = crashes + 1
  /\ Mem' = file'
  /\ \/ pc = "saving" /\ Mem' \in Unfinished /\ UNCHANGED reread
     \/ pc # "saving" /\ UNCHANGED file /\ reread' = reread \cup (Values(file) \cap Samples)
  /\ UNCHANGED taken /\ WayStays /\ TableStays

\* A connection or an object of the server loses what it has, or a part.
WayLoses(c) ==
  \/ toServer'[c] \in {toServer[c], <<>>, <<Msg("AUTH", 0)>>}
  \/ toServer[c] # <<>> /\ toServer'[c] = Tail(toServer[c])

Loses ==
  /\ AgentStays /\ TableStays /\ UNCHANGED reread
  /\ \A c \in Conn : WayLoses(c) /\ oldData'[c] \in {oldData[c], <<>>}

\* The server takes a packet of connection c.
Takes(c) ==
  /\ toServer[c] # <<>> /\ toServer' = [toServer EXCEPT ![c] = Tail(@)]
  /\ Head(toServer[c]).type # "AUTH"
  /\ AgentStays /\ UNCHANGED reread

Inserts(c) ==
  /\ Takes(c) /\ UNCHANGED oldData
  /\ \E refused : insertRecord(Head(toServer[c]).val, refused)

Gathers(c) ==
  /\ Takes(c) /\ TableStays
  /\ oldData' = [oldData EXCEPT ![c] = Append(@, Head(toServer[c]).val)]

\* A batch is stored, in a transaction that is committed or not.
Stores(c) ==
  /\ AgentStays /\ UNCHANGED reread /\ UNCHANGED toServer
  /\ oldData' = [oldData EXCEPT ![c] = <<>>]
  /\ ~txn /\ records' = records \cup Values(oldData[c])
  /\ disk'.records \in {disk.records, records'}

\* The server ends, and with it a transaction.
Restarts ==
  /\ AgentStays /\ UNCHANGED reread
  /\ \A c \in Conn : toServer'[c] = <<>> /\ oldData'[c] = <<>>
  /\ records' = disk.records /\ disk'.records = disk.records

-----------------------------------------------------------------------------
(* Every step is one of these.                                             *)

LEMMA MovesAgent ==
  ASSUME TypeOK, MemInv, AgentStep \/ AgentTimeout \/ Stop, UNCHANGED serverVars,
         UNCHANGED reread
  PROVE  MemInv' /\ (Stays \/ TakenSaved \/ TakenSent \/ Resent \/ Loses)
<1>1. LoopType /\ FdType /\ EndsType /\ ToServerType /\ TableType
  BY TypeParts
<1>2. UNCHANGED oldData /\ TableStays
  BY DEF serverVars, clientVars, tableVars, TableStays
<1>3. CASE SampleSaved
  <2>1. /\ pc = "sample" /\ pc' = "resend" /\ state # "Connected" /\ UNCHANGED toServer
        /\ taken < MaxSample /\ taken' = taken + 1 /\ queue' = Append(queue, taken')
        /\ UNCHANGED file
    BY <1>3 DEF SampleSaved, NewSample, netVars
  <2>2. Mem = queue /\ Mem' = queue'
    BY <2>1 DEF Mem, Down
  <2> QED BY <1>2, <2>1, <2>2 DEF TakenSaved, Taken, FileStays, MemInv, Down
<1>4. CASE Quiet /\ ~SampleSaved
  <2>1. /\ pc \in {"read", "connect", "sample", "resend", "apply"}
        /\ pc' \in {"sample", "resend", "apply", "connect", "saving"}
        /\ UNCHANGED toServer /\ UNCHANGED taken /\ UNCHANGED queue
        /\ UNCHANGED file \/ (file' = <<Junk>> /\ pc' = "saving")
    BY <1>4 DEF Quiet, ConnectSkipped, ReadNothing, Reading, SampleSkipped,
       NothingToResend, Apply, Stop, netVars
  <2>2. Mem = queue /\ Mem' = queue'
    BY <2>1 DEF Mem, Down
  <2> QED BY <1>2, <2>1, <2>2 DEF Stays, WayStays, FileStays, MemInv, Down
<1>5. CASE SampleUnsent
  <2>1. /\ pc = "sample" /\ pc' = "resend" /\ state = "Connected" /\ UNCHANGED toServer
        /\ taken < MaxSample /\ taken' = taken + 1 /\ UNCHANGED queue
        /\ UNCHANGED file /\ ~Alive(fd)
    BY <1>5 DEF SampleUnsent, NewSample, SendFails
  <2>2. Mem = queue /\ Mem' = queue'
    BY <2>1 DEF Mem, Down
  <2> QED BY <1>2, <2>1, <2>2 DEF TakenSent, Taken, Sends, FileStays, MemInv, Down
<1>6. CASE (Disconnects /\ ~SampleUnsent) \/ Gets
  <2>1. /\ pc \in {"reply", "read", "connect", "resend"} /\ pc' \in {"sample", "apply", "read"}
        /\ UNCHANGED toServer /\ UNCHANGED taken /\ UNCHANGED queue /\ UNCHANGED file
    <3>1. CASE Gets
      BY <3>1 DEF Gets, ReadReply, ReadPacket, Reading, WinReplyReset, netVars
    <3>2. CASE Disconnects /\ ~SampleUnsent
      BY <3>2 DEF Disconnects, ReplyLost, ReadEof, Reading, ResendFails, SendFails,
         ReplyTimeout, ConfigTimeout, ReadTimeout, WinReplyReset, ReadReply
    <3> QED BY <1>6, <3>1, <3>2
  <2>2. Mem = queue /\ Mem' = queue'
    BY <2>1 DEF Mem, Down
  <2> QED BY <1>2, <2>1, <2>2 DEF Stays, WayStays, FileStays, MemInv, Down
<1>7. CASE (CleanUp /\ pc \in {"reply", "read", "connect"}) \/ WinApply \/ WinRename
  <2>1. /\ pc \in {"reply", "read", "connect", "apply", "renaming"}
        /\ pc' \in {"sample", "renaming", "connect"}
        /\ UNCHANGED toServer /\ UNCHANGED taken /\ UNCHANGED queue /\ UNCHANGED file
    BY <1>7 DEF CleanUp, WinApply, WinRename, netVars
  <2>2. Mem = queue /\ Mem' = queue'
    BY <2>1 DEF Mem, Down
  <2> QED BY <1>2, <2>1, <2>2 DEF Stays, WayStays, FileStays, MemInv, Down
<1>8. CASE SampleSent
  <2>1. /\ pc = "sample" /\ pc' = "resend" /\ state = "Connected"
        /\ Sends(Msg("LIVE", taken'))
        /\ taken < MaxSample /\ taken' = taken + 1 /\ UNCHANGED queue /\ UNCHANGED file
    BY <1>8 DEF SampleSent, NewSample, Sent, Sends
  <2>2. Mem = queue /\ Mem' = queue'
    BY <2>1 DEF Mem, Down
  <2> QED BY <1>2, <2>1, <2>2 DEF TakenSent, Taken, FileStays, MemInv, Down
<1>9. CASE Resend
  <2>1. /\ pc = "resend" /\ pc' = "apply" /\ state = "Connected" /\ queue # <<>>
        /\ queue' = Tail(queue) /\ Sends(Msg("OLD", Head(queue)))
        /\ UNCHANGED taken /\ UNCHANGED file
    BY <1>9 DEF Resend, Sent, Sends
  <2>2. Mem = queue /\ Mem' = queue'
    BY <2>1 DEF Mem, Down
  <2> QED BY <1>2, <2>1, <2>2 DEF Resent, FileStays, MemInv, Down
<1>10. CASE Connect
  <2>1. PICK c \in Conn : toServer' = [toServer EXCEPT ![c] = <<Msg("AUTH", 0)>>]
    BY <1>10 DEF Connect
  <2>2. pc = "connect" /\ pc' = "reply" /\ UNCHANGED taken /\ UNCHANGED queue /\ UNCHANGED file
    BY <1>10 DEF Connect
  <2>3. Mem' = Mem
    BY <2>2 DEF Mem, Down
  <2>4. \A d \in Conn : WayLoses(d)
    BY <1>1, <2>1 DEF WayLoses, ToServerType
  <2> QED BY <1>2, <2>2, <2>3, <2>4 DEF Loses, AgentStays, FileStays, MemInv, Down
<1>11. CASE Saved
  <2>1. /\ pc = "saving" /\ pc' = "down" /\ file' = queue /\ queue' = <<>>
        /\ UNCHANGED taken /\ UNCHANGED toServer
    BY <1>11 DEF Saved, CloseAll
  <2>2. Mem = queue /\ Mem' = file'
    BY <2>1 DEF Mem, Down
  <2> QED BY <1>2, <2>1, <2>2 DEF Stays, WayStays, MemInv
<1>12. CASE StartUp \/ StartUpNoCount
  <2>1. /\ Down /\ pc' = "connect" /\ UNCHANGED file /\ UNCHANGED taken /\ UNCHANGED toServer
        /\ queue' = file \/ (file = <<Junk>> /\ queue' = <<>>)
    BY <1>12 DEF StartUp, StartUpNoCount, Starts, netVars
  <2>2. Mem = file /\ Mem' = queue' /\ pc # "saving"
    BY <2>1 DEF Mem, Down
  <2> QED BY <1>2, <2>1, <2>2 DEF Stays, WayStays, FileStays, MemInv, Down
<1>13. CASE AgentStep \/ AgentTimeout
  BY <1>3, <1>4, <1>5, <1>6, <1>7, <1>8, <1>9, <1>10, <1>11, <1>12, <1>13, AgentKinds
<1>14. CASE Stop
  BY <1>3, <1>4, <1>14 DEF Quiet
<1> QED BY <1>13, <1>14

LEMMA MovesCrash == ASSUME MemInv, AgentCrash PROVE MemInv' /\ Killed
<1>1. /\ ~Down /\ pc' = "killed" /\ queue' = <<>>
      /\ file' \in (IF pc = "saving" THEN Unfinished ELSE {file})
      /\ UNCHANGED taken /\ UNCHANGED toServer
  BY DEF AgentCrash, Crash, CloseAll
<1>2. Mem' = file'
  BY <1>1 DEF Mem, Down
<1>3. UNCHANGED oldData /\ TableStays
  BY DEF AgentCrash, serverVars, clientVars, tableVars, TableStays
<1>4. IF pc = "saving" THEN UNCHANGED reread ELSE reread' = reread \cup (Values(file) \cap Samples)
  BY DEF AgentCrash
<1> QED BY <1>1, <1>2, <1>3, <1>4 DEF Killed, WayStays, MemInv, AgentCrash

\* A step of the server leaves the agent's samples alone.
LEMMA ServerLeavesAgent ==
  ASSUME MemInv, UNCHANGED <<pc, taken, queue, file>>
  PROVE  MemInv' /\ AgentStays
BY DEF MemInv, AgentStays, Mem, Down, FileStays

LEMMA MovesServer ==
  ASSUME TypeOK, MemInv, TxnInv, NEW c \in Conn,
         \/ ServerStep(c) \/ Cut(c) \/ ServerDrops(c) \/ StoreFails(c) \/ CommitBusy(c)
  PROVE  MemInv' /\ (Loses \/ Inserts(c) \/ Gathers(c) \/ Stores(c))
<1>1. ToServerType /\ ClientType /\ TableType
  BY TypeParts
<1>2. UNCHANGED <<pc, taken, queue, file>> /\ UNCHANGED reread
  BY DEF ServerStep, ServerAuth, ServerLive, ServerOld, Receives, Flush, Flushed,
     ServerEof, DeleteClient, Cut, ServerDrops, StoreFails, CommitBusy, Fault,
     processVars, agentVars, loopVars, agentKeeps, budgetVars
<1>3. MemInv' /\ AgentStays
  BY <1>2, ServerLeavesAgent
<1>4. CASE ServerAuth(c)
  <2>1. /\ toServer[c] # <<>> /\ toServer' = [toServer EXCEPT ![c] = Tail(@)]
        /\ UNCHANGED oldData /\ TableStays
    BY <1>4 DEF ServerAuth, Receives, tableVars, TableStays
  <2>2. \A d \in Conn : WayLoses(d)
    BY <1>1, <2>1 DEF WayLoses, ToServerType
  <2> QED BY <1>2, <1>3, <2>1, <2>2 DEF Loses
<1>5. CASE ServerLive(c)
  <2>1. Inserts(c)
    BY <1>2, <1>3, <1>5 DEF ServerLive, Receives, Inserts, Takes, clientVars
  <2> QED BY <1>3, <2>1
<1>6. CASE ServerOld(c)
  <2>1. TableStays
    BY <1>6 DEF ServerOld, tableVars, TableStays
  <2>2. Gathers(c)
    BY <1>2, <1>3, <1>6, <2>1 DEF ServerOld, Receives, Gathers, Takes
  <2> QED BY <1>3, <2>2
<1>7. ASSUME Flushed(c), UNCHANGED tableVars PROVE Loses
  <2>1. UNCHANGED toServer /\ oldData' = [oldData EXCEPT ![c] = <<>>]
    BY <1>7 DEF Flushed, processVars, agentVars, netVars
  <2>2. \A d \in Conn : WayLoses(d) /\ oldData'[d] \in {oldData[d], <<>>}
    BY <1>1, <2>1 DEF WayLoses, ClientType
  <2> QED BY <1>2, <1>3, <1>7, <2>2 DEF Loses, tableVars, TableStays
<1>8. ASSUME Flushed(c), ~txn, records' = records \cup Values(oldData[c]),
             disk'.records \in {disk.records, records'}
      PROVE  Stores(c)
  <2>1. UNCHANGED toServer /\ oldData' = [oldData EXCEPT ![c] = <<>>]
    BY <1>8 DEF Flushed, processVars, agentVars, netVars
  <2> QED BY <1>2, <1>3, <1>8, <2>1 DEF Stores
<1>9. CASE Flush(c)
  <2>1. Flushed(c) /\ \E refused : insertRecords(oldData[c], refused)
    BY <1>9 DEF Flush
  <2>2. CASE UNCHANGED tableVars
    BY <1>3, <1>7, <2>1, <2>2
  <2>3. CASE ~txn /\ Write(records \cup Values(oldData[c]), row)
    <3>1. records' = records \cup Values(oldData[c]) /\ disk'.records = records'
      BY <2>3 DEF Write, InTable
    <3> QED BY <1>3, <1>8, <2>1, <2>3, <3>1
  <2> QED BY <2>1, <2>2, <2>3 DEF insertRecords
<1>10. CASE CommitBusy(c)
  <2>1. /\ Flushed(c) /\ ~txn /\ records' = records \cup Values(oldData[c])
        /\ disk'.records = disk.records
    BY <1>10 DEF CommitBusy, CommitFails
  <2> QED BY <1>3, <1>8, <2>1
<1>11. CASE ServerEof(c) \/ ServerDrops(c)
  <2>1. DeleteClient(c)
    BY <1>11 DEF ServerEof, ServerDrops
  <2>2. \A d \in Conn : WayLoses(d) /\ oldData'[d] \in {oldData[d], <<>>}
    BY <1>1, <2>1 DEF DeleteClient, WayLoses, ToServerType, ClientType
  <2> QED BY <1>2, <1>3, <2>1, <2>2 DEF Loses, DeleteClient, tableVars, TableStays
<1>12. CASE Cut(c)
  <2>1. \A d \in Conn : WayLoses(d)
    BY <1>1, <1>12 DEF Cut, WayLoses, ToServerType
  <2> QED BY <1>2, <1>3, <1>12, <2>1 DEF Loses, Cut, serverVars, clientVars, tableVars, TableStays
<1>13. CASE StoreFails(c)
  <2>1. UNCHANGED tableVars
    BY <1>13 DEF StoreFails
  <2>2. CASE Flushed(c)
    BY <1>3, <1>7, <2>1, <2>2
  <2>3. CASE ~Flushed(c)
    <3>1. /\ toServer[c] # <<>> /\ toServer' = [toServer EXCEPT ![c] = Tail(@)]
          /\ UNCHANGED oldData
      BY <1>13, <2>3 DEF StoreFails, clientVars
    <3>2. \A d \in Conn : WayLoses(d)
      BY <1>1, <3>1 DEF WayLoses, ToServerType
    <3> QED BY <1>2, <1>3, <2>1, <3>1, <3>2 DEF Loses, tableVars, TableStays
  <2> QED BY <2>2, <2>3
<1> QED BY <1>4, <1>5, <1>6, <1>9, <1>10, <1>11, <1>12, <1>13 DEF ServerStep

Moves ==
  \/ Stays \/ TakenSaved \/ TakenSent \/ Resent \/ Loses \/ Restarts
  \/ \E c \in Conn : Inserts(c) \/ Gathers(c) \/ Stores(c)

LEMMA MovesNext ==
  ASSUME TypeOK, MemInv, TxnInv, [Next]_vars
  PROVE  MemInv' /\ (Moves \/ (AgentCrash /\ Killed))
<1>1. CASE AgentRuns \/ Timeout \/ AgentStop
  BY <1>1, MovesAgent DEF AgentRuns, Timeout, AgentStop, Fault, budgetVars, Moves
<1>2. CASE AgentCrash
  BY <1>2, MovesCrash
<1>3. ASSUME NEW c \in Conn,
             \/ ServerStep(c) \/ Cut(c) \/ ServerDrops(c) \/ StoreFails(c) \/ CommitBusy(c)
      PROVE  MemInv' /\ Moves
  BY <1>3, MovesServer DEF Moves
<1>4. CASE Reconfigure \/ UNCHANGED vars
  <2>1. /\ UNCHANGED <<pc, taken, queue, file>> /\ UNCHANGED reread
        /\ UNCHANGED toServer /\ UNCHANGED oldData
    BY <1>4 DEF Reconfigure, agentKeeps, loopVars, clientVars, budgetVars, vars,
       processVars, agentVars, netVars, serverVars
  <2>2. MemInv' /\ AgentStays
    BY <2>1, ServerLeavesAgent
  <2>3. TableStays
    <3>1. CASE UNCHANGED vars
      BY <3>1 DEF vars, serverVars, tableVars, TableStays
    <3>2. CASE Reconfigure
      BY <3>2 DEF Reconfigure, updateAgent, Write, TxnInv, InTable, TableStays
    <3> QED BY <1>4, <3>1, <3>2
  <2> QED BY <2>1, <2>2, <2>3 DEF Stays, AgentStays, WayStays, Moves
<1>5. CASE ServerRestart
  <2>1. UNCHANGED <<pc, taken, queue, file>> /\ UNCHANGED reread
    BY <1>5 DEF ServerRestart, Fault, agentKeeps, loopVars
  <2>2. MemInv' /\ AgentStays
    BY <2>1, ServerLeavesAgent
  <2>3. Restarts
    BY <1>5, <2>1, <2>2 DEF ServerRestart, Restarts, Reopen
  <2> QED BY <2>2, <2>3 DEF Moves
<1> QED BY <1>1, <1>2, <1>3, <1>4, <1>5 DEF Next

-----------------------------------------------------------------------------
(* What a step does to the places of one sample.                           *)

\* The sample is at most once in each sequence.
Single(s) ==
  /\ Once(Mem, {s})
  /\ \A c \in Conn : Once(toServer[c], Of(s)) /\ Once(oldData[c], {s})

\* The sample stays where it is on the way and in the table.
WayKeeps(s) ==
  \A c \in Conn : /\ OnWay(s, c)' <=> OnWay(s, c)
                  /\ Waits(s, c)' <=> Waits(s, c)

LEMMA PlaceTypes ==
  ASSUME TypeOK
  PROVE  /\ Mem \in Batch /\ file \in Batch /\ queue \in Batch
         /\ \A c \in Conn : toServer[c] \in Seq(ToServer) /\ oldData[c] \in Batch
         /\ fd \in Conn \cup {NoConn} /\ (state # "NotConnected" => fd \in Conn)
<1>1. LoopType /\ FdType /\ ToServerType /\ ClientType
  BY TypeParts
<1> QED BY <1>1 DEF LoopType, FdType, ToServerType, ClientType, Mem

LEMMA WayStaysFlow ==
  ASSUME NEW s, WayStays
  PROVE  WayKeeps(s) /\ \A c \in Conn : /\ Once(toServer[c], Of(s))' <=> Once(toServer[c], Of(s))
                                        /\ Once(oldData[c], {s})' <=> Once(oldData[c], {s})
<1>1. toServer' = toServer /\ oldData' = oldData
  BY DEF WayStays
<1> QED BY <1>1 DEF WayKeeps, OnWay, Waits

LEMMA MemFlow ==
  ASSUME NEW s, Mem' = Mem
  PROVE  (InMem(s)' <=> InMem(s)) /\ (Once(Mem, {s})' <=> Once(Mem, {s}))
BY DEF InMem

LEMMA StaysFlow ==
  ASSUME NEW s, Stays
  PROVE  /\ WayKeeps(s) /\ (InMem(s)' => InMem(s)) /\ (s # Junk => (InMem(s)' <=> InMem(s)))
         /\ Single(s) => Single(s)'
         /\ UNCHANGED taken /\ TableStays /\ UNCHANGED reread
<1>1. WayStays /\ UNCHANGED taken /\ TableStays /\ UNCHANGED reread
  BY DEF Stays
<1>2. CASE Mem' = Mem
  BY <1>1, <1>2, WayStaysFlow, MemFlow DEF Single
<1>3. CASE Mem = <<Junk>> /\ Mem' = <<>>
  <2>1. ~InMem(s)' /\ Once(Mem, {s})'
    <3>1. ~Has(Mem', {s}) /\ Once(Mem', {s})
      BY <1>3, HasEmpty
    <3> QED BY <3>1 DEF InMem
  <2>2. InMem(s) <=> s = Junk
    BY <1>3, HasSingle DEF InMem
  <2> QED BY <1>1, <2>1, <2>2, WayStaysFlow DEF Single
<1> QED BY <1>1, <1>2, <1>3 DEF Stays

LEMMA TakenSavedFlow ==
  ASSUME TypeOK, NEW s, TakenSaved
  PROVE  /\ WayKeeps(s) /\ (InMem(s)' <=> InMem(s) \/ s = taken')
         /\ Single(s) /\ ~(InMem(s) /\ s = taken') => Single(s)'
<1>1. taken' \in Samples \cup {Junk} /\ Mem \in Batch /\ WayStays
  <2>1. LoopType
    BY TypeParts
  <2>2. taken' \in Samples
    BY <2>1, AgentAssumption DEF LoopType, TakenSaved, Taken, Samples
  <2> QED BY <2>2, PlaceTypes DEF TakenSaved, Taken, WayStays
<1>2. /\ Has(Append(Mem, taken'), {s}) <=> Has(Mem, {s}) \/ taken' \in {s}
      /\ Once(Mem, {s}) /\ ~(Has(Mem, {s}) /\ taken' \in {s}) => Once(Append(Mem, taken'), {s})
  <2> DEFINE V == Samples \cup {Junk}
             q == Mem
             x == taken'
  <2>1. q \in Seq(V) /\ x \in V
    BY <1>1 DEF Batch
  <2> HIDE DEF V, q, x
  <2>2. /\ Has(Append(q, x), {s}) <=> Has(q, {s}) \/ x \in {s}
        /\ Once(q, {s}) /\ ~(Has(q, {s}) /\ x \in {s}) => Once(Append(q, x), {s})
    BY <2>1, HasAppend
  <2> QED BY <2>2 DEF q, x
<1>3. Mem' = Append(Mem, taken')
  BY DEF TakenSaved
<1>4. InMem(s)' <=> InMem(s) \/ s = taken'
  BY <1>2, <1>3 DEF InMem
<1>5. Once(Mem, {s}) /\ ~(InMem(s) /\ s = taken') => Once(Mem, {s})'
  BY <1>2, <1>3 DEF InMem
<1> QED BY <1>1, <1>4, <1>5, WayStaysFlow DEF Single

LEMMA SendsFlow ==
  ASSUME TypeOK, NEW s, NEW m \in ToServer, m.type # "AUTH", state = "Connected",
         Sends(m), UNCHANGED oldData
  PROVE  /\ \A c \in Conn : OnWay(s, c)' <=> OnWay(s, c) \/ (c = fd /\ Alive(fd) /\ m.val = s)
         /\ \A c \in Conn : Waits(s, c)' <=> Waits(s, c)
         /\ \A c \in Conn : Once(oldData[c], {s})' <=> Once(oldData[c], {s})
         /\ \A c \in Conn : Once(toServer[c], Of(s)) /\ ~(m.val = s /\ OnWay(s, fd))
                            => Once(toServer[c], Of(s))'
<1>1. fd \in Conn
  BY PlaceTypes
<1>2. PICK d \in Conn : d = fd
  BY <1>1
<1>3. ToServerType
  BY TypeParts
<1>4. m \in Of(s) <=> m.val = s
  BY DEF Of
<1>5. /\ Has(Append(toServer[d], m), Of(s)) <=> Has(toServer[d], Of(s)) \/ m \in Of(s)
      /\ Once(toServer[d], Of(s)) /\ ~(Has(toServer[d], Of(s)) /\ m \in Of(s))
           => Once(Append(toServer[d], m), Of(s))
  <2>1. toServer[d] \in Seq(ToServer)
    BY <1>3 DEF ToServerType
  <2> HIDE DEF ToServer
  <2> QED BY <2>1, HasAppend
<1>6. \A c \in Conn : toServer'[c] = IF c = d /\ Alive(d) THEN Append(toServer[c], m) ELSE toServer[c]
  BY <1>2, <1>3 DEF Sends, ToServerType
<1>7. oldData' = oldData
  OBVIOUS
<1>8. ASSUME NEW c \in Conn
      PROVE  /\ OnWay(s, c)' <=> OnWay(s, c) \/ (c = d /\ Alive(d) /\ m.val = s)
             /\ Once(toServer[c], Of(s)) /\ ~(m.val = s /\ OnWay(s, d)) => Once(toServer[c], Of(s))'
  <2>1. CASE c = d /\ Alive(d)
    <3>1. toServer'[c] = Append(toServer[d], m)
      BY <1>6, <2>1
    <3> QED BY <1>4, <1>5, <2>1, <3>1 DEF OnWay
  <2>2. CASE ~(c = d /\ Alive(d))
    <3>1. toServer'[c] = toServer[c]
      BY <1>6, <2>2
    <3> QED BY <2>2, <3>1 DEF OnWay
  <2> QED BY <2>1, <2>2
<1> QED BY <1>2, <1>7, <1>8 DEF Waits

LEMMA TakenSentFlow ==
  ASSUME TypeOK, NEW s, TakenSent
  PROVE  /\ InMem(s)' <=> InMem(s)
         /\ \A c \in Conn : OnWay(s, c)' <=> OnWay(s, c) \/ (c = fd /\ Alive(fd) /\ s = taken')
         /\ \A c \in Conn : Waits(s, c)' <=> Waits(s, c)
         /\ Single(s) /\ ~(s = taken' /\ OnWay(s, fd)) => Single(s)'
<1>1. Msg("LIVE", taken') \in ToServer
  <2>1. LoopType
    BY TypeParts
  <2>2. taken' \in Samples
    BY <2>1, AgentAssumption DEF LoopType, TakenSent, Taken, Samples
  <2> QED BY <2>2, MsgTypes
<1>2. Msg("LIVE", taken').type # "AUTH" /\ Msg("LIVE", taken').val = taken'
  BY DEF Msg
<1>3. Sends(Msg("LIVE", taken')) /\ state = "Connected" /\ UNCHANGED oldData /\ Mem' = Mem
  BY DEF TakenSent, Taken
<1>4. PICK m \in ToServer : m = Msg("LIVE", taken')
  BY <1>1
<1>5. m.type # "AUTH" /\ m.val = taken' /\ Sends(m)
  BY <1>2, <1>3, <1>4
<1>6. (InMem(s)' <=> InMem(s)) /\ (Once(Mem, {s})' <=> Once(Mem, {s}))
  BY <1>3, MemFlow
<1>7. /\ \A c \in Conn : OnWay(s, c)' <=> OnWay(s, c) \/ (c = fd /\ Alive(fd) /\ m.val = s)
      /\ \A c \in Conn : Waits(s, c)' <=> Waits(s, c)
      /\ \A c \in Conn : Once(oldData[c], {s})' <=> Once(oldData[c], {s})
      /\ \A c \in Conn : Once(toServer[c], Of(s)) /\ ~(m.val = s /\ OnWay(s, fd))
                         => Once(toServer[c], Of(s))'
  BY <1>3, <1>5, SendsFlow
<1>8. Single(s) /\ ~(s = taken' /\ OnWay(s, fd)) => Single(s)'
  BY <1>5, <1>6, <1>7 DEF Single
<1> QED BY <1>5, <1>6, <1>7, <1>8

LEMMA ResentFlow ==
  ASSUME TypeOK, NEW s, Resent
  PROVE  /\ InMem(s) <=> s = Head(Mem) \/ InMem(s)'
         /\ Once(Mem, {s}) /\ s = Head(Mem) => ~InMem(s)'
         /\ \A c \in Conn : OnWay(s, c)' <=> OnWay(s, c) \/ (c = fd /\ Alive(fd) /\ s = Head(Mem))
         /\ \A c \in Conn : Waits(s, c)' <=> Waits(s, c)
         /\ Single(s) /\ ~(s = Head(Mem) /\ OnWay(s, fd)) => Single(s)'
<1> DEFINE x == Head(Mem)
<1>1. Mem \in Seq(Samples \cup {Junk}) /\ Mem # <<>>
  BY PlaceTypes DEF Batch, Resent
<1>2. x \in Samples \cup {Junk}
  BY <1>1, HeadTailProperties
<1>3. PICK m \in ToServer : m = Msg("OLD", x)
  BY <1>2, MsgTypes
<1>4. /\ m.type # "AUTH" /\ m.val = x /\ Sends(m) /\ state = "Connected"
      /\ UNCHANGED oldData /\ Mem' = Tail(Mem)
  BY <1>3 DEF Msg, Resent
<1>5. /\ Has(Mem, {s}) <=> x \in {s} \/ Has(Tail(Mem), {s})
      /\ Once(Mem, {s}) => Once(Tail(Mem), {s})
      /\ Once(Mem, {s}) /\ x \in {s} => ~Has(Tail(Mem), {s})
  BY <1>1, HasTail
<1>6. /\ InMem(s) <=> s = x \/ InMem(s)'
      /\ Once(Mem, {s}) => Once(Mem, {s})'
      /\ Once(Mem, {s}) /\ s = x => ~InMem(s)'
  BY <1>4, <1>5 DEF InMem
<1>7. /\ \A c \in Conn : OnWay(s, c)' <=> OnWay(s, c) \/ (c = fd /\ Alive(fd) /\ m.val = s)
      /\ \A c \in Conn : Waits(s, c)' <=> Waits(s, c)
      /\ \A c \in Conn : Once(oldData[c], {s})' <=> Once(oldData[c], {s})
      /\ \A c \in Conn : Once(toServer[c], Of(s)) /\ ~(m.val = s /\ OnWay(s, fd))
                         => Once(toServer[c], Of(s))'
  BY <1>4, SendsFlow
<1>8. Single(s) /\ ~(s = x /\ OnWay(s, fd)) => Single(s)'
  BY <1>4, <1>6, <1>7 DEF Single
<1> QED BY <1>4, <1>6, <1>7, <1>8

LEMMA UnfinishedFlow ==
  ASSUME queue \in Batch, NEW q \in Unfinished, NEW s \in Samples
  PROVE  (Has(q, {s}) => Has(queue, {s})) /\ (Once(queue, {s}) => Once(q, {s}))
<1>1. s # Junk
  BY DEF Samples, Junk
<1>2. CASE q = <<Junk>>
  BY <1>1, <1>2, HasSingle
<1>3. ASSUME NEW k \in 0..Len(queue),
             q = [i \in 1..Len(queue) |-> IF i <= k THEN queue[i] ELSE Junk]
      PROVE  (Has(q, {s}) => Has(queue, {s})) /\ (Once(queue, {s}) => Once(q, {s}))
  <2>1. DOMAIN q = DOMAIN queue /\ \A i \in DOMAIN queue : q[i] = queue[i] \/ q[i] = Junk
    BY <1>3 DEF Batch
  <2>2. \A i \in DOMAIN q : q[i] \in {s} => i \in DOMAIN queue /\ queue[i] \in {s}
    BY <1>1, <2>1
  <2> QED BY <2>2, Zenon DEF Has, Once
<1>4. q = <<Junk>> \/ \E k \in 0..Len(queue) :
        q = [i \in 1..Len(queue) |-> IF i <= k THEN queue[i] ELSE Junk]
  BY Zenon DEF Unfinished
<1> QED BY <1>2, <1>3, <1>4

\* The agent was killed: it has again what it had written, and less.
LEMMA KilledFlow ==
  ASSUME TypeOK, NEW s \in Samples, Killed
  PROVE  /\ WayKeeps(s) /\ (InMem(s)' => InMem(s) \/ s \in reread')
         /\ Single(s) /\ s \notin reread' => Single(s)'
         /\ UNCHANGED taken /\ TableStays
<1>1. WayStays /\ UNCHANGED taken /\ TableStays /\ queue \in Batch /\ Mem = queue
  BY PlaceTypes DEF Killed, Mem
<1>2. CASE pc = "saving"
  <2>1. Mem' \in Unfinished
    BY <1>2 DEF Killed
  <2>2. (InMem(s)' => InMem(s)) /\ (Once(Mem, {s}) => Once(Mem, {s})')
    <3>1. PICK q \in Unfinished : q = Mem'
      BY <2>1
    <3>2. (Has(q, {s}) => Has(queue, {s})) /\ (Once(queue, {s}) => Once(q, {s}))
      BY <1>1, UnfinishedFlow
    <3> QED BY <1>1, <3>1, <3>2 DEF InMem
  <2> QED BY <1>1, <2>2, WayStaysFlow DEF Single
<1>3. CASE pc # "saving"
  <2>1. Mem' = file /\ reread' = reread \cup (Values(file) \cap Samples)
    BY <1>3 DEF Killed
  <2>2. InMem(s)' <=> Has(file, {s})
    BY <2>1 DEF InMem
  <2>3. Has(file, {s}) => s \in reread'
    BY <2>1, HasValues
  <2>4. ~Has(file, {s}) => Once(Mem, {s})'
    BY <2>1 DEF Has, Once
  <2> QED BY <1>1, <2>2, <2>3, <2>4, WayStaysFlow DEF Single
<1> QED BY <1>2, <1>3

LEMMA LosesFlow ==
  ASSUME TypeOK, NEW s, Loses
  PROVE  /\ InMem(s)' <=> InMem(s)
         /\ \A c \in Conn : (OnWay(s, c)' => OnWay(s, c)) /\ (Waits(s, c)' => Waits(s, c))
         /\ Single(s) => Single(s)'
         /\ UNCHANGED taken /\ TableStays /\ UNCHANGED reread
<1>1. Mem' = Mem /\ UNCHANGED taken /\ TableStays /\ UNCHANGED reread
  BY DEF Loses, AgentStays
<1>2. ASSUME NEW c \in Conn
      PROVE  /\ OnWay(s, c)' => OnWay(s, c)
             /\ Once(toServer[c], Of(s)) => Once(toServer[c], Of(s))'
  <2>1. toServer[c] \in Seq(ToServer) /\ WayLoses(c)
    BY <1>2, PlaceTypes DEF Loses
  <2>2. CASE toServer'[c] = toServer[c]
    BY <2>2 DEF OnWay
  <2>3. CASE toServer'[c] = <<>>
    <3>1. ~Has(toServer'[c], Of(s)) /\ Once(toServer'[c], Of(s))
      BY <2>3, HasEmpty
    <3> QED BY <3>1 DEF OnWay
  <2>4. CASE toServer'[c] = <<Msg("AUTH", 0)>>
    <3>1. Msg("AUTH", 0) \notin Of(s)
      BY DEF Of, Msg
    <3>2. ~Has(toServer'[c], Of(s)) /\ Once(toServer'[c], Of(s))
      BY <2>4, <3>1, HasSingle
    <3> QED BY <3>2 DEF OnWay
  <2>5. CASE toServer[c] # <<>> /\ toServer'[c] = Tail(toServer[c])
    <3>1. /\ Has(Tail(toServer[c]), Of(s)) => Has(toServer[c], Of(s))
          /\ Once(toServer[c], Of(s)) => Once(Tail(toServer[c]), Of(s))
      BY <2>1, <2>5, HasTail
    <3> QED BY <2>5, <3>1 DEF OnWay
  <2> QED BY <2>1, <2>2, <2>3, <2>4, <2>5 DEF WayLoses
<1>3. ASSUME NEW c \in Conn
      PROVE  /\ Waits(s, c)' => Waits(s, c)
             /\ Once(oldData[c], {s}) => Once(oldData[c], {s})'
  <2>1. CASE oldData'[c] = oldData[c]
    BY <2>1 DEF Waits
  <2>2. CASE oldData'[c] = <<>>
    <3>1. ~Has(oldData'[c], {s}) /\ Once(oldData'[c], {s})
      BY <2>2, HasEmpty
    <3> QED BY <3>1 DEF Waits
  <2> QED BY <1>3, <2>1, <2>2 DEF Loses
<1>4. Single(s) => Single(s)'
  BY <1>1, <1>2, <1>3, MemFlow DEF Single
<1> QED BY <1>1, <1>2, <1>3, <1>4, MemFlow

LEMMA TakesFlow ==
  ASSUME TypeOK, NEW s, NEW c \in Conn, Takes(c)
  PROVE  /\ (InMem(s)' <=> InMem(s)) /\ (Once(Mem, {s})' <=> Once(Mem, {s}))
         /\ \A d \in Conn : OnWay(s, d) <=> (d = c /\ s = Head(toServer[c]).val) \/ OnWay(s, d)'
         /\ Once(toServer[c], Of(s)) /\ s = Head(toServer[c]).val => ~OnWay(s, c)'
         /\ \A d \in Conn : Once(toServer[d], Of(s)) => Once(toServer[d], Of(s))'
         /\ Head(toServer[c]).val \in Samples \cup {Junk}
         /\ UNCHANGED taken /\ UNCHANGED reread
<1> DEFINE q == toServer[c]
<1>1. q \in Seq(ToServer) /\ q # <<>> /\ ToServerType
  BY PlaceTypes, TypeParts DEF Takes
<1>2. Head(q) \in ToServer /\ Head(q).type # "AUTH" /\ Head(q).val \in Samples \cup {Junk}
  <2>1. Head(q) \in ToServer
    BY <1>1, HeadTailProperties
  <2> QED BY <2>1 DEF Takes, ToServer
<1>3. Head(q) \in Of(s) <=> s = Head(q).val
  BY <1>2 DEF Of
<1>4. /\ Has(q, Of(s)) <=> Head(q) \in Of(s) \/ Has(Tail(q), Of(s))
      /\ Once(q, Of(s)) => Once(Tail(q), Of(s))
      /\ Once(q, Of(s)) /\ Head(q) \in Of(s) => ~Has(Tail(q), Of(s))
  BY <1>1, HasTail
<1>5. \A d \in Conn : toServer'[d] = IF d = c THEN Tail(q) ELSE toServer[d]
  BY <1>1 DEF Takes, ToServerType
<1>6. Mem' = Mem /\ UNCHANGED taken /\ UNCHANGED reread
  BY DEF Takes, AgentStays
<1>7. ASSUME NEW d \in Conn
      PROVE  /\ OnWay(s, d) <=> (d = c /\ s = Head(q).val) \/ OnWay(s, d)'
             /\ Once(toServer[d], Of(s)) => Once(toServer[d], Of(s))'
  <2>1. CASE d = c
    <3>1. toServer'[d] = Tail(q) /\ toServer[d] = q
      BY <1>5, <2>1
    <3> QED BY <1>3, <1>4, <2>1, <3>1 DEF OnWay
  <2>2. CASE d # c
    <3>1. toServer'[d] = toServer[d]
      BY <1>5, <2>2
    <3> QED BY <2>2, <3>1 DEF OnWay
  <2> QED BY <2>1, <2>2
<1>8. Once(q, Of(s)) /\ s = Head(q).val => ~OnWay(s, c)'
  <2>1. toServer'[c] = Tail(q)
    BY <1>5
  <2> QED BY <1>3, <1>4, <2>1 DEF OnWay
<1> QED BY <1>2, <1>6, <1>7, <1>8, MemFlow

LEMMA InsertsFlow ==
  ASSUME TypeOK, TxnInv, NEW s, NEW c \in Conn, Inserts(c)
  PROVE  /\ \A d \in Conn : Waits(s, d)' <=> Waits(s, d)
         /\ Single(s) => Single(s)'
         /\ \/ TableStays
            \/ /\ records' = records \cup {Head(toServer[c]).val}
               /\ disk'.records \in {disk.records, disk.records \cup {Head(toServer[c]).val}}
<1>1. Takes(c) /\ oldData' = oldData
  BY DEF Inserts
<1>2. \A d \in Conn : /\ Waits(s, d)' <=> Waits(s, d)
                      /\ Once(oldData[d], {s})' <=> Once(oldData[d], {s})
  BY <1>1 DEF Waits
<1>3. Single(s) => Single(s)'
  BY <1>1, <1>2, TakesFlow DEF Single
<1>4. PICK refused : insertRecord(Head(toServer[c]).val, refused)
  BY DEF Inserts
<1>5. ~txn => disk.records = records
  BY DEF TxnInv, InTable
<1>6. \/ TableStays
      \/ /\ records' = records \cup {Head(toServer[c]).val}
         /\ disk'.records \in {disk.records, disk.records \cup {Head(toServer[c]).val}}
  BY <1>4, <1>5 DEF insertRecord, Write, InTable, TableStays
<1> QED BY <1>2, <1>3, <1>6

LEMMA GathersFlow ==
  ASSUME TypeOK, NEW s, NEW c \in Conn, Gathers(c)
  PROVE  /\ \A d \in Conn : Waits(s, d)' <=> Waits(s, d) \/ (d = c /\ s = Head(toServer[c]).val)
         /\ Single(s) /\ ~(s = Head(toServer[c]).val /\ Waits(s, c)) => Single(s)'
         /\ TableStays
<1> DEFINE q == oldData[c]
           v == Head(toServer[c]).val
<1>1. Takes(c) /\ TableStays /\ oldData' = [oldData EXCEPT ![c] = Append(@, v)]
  BY DEF Gathers
<1>2. q \in Seq(Samples \cup {Junk}) /\ v \in Samples \cup {Junk}
  BY <1>1, PlaceTypes, TakesFlow DEF Batch
<1>3. /\ Has(Append(q, v), {s}) <=> Has(q, {s}) \/ v \in {s}
      /\ Once(q, {s}) /\ ~(Has(q, {s}) /\ v \in {s}) => Once(Append(q, v), {s})
  BY <1>2, HasAppend
<1>4. \A d \in Conn : oldData'[d] = IF d = c THEN Append(q, v) ELSE oldData[d]
  <2>1. ClientType
    BY TypeParts
  <2> QED BY <1>1, <2>1 DEF ClientType
<1>5. ASSUME NEW d \in Conn
      PROVE  /\ Waits(s, d)' <=> Waits(s, d) \/ (d = c /\ s = v)
             /\ Once(oldData[d], {s}) /\ ~(s = v /\ Waits(s, c)) => Once(oldData[d], {s})'
  <2>1. CASE d = c
    <3>1. oldData'[d] = Append(q, v) /\ oldData[d] = q
      BY <1>4, <2>1
    <3> QED BY <1>3, <2>1, <3>1 DEF Waits
  <2>2. CASE d # c
    <3>1. oldData'[d] = oldData[d]
      BY <1>4, <2>2
    <3> QED BY <2>2, <3>1 DEF Waits
  <2> QED BY <2>1, <2>2
<1>6. Single(s) /\ ~(s = v /\ Waits(s, c)) => Single(s)'
  BY <1>1, <1>5, TakesFlow DEF Single
<1> QED BY <1>1, <1>5, <1>6

LEMMA StoresFlow ==
  ASSUME TypeOK, TxnInv, NEW s, NEW c \in Conn, Stores(c)
  PROVE  /\ InMem(s)' <=> InMem(s)
         /\ \A d \in Conn : OnWay(s, d)' <=> OnWay(s, d)
         /\ \A d \in Conn : Waits(s, d)' <=> d # c /\ Waits(s, d)
         /\ Single(s) => Single(s)'
         /\ s \in records' <=> s \in records \/ Waits(s, c)
         /\ disk'.records \in {disk.records, records'} /\ records = disk.records
         /\ UNCHANGED taken /\ UNCHANGED reread
<1>1. /\ Mem' = Mem /\ UNCHANGED taken /\ UNCHANGED reread /\ toServer' = toServer
      /\ ~txn /\ records' = records \cup Values(oldData[c])
      /\ disk'.records \in {disk.records, records'}
  BY DEF Stores, AgentStays
<1>2. \A d \in Conn : oldData'[d] = IF d = c THEN <<>> ELSE oldData[d]
  <2>1. ClientType
    BY TypeParts
  <2> QED BY <2>1 DEF ClientType, Stores
<1>3. ASSUME NEW d \in Conn
      PROVE  /\ Waits(s, d)' <=> d # c /\ Waits(s, d)
             /\ Once(oldData[d], {s}) => Once(oldData[d], {s})'
  <2>1. CASE d = c
    <3>1. oldData'[d] = <<>>
      BY <1>2, <2>1
    <3>2. ~Has(oldData'[d], {s}) /\ Once(oldData'[d], {s})
      BY <3>1, HasEmpty
    <3> QED BY <2>1, <3>2 DEF Waits
  <2>2. CASE d # c
    <3>1. oldData'[d] = oldData[d]
      BY <1>2, <2>2
    <3> QED BY <2>2, <3>1 DEF Waits
  <2> QED BY <2>1, <2>2
<1>4. \A d \in Conn : /\ OnWay(s, d)' <=> OnWay(s, d)
                      /\ Once(toServer[d], Of(s))' <=> Once(toServer[d], Of(s))
  BY <1>1 DEF OnWay
<1>5. Single(s) => Single(s)'
  BY <1>1, <1>3, <1>4, MemFlow DEF Single
<1>6. s \in records' <=> s \in records \/ Waits(s, c)
  BY <1>1, HasValues DEF Waits
<1>7. records = disk.records
  BY <1>1 DEF TxnInv, InTable
<1> QED BY <1>1, <1>3, <1>4, <1>5, <1>6, <1>7, MemFlow

LEMMA RestartsFlow ==
  ASSUME NEW s, Restarts
  PROVE  /\ InMem(s)' <=> InMem(s)
         /\ \A c \in Conn : ~OnWay(s, c)' /\ ~Waits(s, c)'
         /\ Single(s) => Single(s)'
         /\ records' = disk.records /\ disk'.records = disk.records
         /\ UNCHANGED taken /\ UNCHANGED reread
<1>1. /\ Mem' = Mem /\ UNCHANGED taken /\ UNCHANGED reread
      /\ records' = disk.records /\ disk'.records = disk.records
  BY DEF Restarts, AgentStays
<1>2. ASSUME NEW c \in Conn
      PROVE  /\ ~OnWay(s, c)' /\ ~Waits(s, c)'
             /\ Once(toServer[c], Of(s))' /\ Once(oldData[c], {s})'
  <2>1. toServer'[c] = <<>> /\ oldData'[c] = <<>>
    BY DEF Restarts
  <2>2. /\ ~Has(toServer'[c], Of(s)) /\ Once(toServer'[c], Of(s))
        /\ ~Has(oldData'[c], {s}) /\ Once(oldData'[c], {s})
    BY <2>1, HasEmpty
  <2> QED BY <2>2 DEF OnWay, Waits
<1>3. Single(s) => Single(s)'
  BY <1>1, <1>2, MemFlow DEF Single
<1> QED BY <1>1, <1>2, <1>3, MemFlow

-----------------------------------------------------------------------------
(* A sample that was not taken yet is nowhere.                             *)

Nowhere(s) ==
  /\ ~InMem(s) /\ s \notin records
  /\ \A c \in Conn : ~OnWay(s, c) /\ ~Waits(s, c)

\* It is not in olddata either, and was not read from there.
FreshInv ==
  \A s \in Samples : s > taken => Nowhere(s) /\ ~Has(file, {s}) /\ s \notin reread

\* What olddata holds was there, or was in the queue, or is no sample.
LEMMA FileFlow ==
  ASSUME NEW s \in Samples, Moves \/ Killed, Has(file, {s})'
  PROVE  Has(file, {s}) \/ InMem(s) \/ InMem(s)'
<1>1. UNCHANGED file \/ file' = Mem \/ file' = Mem' \/ file' = <<Junk>>
  <2>1. CASE FileStays \/ Killed
    BY <2>1 DEF FileStays, Killed
  <2>2. CASE Stays
    BY <2>2 DEF Stays, FileStays
  <2> QED BY <2>1, <2>2 DEF Moves, TakenSaved, TakenSent, Taken, Resent, Loses, Inserts,
         Gathers, Takes, Stores, Restarts, AgentStays
<1>2. ~Has(<<Junk>>, {s})
  BY HasSingle DEF Samples, Junk
<1> QED BY <1>1, <1>2 DEF InMem

LEMMA NowhereNext ==
  ASSUME TypeOK, TxnInv, NEW s, Moves \/ (Killed /\ s \in Samples), Nowhere(s),
         taken' = taken + 1 => s # taken', Killed => s \notin reread'
  PROVE  Nowhere(s)'
<1>1. CASE Stays
  BY <1>1, StaysFlow DEF WayKeeps, Nowhere, TableStays
<1>2. CASE TakenSaved
  BY <1>2, TakenSavedFlow DEF WayKeeps, Nowhere, TakenSaved, Taken, TableStays
<1>3. CASE TakenSent
  BY <1>3, TakenSentFlow DEF Nowhere, TakenSent, Taken, TableStays
<1>4. CASE Resent
  BY <1>4, ResentFlow DEF Nowhere, Resent, TableStays
<1>5. CASE Loses
  BY <1>5, LosesFlow DEF Nowhere, TableStays
<1>6. CASE Restarts
  <2>1. disk.records \subseteq records
    BY TypeParts DEF TableType
  <2> QED BY <1>6, <2>1, RestartsFlow DEF Nowhere
<1>7. ASSUME NEW c \in Conn, Inserts(c) PROVE Nowhere(s)'
  <2>1. Takes(c)
    BY <1>7 DEF Inserts
  <2>2. ~InMem(s)' /\ s # Head(toServer[c]).val /\ \A d \in Conn : ~OnWay(s, d)'
    BY <2>1, TakesFlow DEF Nowhere
  <2>3. s \notin records' /\ \A d \in Conn : ~Waits(s, d)'
    BY <1>7, <2>2, InsertsFlow DEF Nowhere, TableStays
  <2> QED BY <2>2, <2>3 DEF Nowhere
<1>8. ASSUME NEW c \in Conn, Gathers(c) PROVE Nowhere(s)'
  <2>1. Takes(c)
    BY <1>8 DEF Gathers
  <2> QED BY <1>8, <2>1, TakesFlow, GathersFlow DEF Nowhere, TableStays
<1>9. ASSUME NEW c \in Conn, Stores(c) PROVE Nowhere(s)'
  BY <1>9, StoresFlow DEF Nowhere
<1>10. CASE Killed /\ s \in Samples
  BY <1>10, KilledFlow DEF WayKeeps, Nowhere, TableStays
<1> QED BY <1>1, <1>2, <1>3, <1>4, <1>5, <1>6, <1>7, <1>8, <1>9, <1>10 DEF Moves

\* Samples are counted up, and what is read again was in olddata.
LEMMA CountFlow ==
  ASSUME TypeOK, Moves \/ Killed
  PROVE  /\ taken' = taken \/ (taken' = taken + 1 /\ taken' \in Samples)
         /\ reread' \subseteq reread \cup {s \in Samples : Has(file, {s})}
         /\ reread \subseteq reread'
<1>1. taken' = taken \/ (taken' = taken + 1 /\ taken' \in Samples)
  <2>1. LoopType
    BY TypeParts
  <2>2. taken' = taken \/ (taken' = taken + 1 /\ taken < MaxSample)
    BY DEF Moves, Stays, TakenSaved, TakenSent, Taken, Resent, Killed, Loses, Inserts,
       Gathers, Takes, Stores, Restarts, AgentStays
  <2> QED BY <2>1, <2>2, AgentAssumption DEF LoopType, Samples
<1>2. reread' = reread \/ reread' = reread \cup (Values(file) \cap Samples)
  BY DEF Moves, Stays, TakenSaved, TakenSent, Taken, Resent, Killed, Loses, Inserts,
     Gathers, Takes, Stores, Restarts, AgentStays
<1>3. \A s \in Values(file) : Has(file, {s})
  BY HasValues
<1> QED BY <1>1, <1>2, <1>3

LEMMA FreshNext ==
  ASSUME TypeOK, TxnInv, FreshInv, Moves \/ Killed
  PROVE  FreshInv'
<1>1. SUFFICES ASSUME NEW s \in Samples, s > taken'
               PROVE  Nowhere(s)' /\ ~Has(file, {s})' /\ s \notin reread'
  BY DEF FreshInv
<1>2. s > taken /\ s # taken'
  <2>1. taken \in Nat
    BY TypeParts, AgentAssumption DEF LoopType
  <2> QED BY <1>1, <2>1, CountFlow DEF Samples
<1>3. Nowhere(s) /\ ~Has(file, {s}) /\ s \notin reread
  BY <1>2 DEF FreshInv
<1>4. s \notin reread'
  BY <1>3, CountFlow
<1>5. Nowhere(s)'
  BY <1>2, <1>3, <1>4, NowhereNext
<1>6. ~Has(file, {s})'
  BY <1>3, <1>5, FileFlow DEF Nowhere
<1> QED BY <1>4, <1>5, <1>6

-----------------------------------------------------------------------------
(* What is no sample.                                                      *)

\* Junk is nowhere before the first kill, and in olddata only half-way through
\* writing it.
GenuineInv ==
  crashes = 0 => Nowhere(Junk) /\ (Has(file, {Junk}) => pc = "saving")

LEMMA CrashesFlow ==
  ASSUME [Next]_vars, ~AgentCrash
  PROVE  UNCHANGED crashes
<1>1. CASE AgentRuns \/ Reconfigure \/ ServerRestart \/ Timeout \/ AgentStop \/ UNCHANGED vars
  BY <1>1 DEF AgentRuns, Reconfigure, ServerRestart, Timeout, AgentStop, Fault, budgetVars, vars
<1>2. ASSUME NEW c \in Conn,
             \/ ServerStep(c) \/ Cut(c) \/ ServerDrops(c) \/ StoreFails(c) \/ CommitBusy(c)
      PROVE  UNCHANGED crashes
  BY <1>2 DEF ServerStep, ServerAuth, ServerLive, ServerOld, Receives, Flush, ServerEof,
     Cut, ServerDrops, StoreFails, CommitBusy, Fault, budgetVars
<1> QED BY <1>1, <1>2 DEF Next

LEMMA GenuineNext ==
  ASSUME TypeOK, MemInv, TxnInv, GenuineInv, [Next]_vars
  PROVE  GenuineInv'
<1>1. CASE AgentCrash
  <2>1. crashes' = crashes + 1 /\ crashes \in Nat
    BY <1>1, TypeParts, PipelineAssumption DEF AgentCrash, BudgetType
  <2> QED BY <2>1 DEF GenuineInv
<1>2. CASE ~AgentCrash
  <2>1. Moves /\ UNCHANGED crashes
    BY <1>2, MovesNext, CrashesFlow
  <2>2. SUFFICES ASSUME Nowhere(Junk), Has(file, {Junk}) => pc = "saving"
                 PROVE  Nowhere(Junk)' /\ (Has(file, {Junk})' => pc' = "saving")
    BY <2>1 DEF GenuineInv
  <2>3. taken' = taken + 1 => taken' # Junk
    BY TypeParts, AgentAssumption DEF LoopType, Junk
  <2>4. ~Killed
    <3>1. crashes \in Nat
      BY TypeParts, PipelineAssumption DEF BudgetType
    <3> QED BY <2>1, <3>1 DEF Killed
  <2>5. Nowhere(Junk)'
    BY <2>1, <2>2, <2>3, <2>4, NowhereNext
  <2>6. Has(file, {Junk})' => pc' = "saving"
    <3>1. CASE FileStays
      BY <2>2, <3>1 DEF FileStays
    <3>2. CASE Stays
      BY <2>2, <3>1, <3>2 DEF Stays, Nowhere, InMem
    <3> QED BY <2>1, <3>1, <3>2 DEF Moves, TakenSaved, TakenSent, Taken, Resent, Loses,
           Inserts, Gathers, Takes, Stores, Restarts, AgentStays
  <2> QED BY <2>5, <2>6
<1> QED BY <1>1, <1>2

\* Bytes the agent did not read as samples reach the table only if it was
\* killed, and wrote olddata when it was (agent_lin/main.cpp:91-100).
THEOREM GenuineCorrect == Spec => []Genuine
<1>1. ASSUME Init PROVE MemInv /\ GenuineInv
  <2>1. pc = "connect" /\ queue = <<>> /\ file = <<>> /\ records = {}
    BY <1>1 DEF Init, AgentInit
  <2>2. MemInv /\ Mem = <<>>
    BY <2>1 DEF MemInv, Mem, Down
  <2>3. \A c \in Conn : toServer[c] = <<>> /\ oldData[c] = <<>>
    BY <1>1 DEF Init, AgentInit
  <2> QED BY <2>1, <2>2, <2>3, HasEmpty DEF GenuineInv, Nowhere, InMem, OnWay, Waits
<1>2. TypeOK /\ TxnInv /\ MemInv /\ GenuineInv /\ [Next]_vars => MemInv' /\ GenuineInv'
  BY MovesNext, GenuineNext
<1>3. TypeOK /\ GenuineInv => Genuine
  <2>1. TypeOK => crashes \in Nat
    BY TypeParts, PipelineAssumption DEF BudgetType
  <2> QED BY <2>1 DEF GenuineInv, Nowhere, Genuine
<1> QED BY <1>1, <1>2, <1>3, TypeCorrect, TablesHold, PTL DEF Spec

-----------------------------------------------------------------------------
(* A sample is in one place, once.                                         *)

\* The memory of the agent, the connections, the server's objects and the table
\* exclude each other.
Alone(s) ==
  /\ InMem(s) => s \notin records /\ \A c \in Conn : ~OnWay(s, c) /\ ~Waits(s, c)
  /\ \A c \in Conn : OnWay(s, c) =>
       s \notin records /\ \A d \in Conn : ~Waits(s, d) /\ (OnWay(s, d) => d = c)
  /\ \A c \in Conn : Waits(s, c) =>
       s \notin records /\ \A d \in Conn : Waits(s, d) => d = c

\* What was not read from olddata by an agent that was killed is in one place.
OneInv == \A s \in Samples \ reread : Single(s) /\ Alone(s)

LEMMA AloneNext ==
  ASSUME TypeOK, TxnInv, Moves \/ Killed, NEW s \in Samples, Single(s), Alone(s),
         taken' = taken + 1 /\ s = taken' => Nowhere(s), s \notin reread'
  PROVE  Single(s)' /\ Alone(s)'
<1>1. CASE Stays
  <2>1. /\ WayKeeps(s) /\ (InMem(s)' <=> InMem(s)) /\ Single(s)' /\ records' = records
    BY <1>1, StaysFlow DEF TableStays, Samples, Junk
  <2> QED BY <2>1 DEF WayKeeps, Alone
<1>2. CASE TakenSaved
  <2>1. taken' = taken + 1 /\ records' = records
    BY <1>2 DEF TakenSaved, Taken, TableStays
  <2>2. /\ WayKeeps(s) /\ (InMem(s)' <=> InMem(s) \/ s = taken')
        /\ Single(s) /\ ~(InMem(s) /\ s = taken') => Single(s)'
    BY <1>2, TakenSavedFlow
  <2>3. Single(s)'
    BY <2>1, <2>2 DEF Nowhere
  <2> QED BY <2>1, <2>2, <2>3 DEF WayKeeps, Alone, Nowhere
<1>3. CASE TakenSent
  <2>1. taken' = taken + 1 /\ records' = records
    BY <1>3 DEF TakenSent, Taken, TableStays
  <2>2. fd \in Conn
    BY <1>3, PlaceTypes DEF TakenSent
  <2>3. /\ InMem(s)' <=> InMem(s)
        /\ \A c \in Conn : OnWay(s, c)' <=> OnWay(s, c) \/ (c = fd /\ Alive(fd) /\ s = taken')
        /\ \A c \in Conn : Waits(s, c)' <=> Waits(s, c)
        /\ Single(s) /\ ~(s = taken' /\ OnWay(s, fd)) => Single(s)'
    BY <1>3, TakenSentFlow
  <2>4. Single(s)'
    BY <2>1, <2>2, <2>3 DEF Nowhere
  <2> QED BY <2>1, <2>3, <2>4 DEF Alone, Nowhere
<1>4. CASE Resent
  <2>1. fd \in Conn /\ records' = records
    BY <1>4, PlaceTypes DEF Resent, TableStays
  <2>2. /\ InMem(s) <=> s = Head(Mem) \/ InMem(s)'
        /\ Once(Mem, {s}) /\ s = Head(Mem) => ~InMem(s)'
        /\ \A c \in Conn : OnWay(s, c)' <=> OnWay(s, c) \/ (c = fd /\ Alive(fd) /\ s = Head(Mem))
        /\ \A c \in Conn : Waits(s, c)' <=> Waits(s, c)
        /\ Single(s) /\ ~(s = Head(Mem) /\ OnWay(s, fd)) => Single(s)'
    BY <1>4, ResentFlow
  <2>3. Once(Mem, {s})
    BY DEF Single
  <2>4. Single(s)'
    BY <2>1, <2>2 DEF Alone
  <2> QED BY <2>1, <2>2, <2>3, <2>4 DEF Alone
<1>5. CASE Loses
  BY <1>5, LosesFlow DEF Alone, TableStays
<1>6. CASE Restarts
  <2>1. disk.records \subseteq records
    BY TypeParts DEF TableType
  <2> QED BY <1>6, <2>1, RestartsFlow DEF Alone
<1>7. ASSUME NEW c \in Conn, Inserts(c) PROVE Single(s)' /\ Alone(s)'
  <2> DEFINE v == Head(toServer[c]).val
  <2>1. Takes(c)
    BY <1>7 DEF Inserts
  <2>2. /\ InMem(s)' <=> InMem(s)
        /\ \A d \in Conn : OnWay(s, d) <=> (d = c /\ s = v) \/ OnWay(s, d)'
        /\ s = v => ~OnWay(s, c)'
    BY <2>1, TakesFlow DEF Single
  <2>3. /\ \A d \in Conn : Waits(s, d)' <=> Waits(s, d)
        /\ Single(s)' /\ (s \in records' => s \in records \/ s = v)
    BY <1>7, InsertsFlow DEF TableStays
  <2> HIDE DEF v
  <2>4. CASE s = v
    <3>1. OnWay(s, c)
      BY <2>2, <2>4
    <3>2. ~InMem(s) /\ \A d \in Conn : ~Waits(s, d) /\ (OnWay(s, d) => d = c)
      BY <3>1 DEF Alone
    <3>3. \A d \in Conn : ~OnWay(s, d)'
      BY <2>2, <2>4, <3>2
    <3> QED BY <2>2, <2>3, <3>2, <3>3 DEF Alone
  <2>5. CASE s # v
    BY <2>2, <2>3, <2>5 DEF Alone
  <2> QED BY <2>4, <2>5
<1>8. ASSUME NEW c \in Conn, Gathers(c) PROVE Single(s)' /\ Alone(s)'
  <2> DEFINE v == Head(toServer[c]).val
  <2>1. Takes(c)
    BY <1>8 DEF Gathers
  <2>2. /\ InMem(s)' <=> InMem(s)
        /\ \A d \in Conn : OnWay(s, d) <=> (d = c /\ s = v) \/ OnWay(s, d)'
        /\ s = v => ~OnWay(s, c)'
    BY <2>1, TakesFlow DEF Single
  <2>3. /\ \A d \in Conn : Waits(s, d)' <=> Waits(s, d) \/ (d = c /\ s = v)
        /\ Single(s) /\ ~(s = v /\ Waits(s, c)) => Single(s)'
        /\ records' = records
    BY <1>8, GathersFlow DEF TableStays
  <2> HIDE DEF v
  <2>4. CASE s = v
    <3>1. OnWay(s, c)
      BY <2>2, <2>4
    <3>2. /\ ~InMem(s) /\ s \notin records
          /\ \A d \in Conn : ~Waits(s, d) /\ (OnWay(s, d) => d = c)
      BY <3>1 DEF Alone
    <3>3. \A d \in Conn : ~OnWay(s, d)'
      BY <2>2, <2>4, <3>2
    <3> QED BY <2>2, <2>3, <3>2, <3>3 DEF Alone
  <2>5. CASE s # v
    BY <2>2, <2>3, <2>5 DEF Alone
  <2> QED BY <2>4, <2>5
<1>9. ASSUME NEW c \in Conn, Stores(c) PROVE Single(s)' /\ Alone(s)'
  BY <1>9, StoresFlow DEF Alone
<1>10. CASE Killed
  BY <1>10, KilledFlow DEF WayKeeps, Alone, TableStays
<1> QED BY <1>1, <1>2, <1>3, <1>4, <1>5, <1>6, <1>7, <1>8, <1>9, <1>10 DEF Moves

LEMMA OneNext ==
  ASSUME TypeOK, TxnInv, FreshInv, OneInv, Moves \/ Killed
  PROVE  OneInv'
<1>1. SUFFICES ASSUME NEW s \in Samples, s \notin reread' PROVE Single(s)' /\ Alone(s)'
  BY DEF OneInv
<1>2. Single(s) /\ Alone(s)
  BY <1>1, CountFlow DEF OneInv
<1>3. taken' = taken + 1 /\ s = taken' => Nowhere(s)
  <2>1. taken \in Nat
    BY TypeParts, AgentAssumption DEF LoopType
  <2>2. taken' = taken + 1 /\ s = taken' => s > taken
    BY <2>1
  <2> QED BY <2>2 DEF FreshInv
<1> QED BY <1>1, <1>2, <1>3, AloneNext

CopyInv == MemInv /\ FreshInv /\ OneInv

LEMMA CopiesHold == Spec => []CopyInv
<1>1. ASSUME Init PROVE CopyInv
  <2>1. pc = "connect" /\ queue = <<>> /\ file = <<>> /\ records = {} /\ reread = {}
    BY <1>1 DEF Init, AgentInit
  <2>2. MemInv /\ Mem = <<>>
    BY <2>1 DEF MemInv, Mem, Down
  <2>3. \A c \in Conn : toServer[c] = <<>> /\ oldData[c] = <<>>
    BY <1>1 DEF Init, AgentInit
  <2>4. \A s : Nowhere(s) /\ Single(s) /\ ~Has(file, {s})
    BY <2>1, <2>2, <2>3, HasEmpty DEF Nowhere, Single, InMem, OnWay, Waits
  <2>5. FreshInv /\ OneInv
    BY <2>1, <2>4 DEF FreshInv, OneInv, Alone, Nowhere
  <2> QED BY <2>2, <2>5 DEF CopyInv
<1>2. TypeOK /\ TxnInv /\ CopyInv /\ [Next]_vars => CopyInv'
  BY MovesNext, FreshNext, OneNext DEF CopyInv
<1> QED BY <1>1, <1>2, TypeCorrect, TablesHold, PTL DEF Spec

\* A copy stands for a place.
LEMMA CopyPlaces ==
  ASSUME TypeOK, MemInv, NEW s, NEW x \in Copies(s)
  PROVE  \/ \E i \in DOMAIN Mem : /\ Mem[i] \in {s}
              /\ x = [at |-> IF Down THEN "file" ELSE "queue", conn |-> NoConn, pos |-> i]
         \/ \E c \in Conn : \E i \in DOMAIN toServer[c] : /\ toServer[c][i] \in Of(s)
              /\ x = [at |-> "stream", conn |-> c, pos |-> i]
         \/ \E c \in Conn : \E i \in DOMAIN oldData[c] : /\ oldData[c][i] \in {s}
              /\ x = [at |-> "server", conn |-> c, pos |-> i]
<1>1. CASE \E i \in DOMAIN queue : queue[i] = s
                /\ x = [at |-> "queue", conn |-> NoConn, pos |-> i]
  BY <1>1 DEF MemInv, Mem
<1>2. CASE Down /\ \E i \in DOMAIN file : file[i] = s
                /\ x = [at |-> "file", conn |-> NoConn, pos |-> i]
  BY <1>2 DEF Mem
<1>3. ASSUME NEW c \in Conn, NEW i \in DOMAIN toServer[c],
             toServer[c][i].type # "AUTH", toServer[c][i].val = s
      PROVE  toServer[c][i] \in Of(s)
  <2>1. toServer[c] \in Seq(ToServer)
    BY PlaceTypes
  <2>2. toServer[c][i] \in ToServer
    <3> HIDE DEF ToServer
    <3> QED BY <2>1, <1>3
  <2> QED BY <1>3, <2>2 DEF Of
<1>4. CASE \E c \in Conn : \E i \in DOMAIN toServer[c] :
                toServer[c][i].type # "AUTH" /\ toServer[c][i].val = s
                /\ x = [at |-> "stream", conn |-> c, pos |-> i]
  BY <1>3, <1>4
<1>5. CASE \E c \in Conn : \E i \in DOMAIN oldData[c] : oldData[c][i] = s
                /\ x = [at |-> "server", conn |-> c, pos |-> i]
  BY <1>5
<1> QED BY <1>1, <1>2, <1>4, <1>5 DEF Copies

\* A sample exists once, in the agent, on the way, in the server or in the
\* table; only one that was in olddata when the agent was killed may be sent
\* again (agent_lin/main.cpp:88-155 and 178-194, db.cpp:235).
THEOREM OneCorrect == Spec => []OneCopy
<1>1. ASSUME TypeOK, CopyInv PROVE OneCopy
  <2>1. SUFFICES ASSUME NEW s \in Samples \ reread
                 PROVE  Cardinality(Copies(s)) + (IF s \in records THEN 1 ELSE 0) <= 1
    BY DEF OneCopy
  <2>2. Single(s) /\ Alone(s) /\ MemInv
    BY <1>1 DEF CopyInv, OneInv
  <2>3. ASSUME NEW x \in Copies(s), NEW y \in Copies(s) PROVE x = y
    BY <1>1, <2>2, <2>3, CopyPlaces DEF Single, Alone, Once, Has, InMem, OnWay, Waits
  <2>4. ASSUME NEW x \in Copies(s) PROVE s \notin records
    BY <1>1, <2>2, <2>4, CopyPlaces DEF Alone, Has, InMem, OnWay, Waits
  <2>5. CASE Copies(s) = {}
    BY <2>5, FS_EmptySet
  <2>6. CASE Copies(s) # {}
    <3>1. PICK x : Copies(s) = {x}
      BY <2>3, <2>6
    <3>2. Cardinality(Copies(s)) = 1
      BY <3>1, FS_Singleton
    <3> QED BY <2>4, <3>1, <3>2
  <2> QED BY <2>5, <2>6
<1> QED BY <1>1, TypeCorrect, CopiesHold, PTL

-----------------------------------------------------------------------------
(* Where Custody sees a sample.                                            *)

PlaceRule(s) ==
  /\ s \in disk.records => PlaceOf(s) = "stored"
  /\ s \notin disk.records /\ s \in reread => PlaceOf(s) = "repeated"
  /\ s \notin disk.records /\ s \notin reread =>
       /\ s \in records => PlaceOf(s) = "pending"
       /\ \A c \in Conn : Waits(s, c) => PlaceOf(s) = "server"
       /\ \A c \in Conn : OnWay(s, c) => PlaceOf(s) = "connection"
       /\ InMem(s) => PlaceOf(s) = "agent"
       /\ Nowhere(s) => PlaceOf(s) = IF s > taken THEN "future" ELSE "lost"

AllPlaced == \A s \in Samples : PlaceRule(s)

LEMMA Placed == TypeOK /\ CopyInv => AllPlaced
<1> SUFFICES ASSUME TypeOK, CopyInv, NEW s \in Samples PROVE PlaceRule(s)
  BY DEF AllPlaced
<1>1. InQueue(s) <=> InMem(s)
  BY DEF InQueue, InSeq, InMem, Mem, Has, CopyInv, MemInv
<1>2. \A c \in Conn : InSeq(s, oldData[c]) <=> Waits(s, c)
  BY DEF InSeq, Waits, Has
<1>3. ASSUME NEW c \in Conn
      PROVE  (\E i \in DOMAIN toServer[c] :
                toServer[c][i].type # "AUTH" /\ toServer[c][i].val = s) <=> OnWay(s, c)
  <2>1. toServer[c] \in Seq(ToServer)
    BY PlaceTypes
  <2>2. \A i \in DOMAIN toServer[c] : toServer[c][i] \in ToServer
    <3> HIDE DEF ToServer
    <3> QED BY <2>1
  <2> QED BY <2>2 DEF OnWay, Has, Of
<1>4. PlaceOf(s) =
        IF s \in disk.records THEN "stored"
        ELSE IF s \in reread THEN "repeated"
        ELSE IF s \in records THEN "pending"
        ELSE IF \E c \in Conn : Waits(s, c) THEN "server"
        ELSE IF \E c \in Conn : OnWay(s, c) THEN "connection"
        ELSE IF InMem(s) THEN "agent"
        ELSE IF s > taken THEN "future" ELSE "lost"
  BY <1>1, <1>2, <1>3 DEF PlaceOf
<1>5. s \notin reread => Alone(s)
  BY DEF CopyInv, OneInv
<1>6. PlaceRule(s)
  <2>1. CASE s \in disk.records
    BY <1>4, <2>1 DEF PlaceRule
  <2>2. CASE s \notin disk.records /\ s \in reread
    BY <1>4, <2>2 DEF PlaceRule
  <2>3. CASE s \notin disk.records /\ s \notin reread
    <3>1. s \in records => PlaceOf(s) = "pending"
      BY <1>4, <2>3
    <3>2. ASSUME NEW c \in Conn, Waits(s, c) PROVE PlaceOf(s) = "server"
      BY <1>4, <1>5, <2>3, <3>2 DEF Alone
    <3>3. ASSUME NEW c \in Conn, OnWay(s, c) PROVE PlaceOf(s) = "connection"
      BY <1>4, <1>5, <2>3, <3>3 DEF Alone
    <3>4. InMem(s) => PlaceOf(s) = "agent"
      BY <1>4, <1>5, <2>3 DEF Alone
    <3>5. Nowhere(s) => PlaceOf(s) = IF s > taken THEN "future" ELSE "lost"
      BY <1>4, <2>3 DEF Nowhere
    <3> QED BY <2>3, <3>1, <3>2, <3>3, <3>4, <3>5 DEF PlaceRule
  <2> QED BY <2>1, <2>2, <2>3
<1> QED BY <1>6

LEMMA SamePlace ==
  ASSUME NEW s \in Samples, PlaceRule(s), PlaceRule(s)', WayKeeps(s),
         InMem(s)' <=> InMem(s), s \in records' <=> s \in records,
         s \in disk'.records <=> s \in disk.records, s \in reread' <=> s \in reread,
         s > taken' <=> s > taken
  PROVE  PlaceOf(s)' = PlaceOf(s)
<1>1. Nowhere(s)' <=> Nowhere(s)
  BY DEF Nowhere, WayKeeps
<1> QED BY <1>1 DEF PlaceRule, Nowhere, WayKeeps

-----------------------------------------------------------------------------
(* Custody's moves.                                                        *)

LEMMA MoveOne ==
  ASSUME NEW s \in Samples, NEW from, NEW to, PlaceOf(s) = from, PlaceOf(s)' = to,
         \A r \in Samples : r # s => PlaceOf(r)' = PlaceOf(r)
  PROVE  Promised!Move(from, to)
BY DEF Promised!Move

LEMMA MoveMany ==
  ASSUME NEW from, NEW to,
         \A r \in Samples : \/ PlaceOf(r)' = PlaceOf(r)
                            \/ PlaceOf(r) \in from /\ PlaceOf(r)' = to
  PROVE  Promised!MoveSome(from, to)
<1> DEFINE P == [s \in Samples |-> PlaceOf(s)]
           S == {s \in Samples : PlaceOf(s) \in from /\ PlaceOf(s)' = to}
<1>1. S \in SUBSET {s \in Samples : P[s] \in from}
  OBVIOUS
<1>2. P' = [s \in Samples |-> IF s \in S THEN to ELSE P[s]]
  OBVIOUS
<1> QED BY <1>1, <1>2 DEF Promised!MoveSome

LEMMA MoveNone ==
  ASSUME \A r \in Samples : PlaceOf(r)' = PlaceOf(r)
  PROVE  UNCHANGED [s \in Samples |-> PlaceOf(s)]
OBVIOUS

\* The two states of a step.
Both == TypeOK /\ TxnInv /\ CopyInv /\ AllPlaced /\ AllPlaced'

\* What is known of one sample in them.
LEMMA BothPlaced ==
  ASSUME Both, NEW s \in Samples
  PROVE  /\ PlaceRule(s) /\ PlaceRule(s)'
         /\ s \notin reread => Single(s) /\ Alone(s)
         /\ s > taken => Nowhere(s) /\ s \notin reread /\ s \notin disk.records
         /\ disk.records \subseteq records
<1>1. disk.records \subseteq records
  BY TypeParts DEF Both, TableType
<1>2. s > taken => Nowhere(s) /\ s \notin reread
  BY DEF Both, CopyInv, FreshInv
<1>3. s > taken => s \notin disk.records
  BY <1>1, <1>2 DEF Nowhere
<1> QED BY <1>1, <1>2, <1>3 DEF Both, AllPlaced, CopyInv, OneInv

\* The next sample is taken.
LEMMA TakenNext ==
  ASSUME Both, Taken
  PROVE  /\ taken' \in Samples /\ taken' > taken
         /\ \A r \in Samples : r # taken' => (r > taken' <=> r > taken)
         /\ records' = records /\ disk'.records = disk.records /\ reread' = reread
<1>1. taken \in Nat /\ taken' = taken + 1 /\ taken' \in Samples
  BY TypeParts, AgentAssumption DEF Both, LoopType, Taken, Samples
<1>2. \A r \in Samples : r # taken' => (r > taken' <=> r > taken)
  BY <1>1 DEF Samples
<1> QED BY <1>1, <1>2 DEF Taken, TableStays

LEMMA CustodyTakenSaved ==
  ASSUME Both, TakenSaved
  PROVE  Promised!Move("future", "agent")
<1>1. /\ taken' \in Samples /\ taken' > taken
      /\ \A r \in Samples : r # taken' => (r > taken' <=> r > taken)
      /\ records' = records /\ disk'.records = disk.records /\ reread' = reread
  BY TakenNext DEF TakenSaved
<1>2. PICK s \in Samples : s = taken'
  BY <1>1
<1>3. Nowhere(s) /\ s \notin reread /\ s \notin disk.records /\ PlaceRule(s) /\ PlaceRule(s)'
  BY <1>1, <1>2, BothPlaced
<1>4. PlaceOf(s) = "future"
  BY <1>1, <1>2, <1>3 DEF PlaceRule
<1>5. ASSUME NEW r \in Samples PROVE WayKeeps(r) /\ (InMem(r)' <=> InMem(r) \/ r = s)
  BY <1>2, TakenSavedFlow DEF Both
<1>6. PlaceOf(s)' = "agent"
  <2>1. InMem(s)'
    BY <1>5
  <2> QED BY <1>1, <1>3, <2>1 DEF PlaceRule
<1>7. ASSUME NEW r \in Samples, r # s PROVE PlaceOf(r)' = PlaceOf(r)
  <2>1. WayKeeps(r) /\ (InMem(r)' <=> InMem(r)) /\ PlaceRule(r) /\ PlaceRule(r)'
    BY <1>5, <1>7, BothPlaced
  <2> QED BY <1>1, <1>2, <1>7, <2>1, SamePlace
<1> QED BY <1>4, <1>6, <1>7, MoveOne

LEMMA CustodyTakenSent ==
  ASSUME Both, TakenSent
  PROVE  Promised!Move("future", IF Alive(fd) THEN "connection" ELSE "lost")
<1>1. /\ taken' \in Samples /\ taken' > taken
      /\ \A r \in Samples : r # taken' => (r > taken' <=> r > taken)
      /\ records' = records /\ disk'.records = disk.records /\ reread' = reread
  BY TakenNext DEF TakenSent
<1>2. PICK s \in Samples : s = taken'
  BY <1>1
<1>3. Nowhere(s) /\ s \notin reread /\ s \notin disk.records /\ PlaceRule(s) /\ PlaceRule(s)'
  BY <1>1, <1>2, BothPlaced
<1>4. PlaceOf(s) = "future"
  BY <1>1, <1>2, <1>3 DEF PlaceRule
<1>5. ASSUME NEW r \in Samples
      PROVE  /\ InMem(r)' <=> InMem(r)
             /\ \A c \in Conn : OnWay(r, c)' <=> OnWay(r, c) \/ (c = fd /\ Alive(fd) /\ r = s)
             /\ \A c \in Conn : Waits(r, c)' <=> Waits(r, c)
  BY <1>2, TakenSentFlow DEF Both
<1>6. PlaceOf(s)' = IF Alive(fd) THEN "connection" ELSE "lost"
  <2>1. CASE Alive(fd)
    <3>1. PICK c \in Conn : c = fd
      BY PlaceTypes DEF Both, TakenSent
    <3>2. OnWay(s, c)'
      BY <1>5, <2>1, <3>1
    <3> QED BY <1>1, <1>3, <2>1, <3>2 DEF PlaceRule
  <2>2. CASE ~Alive(fd)
    <3>1. Nowhere(s)'
      BY <1>1, <1>3, <1>5, <2>2 DEF Nowhere
    <3>2. ~(s > taken')
      BY <1>2 DEF Samples
    <3> QED BY <1>1, <1>3, <2>2, <3>1, <3>2 DEF PlaceRule
  <2> QED BY <2>1, <2>2
<1>7. ASSUME NEW r \in Samples, r # s PROVE PlaceOf(r)' = PlaceOf(r)
  <2>1. WayKeeps(r) /\ (InMem(r)' <=> InMem(r)) /\ PlaceRule(r) /\ PlaceRule(r)'
    BY <1>5, <1>7, BothPlaced DEF WayKeeps
  <2> QED BY <1>1, <1>2, <1>7, <2>1, SamePlace
<1>8. PICK to : to = IF Alive(fd) THEN "connection" ELSE "lost"
  OBVIOUS
<1>9. Promised!Move("future", to)
  BY <1>4, <1>6, <1>7, <1>8, MoveOne
<1> QED BY <1>8, <1>9

\* A saved sample is sent; one that is in the table, or is repeated, stays there.
LEMMA CustodyResent ==
  ASSUME Both, Resent
  PROVE  \/ Promised!Move("agent", IF Alive(fd) THEN "connection" ELSE "lost")
         \/ UNCHANGED [s \in Samples |-> PlaceOf(s)]
<1> DEFINE x == Head(Mem)
<1>1. /\ records' = records /\ disk'.records = disk.records /\ reread' = reread /\ taken' = taken
  BY DEF Resent, TableStays
<1>2. ASSUME NEW r \in Samples
      PROVE  /\ InMem(r) <=> r = x \/ InMem(r)'
             /\ Once(Mem, {r}) /\ r = x => ~InMem(r)'
             /\ \A c \in Conn : OnWay(r, c)' <=> OnWay(r, c) \/ (c = fd /\ Alive(fd) /\ r = x)
             /\ \A c \in Conn : Waits(r, c)' <=> Waits(r, c)
  BY ResentFlow DEF Both
<1> HIDE DEF x
<1>3. ASSUME NEW r \in Samples, r # x PROVE PlaceOf(r)' = PlaceOf(r)
  <2>1. WayKeeps(r) /\ (InMem(r)' <=> InMem(r)) /\ PlaceRule(r) /\ PlaceRule(r)'
    BY <1>2, <1>3, BothPlaced DEF WayKeeps
  <2> QED BY <1>1, <2>1, SamePlace
<1>4. CASE x \notin Samples
  BY <1>3, <1>4, MoveNone
<1>5. CASE x \in Samples
  <2>1. PICK s \in Samples : s = x
    BY <1>5
  <2>2. PlaceRule(s) /\ PlaceRule(s)' /\ InMem(s) /\ (s \notin reread => Single(s) /\ Alone(s))
        /\ disk.records \subseteq records
    BY <1>2, <2>1, BothPlaced
  <2>3. CASE s \in disk.records \/ s \in reread
    <3>1. PlaceOf(s)' = PlaceOf(s)
      BY <1>1, <2>2, <2>3 DEF PlaceRule
    <3> QED BY <1>3, <2>1, <3>1, MoveNone
  <2>4. CASE s \notin disk.records /\ s \notin reread
    <3>1. s \notin records /\ \A c \in Conn : ~OnWay(s, c) /\ ~Waits(s, c)
      BY <2>2, <2>4 DEF Alone
    <3>2. PlaceOf(s) = "agent"
      BY <2>2, <2>4 DEF PlaceRule
    <3>3. ~InMem(s)' /\ s \notin records'
      BY <1>1, <1>2, <2>1, <2>2, <2>4, <3>1 DEF Single
    <3>4. PlaceOf(s)' = IF Alive(fd) THEN "connection" ELSE "lost"
      <4>1. CASE Alive(fd)
        <5>1. PICK c \in Conn : c = fd
          BY PlaceTypes DEF Both, Resent
        <5>2. OnWay(s, c)'
          BY <1>2, <2>1, <4>1, <5>1
        <5> QED BY <1>1, <2>2, <2>4, <4>1, <5>2 DEF PlaceRule
      <4>2. CASE ~Alive(fd)
        <5>1. Nowhere(s)'
          BY <1>2, <3>1, <3>3, <4>2 DEF Nowhere
        <5>2. ~(s > taken')
          BY <1>1, <2>2, BothPlaced DEF Nowhere
        <5> QED BY <1>1, <2>2, <2>4, <4>2, <5>1, <5>2 DEF PlaceRule
      <4> QED BY <4>1, <4>2
    <3>5. PICK to : to = IF Alive(fd) THEN "connection" ELSE "lost"
      OBVIOUS
    <3>6. Promised!Move("agent", to)
      BY <1>3, <2>1, <3>2, <3>4, <3>5, MoveOne
    <3> QED BY <3>5, <3>6
  <2> QED BY <2>3, <2>4
<1> QED BY <1>4, <1>5

LEMMA CustodyStays ==
  ASSUME Both, Stays
  PROVE  UNCHANGED [s \in Samples |-> PlaceOf(s)]
<1>1. ASSUME NEW s \in Samples PROVE PlaceOf(s)' = PlaceOf(s)
  <2>1. /\ WayKeeps(s) /\ (InMem(s)' <=> InMem(s)) /\ UNCHANGED taken /\ UNCHANGED reread
        /\ records' = records /\ disk'.records = disk.records
    BY StaysFlow DEF TableStays, Samples, Junk
  <2>2. PlaceRule(s) /\ PlaceRule(s)'
    BY BothPlaced
  <2> QED BY <2>1, <2>2, SamePlace
<1> QED BY <1>1, MoveNone

\* What a sample that is nowhere after a step was before it.
LEMMA NowhereLost ==
  ASSUME Both, NEW s \in Samples, UNCHANGED taken, ~Nowhere(s), Nowhere(s)',
         s \notin disk'.records, s \notin reread'
  PROVE  PlaceOf(s)' = "lost"
<1>1. PlaceRule(s)' /\ ~(s > taken')
  BY BothPlaced
<1> QED BY <1>1 DEF PlaceRule

LEMMA CustodyLoses ==
  ASSUME Both, Loses
  PROVE  Promised!LoseConnection
<1>1. UNCHANGED taken /\ UNCHANGED reread /\ records' = records /\ disk'.records = disk.records
  BY DEF Loses, AgentStays, TableStays
<1>2. ASSUME NEW s \in Samples
      PROVE  \/ PlaceOf(s)' = PlaceOf(s)
             \/ PlaceOf(s) \in {"connection", "server"} /\ PlaceOf(s)' = "lost"
  <2>1. /\ InMem(s)' <=> InMem(s)
        /\ \A c \in Conn : (OnWay(s, c)' => OnWay(s, c)) /\ (Waits(s, c)' => Waits(s, c))
    BY LosesFlow DEF Both
  <2>2. PlaceRule(s) /\ PlaceRule(s)' /\ (s \notin reread => Alone(s))
    BY BothPlaced
  <2>3. CASE s \in disk.records \/ s \in reread
    BY <1>1, <2>2, <2>3 DEF PlaceRule
  <2>4. CASE s \notin disk.records /\ s \notin reread
    <3>1. CASE s \in records \/ InMem(s)
      BY <1>1, <2>1, <2>2, <2>4, <3>1 DEF PlaceRule
    <3>2. CASE Nowhere(s)
      <4>1. Nowhere(s)'
        BY <1>1, <2>1, <3>2 DEF Nowhere
      <4> QED BY <1>1, <2>2, <2>4, <3>2, <4>1 DEF PlaceRule
    <3>3. ASSUME NEW c \in Conn, OnWay(s, c)
          PROVE  \/ PlaceOf(s)' = PlaceOf(s)
                 \/ PlaceOf(s) = "connection" /\ PlaceOf(s)' = "lost"
      <4>1. PlaceOf(s) = "connection"
        BY <2>2, <2>4, <3>3 DEF PlaceRule
      <4>2. CASE OnWay(s, c)'
        BY <1>1, <2>2, <2>4, <4>1, <4>2 DEF PlaceRule
      <4>3. CASE ~OnWay(s, c)'
        <5>1. Nowhere(s)' /\ ~Nowhere(s)
          BY <1>1, <2>1, <2>2, <2>4, <3>3, <4>3 DEF Nowhere, Alone
        <5> QED BY <1>1, <2>4, <4>1, <5>1, NowhereLost
      <4> QED BY <4>2, <4>3
    <3>4. ASSUME NEW c \in Conn, Waits(s, c)
          PROVE  \/ PlaceOf(s)' = PlaceOf(s)
                 \/ PlaceOf(s) = "server" /\ PlaceOf(s)' = "lost"
      <4>1. PlaceOf(s) = "server"
        BY <2>2, <2>4, <3>4 DEF PlaceRule
      <4>2. CASE Waits(s, c)'
        BY <1>1, <2>2, <2>4, <4>1, <4>2 DEF PlaceRule
      <4>3. CASE ~Waits(s, c)'
        <5>1. Nowhere(s)' /\ ~Nowhere(s)
          BY <1>1, <2>1, <2>2, <2>4, <3>4, <4>3 DEF Nowhere, Alone
        <5> QED BY <1>1, <2>4, <4>1, <5>1, NowhereLost
      <4> QED BY <4>2, <4>3
    <3> QED BY <3>1, <3>2, <3>3, <3>4 DEF Nowhere
  <2> QED BY <2>3, <2>4
<1> QED BY <1>2, MoveMany DEF Promised!LoseConnection

LEMMA CustodyRestarts ==
  ASSUME Both, Restarts
  PROVE  Promised!LoseServer
<1>1. UNCHANGED taken /\ UNCHANGED reread /\ records' = disk.records /\ disk'.records = disk.records
  BY DEF Restarts, AgentStays
<1>2. ASSUME NEW s \in Samples
      PROVE  \/ PlaceOf(s)' = PlaceOf(s)
             \/ PlaceOf(s) \in {"connection", "server", "pending"} /\ PlaceOf(s)' = "lost"
  <2>1. (InMem(s)' <=> InMem(s)) /\ \A c \in Conn : ~OnWay(s, c)' /\ ~Waits(s, c)'
    BY RestartsFlow
  <2>2. PlaceRule(s) /\ PlaceRule(s)' /\ (s \notin reread => Alone(s))
    BY BothPlaced
  <2>3. CASE s \in disk.records \/ s \in reread
    BY <1>1, <2>2, <2>3 DEF PlaceRule
  <2>4. CASE s \notin disk.records /\ s \notin reread
    <3>1. CASE InMem(s)
      BY <1>1, <2>1, <2>2, <2>4, <3>1 DEF PlaceRule
    <3>2. CASE ~InMem(s)
      <4>1. Nowhere(s)'
        BY <1>1, <2>1, <2>4, <3>2 DEF Nowhere
      <4>2. CASE Nowhere(s)
        BY <1>1, <2>2, <2>4, <4>1, <4>2 DEF PlaceRule
      <4>3. CASE ~Nowhere(s)
        <5>1. PlaceOf(s)' = "lost"
          BY <1>1, <2>4, <4>1, <4>3, NowhereLost
        <5>2. PlaceOf(s) \in {"connection", "server", "pending"}
          BY <2>2, <2>4, <3>2, <4>3 DEF PlaceRule, Nowhere
        <5> QED BY <5>1, <5>2
      <4> QED BY <4>2, <4>3
    <3> QED BY <3>1, <3>2
  <2> QED BY <2>3, <2>4
<1> QED BY <1>2, MoveMany DEF Promised!LoseServer

\* A batch is stored: the samples that wait on connection c.
LEMMA CustodyStores ==
  ASSUME Both, NEW c \in Conn, Stores(c)
  PROVE  Promised!Store
<1>1. /\ UNCHANGED taken /\ UNCHANGED reread /\ records = disk.records
      /\ disk'.records \in {disk.records, records'}
  BY StoresFlow DEF Both
<1>2. ASSUME NEW s \in Samples
      PROVE  /\ InMem(s)' <=> InMem(s)
             /\ \A d \in Conn : OnWay(s, d)' <=> OnWay(s, d)
             /\ \A d \in Conn : Waits(s, d)' <=> d # c /\ Waits(s, d)
             /\ s \in records' <=> s \in records \/ Waits(s, c)
  BY StoresFlow DEF Both
<1>3. ASSUME NEW s \in Samples PROVE PlaceRule(s) /\ PlaceRule(s)' /\ (s \notin reread => Alone(s))
  BY BothPlaced
<1>4. ASSUME NEW s \in Samples, ~Waits(s, c) PROVE PlaceOf(s)' = PlaceOf(s)
  <2>1. \A d \in Conn : Waits(s, d)' <=> Waits(s, d)
    BY <1>2, <1>4
  <2>2. s \in records' <=> s \in records
    BY <1>2, <1>4
  <2>3. WayKeeps(s) /\ (s \in disk'.records <=> s \in disk.records)
    BY <1>1, <1>2, <2>1, <2>2 DEF WayKeeps
  <2> QED BY <1>1, <1>2, <1>3, <2>2, <2>3, SamePlace
<1>5. CASE disk'.records = records'
  <2>1. ASSUME NEW s \in Samples, Waits(s, c)
        PROVE  PlaceOf(s)' = "stored" /\ PlaceOf(s) \in {"server", "repeated", "stored"}
    BY <1>2, <1>3, <1>5, <2>1 DEF PlaceRule
  <2>2. \A s \in Samples : \/ PlaceOf(s)' = PlaceOf(s)
                           \/ PlaceOf(s) \in {"server", "repeated"} /\ PlaceOf(s)' = "stored"
    BY <1>4, <2>1
  <2> QED BY <2>2, MoveMany DEF Promised!Store
<1>6. CASE disk'.records = disk.records
  <2>1. ASSUME NEW s \in Samples, Waits(s, c)
        PROVE  \/ PlaceOf(s)' = PlaceOf(s)
               \/ PlaceOf(s) \in {"server"} /\ PlaceOf(s)' = "pending"
    <3>1. CASE s \in disk.records \/ s \in reread
      BY <1>1, <1>3, <1>6, <3>1 DEF PlaceRule
    <3>2. CASE s \notin disk.records /\ s \notin reread
      BY <1>1, <1>2, <1>3, <1>6, <2>1, <3>2 DEF PlaceRule
    <3> QED BY <3>1, <3>2
  <2>2. \A s \in Samples : \/ PlaceOf(s)' = PlaceOf(s)
                           \/ PlaceOf(s) \in {"server"} /\ PlaceOf(s)' = "pending"
    BY <1>4, <2>1
  <2> QED BY <2>2, MoveMany DEF Promised!Store
<1> QED BY <1>1, <1>5, <1>6

\* The server takes a sample off a connection.
LEMMA TakesPlaced ==
  ASSUME Both, NEW c \in Conn, Takes(c), TableStays, NEW s \in Samples, s # Head(toServer[c]).val,
         \A d \in Conn : Waits(s, d)' <=> Waits(s, d)
  PROVE  PlaceOf(s)' = PlaceOf(s)
<1>1. /\ InMem(s)' <=> InMem(s)
      /\ \A d \in Conn : OnWay(s, d) <=> OnWay(s, d)'
      /\ UNCHANGED taken /\ UNCHANGED reread
  BY TakesFlow DEF Both
<1>2. PlaceRule(s) /\ PlaceRule(s)'
  BY BothPlaced
<1> QED BY <1>1, <1>2, SamePlace DEF WayKeeps, TableStays

LEMMA CustodyGathers ==
  ASSUME Both, NEW c \in Conn, Gathers(c)
  PROVE  \/ Promised!Move("connection", "server")
         \/ UNCHANGED [s \in Samples |-> PlaceOf(s)]
<1> DEFINE v == Head(toServer[c]).val
<1>1. Takes(c) /\ TableStays
  BY DEF Gathers
<1>2. ASSUME NEW s \in Samples, s # v PROVE PlaceOf(s)' = PlaceOf(s)
  <2>1. \A d \in Conn : Waits(s, d)' <=> Waits(s, d)
    BY <1>2, GathersFlow DEF Both
  <2> QED BY <1>1, <1>2, <2>1, TakesPlaced
<1>3. CASE v \notin Samples
  BY <1>2, <1>3, MoveNone
<1>4. CASE v \in Samples
  <2>1. PICK s \in Samples : s = v
    BY <1>4
  <2>2. OnWay(s, c) /\ UNCHANGED reread /\ records' = records /\ disk'.records = disk.records
    <3>1. OnWay(s, c) <=> s = v \/ OnWay(s, c)'
      BY <1>1, TakesFlow DEF Both
    <3>2. UNCHANGED reread
      BY DEF Gathers, Takes
    <3> QED BY <1>1, <2>1, <3>1, <3>2 DEF TableStays
  <2>3. Waits(s, c)'
    BY <2>1, GathersFlow DEF Both
  <2>4. PlaceRule(s) /\ PlaceRule(s)'
    BY BothPlaced
  <2>5. CASE s \in disk.records \/ s \in reread
    <3>1. PlaceOf(s)' = PlaceOf(s)
      BY <2>2, <2>4, <2>5 DEF PlaceRule
    <3> QED BY <1>2, <2>1, <3>1, MoveNone
  <2>6. CASE s \notin disk.records /\ s \notin reread
    <3>1. PlaceOf(s) = "connection" /\ PlaceOf(s)' = "server"
      BY <2>2, <2>3, <2>4, <2>6 DEF PlaceRule
    <3> QED BY <1>2, <2>1, <3>1, MoveOne
  <2> QED BY <2>5, <2>6
<1> QED BY <1>3, <1>4

\* It may be refused, or join a transaction that is open.
LEMMA CustodyInserts ==
  ASSUME Both, NEW c \in Conn, Inserts(c)
  PROVE  \/ Promised!Receive \/ Promised!Store \/ Promised!LoseConnection
         \/ UNCHANGED [s \in Samples |-> PlaceOf(s)]
<1> DEFINE v == Head(toServer[c]).val
<1>1. Takes(c)
  BY DEF Inserts
<1>2. /\ UNCHANGED taken /\ UNCHANGED reread
      /\ \/ records' = records /\ disk'.records = disk.records
         \/ records' = records \cup {v} /\ disk'.records \in {disk.records, disk.records \cup {v}}
  BY <1>1, TakesFlow, InsertsFlow DEF Both, TableStays
<1>3. ASSUME NEW s \in Samples
      PROVE  /\ InMem(s)' <=> InMem(s)
             /\ \A d \in Conn : OnWay(s, d) <=> (d = c /\ s = v) \/ OnWay(s, d)'
             /\ Once(toServer[c], Of(s)) /\ s = v => ~OnWay(s, c)'
             /\ \A d \in Conn : Waits(s, d)' <=> Waits(s, d)
  BY <1>1, TakesFlow, InsertsFlow DEF Both
<1> HIDE DEF v
<1>4. ASSUME NEW s \in Samples, s # v PROVE PlaceOf(s)' = PlaceOf(s)
  <2>1. /\ WayKeeps(s) /\ (InMem(s)' <=> InMem(s))
    BY <1>3, <1>4 DEF WayKeeps
  <2>2. (s \in records' <=> s \in records) /\ (s \in disk'.records <=> s \in disk.records)
    BY <1>2, <1>4
  <2>3. PlaceRule(s) /\ PlaceRule(s)'
    BY BothPlaced
  <2> QED BY <1>2, <2>1, <2>2, <2>3, SamePlace
<1>5. CASE v \notin Samples
  BY <1>4, <1>5, MoveNone
<1>6. CASE v \in Samples
  <2>1. PICK s \in Samples : s = v
    BY <1>6
  <2>2. OnWay(s, c)
    BY <1>3, <2>1
  <2>3. PlaceRule(s) /\ PlaceRule(s)' /\ (s \notin reread => Single(s) /\ Alone(s))
        /\ disk.records \subseteq records
    BY BothPlaced
  <2>4. CASE s \in disk.records
    <3>1. PlaceOf(s)' = PlaceOf(s)
      BY <1>2, <2>3, <2>4 DEF PlaceRule
    <3> QED BY <1>4, <2>1, <3>1, MoveNone
  <2>5. CASE s \notin disk.records /\ s \in reread
    <3>1. PlaceOf(s) = "repeated" /\ PlaceOf(s)' \in {"repeated", "stored"}
      BY <1>2, <2>3, <2>5 DEF PlaceRule
    <3>2. \A r \in Samples : \/ PlaceOf(r)' = PlaceOf(r)
                             \/ PlaceOf(r) \in {"server", "repeated"} /\ PlaceOf(r)' = "stored"
      BY <1>4, <2>1, <3>1
    <3> QED BY <3>2, MoveMany DEF Promised!Store
  <2>6. CASE s \notin disk.records /\ s \notin reread
    <3>1. PlaceOf(s) = "connection" /\ s \notin records
      BY <2>2, <2>3, <2>6 DEF PlaceRule, Alone
    <3>2. CASE s \in disk'.records
      <4>1. PlaceOf(s)' = "stored"
        BY <2>3, <3>2 DEF PlaceRule
      <4>2. Promised!Move("connection", "stored")
        BY <1>4, <2>1, <3>1, <4>1, MoveOne
      <4> QED BY <4>2 DEF Promised!Receive
    <3>3. CASE s \notin disk'.records /\ s \in records'
      <4>1. PlaceOf(s)' = "pending"
        BY <1>2, <2>3, <2>6, <3>3 DEF PlaceRule
      <4>2. Promised!Move("connection", "pending")
        BY <1>4, <2>1, <3>1, <4>1, MoveOne
      <4> QED BY <4>2 DEF Promised!Receive
    <3>4. CASE s \notin disk'.records /\ s \notin records'
      <4>1. Nowhere(s)' /\ ~Nowhere(s)
        BY <1>3, <2>1, <2>2, <2>3, <2>6, <3>4 DEF Nowhere, Alone, Single
      <4>2. PlaceOf(s)' = "lost"
        BY <1>2, <2>6, <3>4, <4>1, NowhereLost
      <4>3. \A r \in Samples : \/ PlaceOf(r)' = PlaceOf(r)
                               \/ PlaceOf(r) \in {"connection", "server"} /\ PlaceOf(r)' = "lost"
        BY <1>4, <2>1, <3>1, <4>2
      <4> QED BY <4>3, MoveMany DEF Promised!LoseConnection
    <3> QED BY <3>2, <3>3, <3>4
  <2> QED BY <2>4, <2>5, <2>6
<1> QED BY <1>5, <1>6

-----------------------------------------------------------------------------
(* The connection the agent thinks it has.                                 *)

Link == CASE pc = "killed" -> "killed"
          [] pc # "killed" /\ state # "Connected" -> "none"
          [] OTHER -> IF Alive(fd) THEN "up" ELSE "dead"

LEMMA LinkRule ==
  /\ pc = "killed" => Link = "killed"
  /\ pc # "killed" /\ state # "Connected" => Link = "none"
  /\ pc # "killed" /\ state = "Connected" => Link = IF Alive(fd) THEN "up" ELSE "dead"
BY DEF Link

\* Only a kill kills.
LEMMA KilledOnly ==
  ASSUME [Next]_vars, ~AgentCrash, pc # "killed"
  PROVE  pc' # "killed"
<1>1. CASE AgentStep \/ AgentTimeout
  <2>1. CASE Quiet \/ Disconnects \/ Gets
    BY <2>1 DEF Quiet, Disconnects, Gets, ConnectSkipped, ReadNothing, ReadPacket, Reading,
       SampleSkipped, SampleSaved, NewSample, NothingToResend, Apply, Stop, ReplyLost,
       ReadEof, SampleUnsent, ResendFails, ReplyTimeout, ConfigTimeout, ReadTimeout,
       WinReplyReset, ReadReply
  <2>2. CASE CleanUp \/ WinApply \/ WinRename \/ Connect \/ SampleSent \/ Resend
    BY <2>2 DEF CleanUp, WinApply, WinRename, Connect, SampleSent, NewSample, Resend
  <2>3. CASE Saved \/ StartUp \/ StartUpNoCount
    BY <2>3 DEF Saved, StartUp, StartUpNoCount, Starts
  <2> QED BY <1>1, <2>1, <2>2, <2>3, AgentKinds
<1>2. CASE AgentRuns \/ Timeout
  BY <1>1, <1>2 DEF AgentRuns, Timeout
<1>3. CASE AgentStop
  BY <1>3 DEF AgentStop, Stop
<1>4. CASE Reconfigure \/ ServerRestart \/ UNCHANGED vars
  BY <1>4 DEF Reconfigure, ServerRestart, vars, processVars, agentVars, agentKeeps, loopVars
<1>5. ASSUME NEW c \in Conn,
             \/ ServerStep(c) \/ Cut(c) \/ ServerDrops(c) \/ StoreFails(c) \/ CommitBusy(c)
      PROVE  UNCHANGED pc
  BY <1>5 DEF ServerStep, ServerAuth, ServerLive, ServerOld, Receives, Flush, Flushed,
     ServerEof, DeleteClient, Cut, ServerDrops, StoreFails, CommitBusy, processVars,
     agentVars, loopVars, agentKeeps
<1> QED BY <1>2, <1>3, <1>4, <1>5 DEF Next

-----------------------------------------------------------------------------
(* The agent is killed.                                                    *)

LEMMA CustodyKilled ==
  ASSUME Both, Killed
  PROVE  Promised!Kill
<1> DEFINE P == [s \in Samples |-> PlaceOf(s)]
           R == {s \in Samples : s \in reread' /\ s \notin disk.records}
           L == {s \in Samples : PlaceOf(s) = "agent" /\ PlaceOf(s)' = "lost"}
<1>1. UNCHANGED taken /\ records' = records /\ disk'.records = disk.records
      /\ pc # "killed" /\ pc' = "killed"
  BY DEF Killed, TableStays, Down
<1>2. reread \subseteq reread' /\ reread' \subseteq reread \cup {s \in Samples : Has(file, {s})}
  BY CountFlow DEF Both
<1>3. ASSUME NEW s \in Samples
      PROVE  /\ WayKeeps(s) /\ (InMem(s)' => InMem(s) \/ s \in reread')
             /\ PlaceRule(s) /\ PlaceRule(s)' /\ (s \notin reread => Alone(s))
  BY KilledFlow, BothPlaced DEF Both
<1>4. ASSUME NEW s \in R
      PROVE  PlaceOf(s) \notin {"future", "stored"} /\ PlaceOf(s)' = "repeated"
  <2>1. PlaceOf(s)' = "repeated"
    BY <1>1, <1>3 DEF PlaceRule
  <2>2. ~(s > taken)
    <3>1. s \in reread \/ Has(file, {s})
      BY <1>2
    <3> QED BY <3>1 DEF Both, CopyInv, FreshInv
  <2>3. PlaceOf(s) \notin {"future", "stored"}
    <3>1. CASE s \in reread
      BY <1>3, <3>1 DEF PlaceRule
    <3>2. CASE s \notin reread
      BY <1>3, <2>2, <3>2 DEF PlaceRule, Nowhere
    <3> QED BY <3>1, <3>2
  <2> QED BY <2>1, <2>3
<1>5. ASSUME NEW s \in Samples, s \notin R
      PROVE  PlaceOf(s)' = PlaceOf(s) \/ s \in L
  <2>1. CASE s \in disk.records
    BY <1>1, <1>3, <2>1 DEF PlaceRule
  <2>2. CASE s \notin disk.records
    <3>1. s \notin reread /\ s \notin reread' /\ s \notin disk'.records
      BY <1>1, <1>2, <1>5, <2>2
    <3>2. CASE InMem(s)' <=> InMem(s)
      BY <1>1, <1>3, <3>1, <3>2, SamePlace
    <3>3. CASE InMem(s) /\ ~InMem(s)'
      <4>1. PlaceOf(s) = "agent"
        BY <1>3, <2>2, <3>1, <3>3 DEF PlaceRule
      <4>2. Nowhere(s)' /\ ~Nowhere(s)
        BY <1>1, <1>3, <3>1, <3>3 DEF Nowhere, Alone, WayKeeps
      <4>3. PlaceOf(s)' = "lost"
        BY <1>1, <3>1, <4>2, NowhereLost
      <4> QED BY <4>1, <4>3
    <3> QED BY <1>3, <3>1, <3>2, <3>3
  <2> QED BY <2>1, <2>2
<1>6. P' = [s \in Samples |-> CASE s \in R -> "repeated"
                                [] s \in L \ R -> "lost"
                                [] OTHER -> P[s]]
  <2>1. ASSUME NEW s \in Samples
        PROVE  PlaceOf(s)' = CASE s \in R -> "repeated"
                               [] s \in L \ R -> "lost"
                               [] OTHER -> PlaceOf(s)
    <3>1. CASE s \in R
      <4>1. s \notin L \ R
        BY <3>1
      <4> HIDE DEF R, L
      <4> QED BY <1>4, <3>1, <4>1
    <3>2. CASE s \notin R
      <4>1. s \in L => PlaceOf(s)' = "lost"
        OBVIOUS
      <4> HIDE DEF R, L
      <4> QED BY <1>5, <3>2, <4>1
    <3> QED BY <3>1, <3>2
  <2> QED BY <2>1
<1>7. L \in SUBSET Samples /\ R \in SUBSET Samples
  OBVIOUS
<1>8. (\A s \in L : P[s] = "agent") /\ (\A s \in R : P[s] \notin {"future", "stored"})
  BY <1>4
<1>9. Link # "killed" /\ Link' = "killed"
  BY <1>1 DEF Link
<1> HIDE DEF P, R, L
<1> QED BY <1>6, <1>7, <1>8, <1>9 DEF Promised!Kill, P, Link

-----------------------------------------------------------------------------
(* The refinement.                                                         *)

LEMMA CustodyInit == ASSUME Init PROVE Promised!Init
<1>1. ASSUME NEW s \in Samples PROVE PlaceOf(s) = "future"
  <2>1. /\ disk.records = {} /\ reread = {} /\ records = {} /\ queue = <<>> /\ ~Down
        /\ \A c \in Conn : toServer[c] = <<>> /\ oldData[c] = <<>>
        /\ s > taken
    BY DEF Init, AgentInit, InTable, Samples, Down
  <2> QED BY <2>1 DEF PlaceOf, InSeq, InQueue
<1>2. Link = "none"
  BY DEF Init, AgentInit, Link
<1> QED BY <1>1, <1>2 DEF Promised!Init, Link

\* A kill is a Kill, and any other step one of the moves of samples.
LEMMA CustodyNext ==
  ASSUME Both, [Next]_vars
  PROVE  Promised!Next
<1> DEFINE P == [s \in Samples |-> PlaceOf(s)]
<1>1. CASE AgentCrash
  <2>1. Killed
    BY <1>1, MovesCrash DEF Both, CopyInv
  <2>2. Promised!Kill
    BY <2>1, CustodyKilled
  <2> QED BY <2>2 DEF Promised!Next
<1>2. CASE ~AgentCrash
  <2>1. Moves
    BY <1>2, MovesNext DEF Both, CopyInv
  <2>2. Link' \in {"none", "up", "dead", Link}
    <3>1. CASE pc = "killed"
      <4>1. Link = "killed" /\ Link' \in {"none", "up", "dead", "killed"}
        BY <3>1 DEF Link
      <4> QED BY <4>1
    <3>2. CASE pc # "killed"
      <4>1. pc' # "killed"
        BY <1>2, <3>2, KilledOnly
      <4> QED BY <4>1 DEF Link
    <3> QED BY <3>1, <3>2
  <2>3. CASE TakenSaved
    <3>1. Link = "none"
      BY <2>3, LinkRule DEF TakenSaved, Taken
    <3>2. Promised!Take
      BY <2>3, <3>1, CustodyTakenSaved DEF Promised!Take, Link
    <3> QED BY <2>2, <3>2 DEF Promised!Next, Link
  <2>4. CASE TakenSent
    <3>1. Link = IF Alive(fd) THEN "up" ELSE "dead"
      BY <2>4, LinkRule DEF TakenSent, Taken
    <3>2. Promised!Take
      BY <2>4, <3>1, CustodyTakenSent DEF Promised!Take, Link
    <3> QED BY <2>2, <3>2 DEF Promised!Next, Link
  <2>5. CASE Resent
    <3>1. Link = IF Alive(fd) THEN "up" ELSE "dead"
      BY <2>5, LinkRule DEF Resent
    <3>2. Promised!Send \/ UNCHANGED P
      BY <2>5, <3>1, CustodyResent DEF Promised!Send, Link
    <3> QED BY <2>2, <3>2 DEF Promised!Next, Link
  <2>6. Stays => UNCHANGED P
    BY CustodyStays
  <2>7. Loses => Promised!LoseConnection
    BY CustodyLoses
  <2>8. Restarts => Promised!LoseServer
    BY CustodyRestarts
  <2>9. ASSUME NEW c \in Conn, Inserts(c) \/ Gathers(c) \/ Stores(c)
        PROVE  Promised!Receive \/ Promised!Store \/ Promised!LoseConnection \/ UNCHANGED P
    <3>1. Gathers(c) => Promised!Receive \/ UNCHANGED P
      <4>1. Promised!Move("connection", "server") => Promised!Receive
        BY DEF Promised!Receive
      <4> QED BY <4>1, CustodyGathers
    <3> HIDE DEF P
    <3> QED BY <2>9, <3>1, CustodyInserts, CustodyStores DEF P
  <2>10. CASE Stays \/ Loses \/ Restarts \/ \E c \in Conn : Inserts(c) \/ Gathers(c) \/ Stores(c)
    <3>1. \/ Promised!Receive \/ Promised!Store \/ Promised!LoseConnection
          \/ Promised!LoseServer \/ UNCHANGED P
      BY <2>6, <2>7, <2>8, <2>9, <2>10
    <3> QED BY <2>2, <3>1 DEF Promised!Next, Link
  <2> QED BY <2>1, <2>3, <2>4, <2>5, <2>10 DEF Moves
<1> QED BY <1>1, <1>2

\* A saved sample leaves the agent only for a connection or when the agent is
\* killed, is lost only with the connection, its batch, an open transaction or
\* the agent, and never comes back but from olddata; one that is in the file
\* of the database stays there (agent_lin/main.cpp:88-194,
\* client.cpp:177-184 and 252-264, db.cpp:215-249).
THEOREM CustodyCorrect == Spec => KeepsCustody
<1>1. Init => Promised!Init
  BY CustodyInit
<1>2. TypeOK /\ TxnInv /\ CopyInv /\ AllPlaced /\ AllPlaced' /\ [Next]_vars
        => [Promised!Next]_(Promised!vars)
  BY CustodyNext DEF Both
<1>3. Spec => [](TypeOK /\ TxnInv /\ CopyInv /\ AllPlaced)
  BY TypeCorrect, TablesHold, CopiesHold, Placed, PTL
<1> QED BY <1>1, <1>2, <1>3, PTL DEF Spec, KeepsCustody, Promised!Spec
=============================================================================
