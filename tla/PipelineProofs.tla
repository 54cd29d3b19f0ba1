--------------------------- MODULE PipelineProofs ---------------------------
(***************************************************************************)
(* Proofs about Pipeline, for any number of connections, samples and       *)
(* configurations, any faults and either agent.                            *)
(***************************************************************************)
EXTENDS Pipeline, SequenceTheorems, TLAPS

-----------------------------------------------------------------------------
(* Types.                                                                  *)

Batch == Seq(Samples \cup {Junk})

\* The agent's loop and what it keeps.
LoopType ==
  /\ pc \in {"down", "killed", "connect", "reply", "read", "sample", "resend",
             "apply", "renaming", "saving"}
  /\ state \in {"NotConnected", "WaitingForConfig", "Connected"}
  /\ queue \in Batch /\ file \in Batch /\ taken \in 0..MaxSample

ConfType ==
  /\ cfg \in Config \cup {LocalConfig, UnsetConfig, NoFile}
  /\ cfgFile \in Config \cup {LocalConfig, UnsetConfig, NoFile}
  /\ cfgChanged \in BOOLEAN /\ winsock \in {"absent", "up", "cleaned"}

\* The socket the agent waits on or sends to is one it has.
FdType ==
  /\ fd \in Conn \cup {NoConn}
  /\ (pc = "reply" \/ state # "NotConnected") => fd \in Conn /\ aOpen[fd]
  /\ pc = "reply" => state = "NotConnected"
  /\ pc = "read" => state # "NotConnected"

EndsType == {aOpen, sOpen, cut} \subseteq [Conn -> BOOLEAN]

ToServerType == toServer \in [Conn -> Seq(ToServer)]

ToAgentType == toAgent \in [Conn -> Seq(ToAgent)]

ClientType == authorized \in [Conn -> BOOLEAN] /\ oldData \in [Conn -> Batch]

TableType ==
  /\ disk \in [records : SUBSET (Samples \cup {Junk}), row : Config]
  /\ disk.records \subseteq records /\ records \subseteq Samples \cup {Junk}
  /\ row \in Config /\ txn \in BOOLEAN

BudgetType ==
  /\ reread \subseteq Samples
  /\ faults \in 0..MaxFaults /\ busy \in 0..MaxBusy
  /\ crashes \in 0..MaxCrashes /\ stops \in 0..MaxStops

\* TypeOK is what these say, before a step and after it.
LEMMA TypeParts ==
  /\ TypeOK <=> /\ LoopType /\ ConfType /\ FdType /\ EndsType /\ ToServerType
                /\ ToAgentType /\ ClientType /\ TableType /\ BudgetType
  /\ TypeOK' <=> /\ LoopType' /\ ConfType' /\ FdType' /\ EndsType' /\ ToServerType'
                 /\ ToAgentType' /\ ClientType' /\ TableType' /\ BudgetType'
<1>1. TypeOK <=> /\ LoopType /\ ConfType /\ FdType /\ EndsType /\ ToServerType
                 /\ ToAgentType /\ ClientType /\ TableType /\ BudgetType
  BY DEF TypeOK, LoopType, ConfType, FdType, EndsType, ToServerType,
     ToAgentType, ClientType, TableType, BudgetType, Batch
<1>2. TypeOK' <=> /\ LoopType' /\ ConfType' /\ FdType' /\ EndsType' /\ ToServerType'
                  /\ ToAgentType' /\ ClientType' /\ TableType' /\ BudgetType'
  BY DEF TypeOK, LoopType, ConfType, FdType, EndsType, ToServerType,
     ToAgentType, ClientType, TableType, BudgetType, Batch
<1> QED BY <1>1, <1>2

\* A part is kept by a step that changes none of its variables.
LEMMA NetFrame ==
  ASSUME EndsType, ToServerType, ToAgentType, UNCHANGED netVars
  PROVE  EndsType' /\ ToServerType' /\ ToAgentType'
BY DEF EndsType, ToServerType, ToAgentType, netVars

LEMMA ServerFrame ==
  ASSUME ClientType, TableType, UNCHANGED serverVars
  PROVE  ClientType' /\ TableType'
BY DEF ClientType, TableType, serverVars, clientVars, tableVars

LEMMA BudgetFrame == ASSUME BudgetType, UNCHANGED budgetVars PROVE BudgetType'
BY DEF BudgetType, budgetVars

-----------------------------------------------------------------------------
(* What the agent does to its connections.                                 *)

\* Packets.
LEMMA MsgTypes ==
  /\ \A s \in Samples \cup {Junk} : Msg("LIVE", s) \in ToServer /\ Msg("OLD", s) \in ToServer
  /\ Msg("AUTH", 0) \in ToServer
  /\ \A n \in Config \cup {UnsetConfig} : Msg("CONFIG", n) \in ToAgent
  /\ Msg("REPLY", 0) \in ToAgent /\ Msg("REPLY", 1) \in ToAgent
BY DEF Msg, ToServer, ToAgent, Junk

LEMMA CloseFdType ==
  ASSUME TypeOK, CloseFd, UNCHANGED sOpen, UNCHANGED cut
  PROVE  EndsType' /\ ToAgentType'
<1>1. EndsType /\ ToAgentType
  BY TypeParts
<1>2. EndsType'
  BY <1>1 DEF EndsType, CloseFd
<1>3. ToAgentType'
  BY <1>1, EmptySeq DEF ToAgentType, CloseFd
<1> QED BY <1>2, <1>3

LEMMA CloseAllType ==
  ASSUME TypeOK, CloseAll
  PROVE  EndsType' /\ ToAgentType' /\ ToServerType'
<1>1. EndsType /\ ToServerType
  BY TypeParts
<1> QED BY <1>1, EmptySeq DEF EndsType, ToAgentType, ToServerType, CloseAll

LEMMA SentType ==
  ASSUME TypeOK, NEW m \in ToServer, Sent(m)
  PROVE  EndsType' /\ ToAgentType' /\ ToServerType'
<1>1. EndsType /\ ToServerType /\ ToAgentType
  BY TypeParts
<1>2. EndsType' /\ ToAgentType'
  BY <1>1 DEF EndsType, ToAgentType, Sent
<1>3. \A c \in Conn : Append(toServer[c], m) \in Seq(ToServer)
  <2> HIDE DEF ToServer
  <2> QED BY <1>1 DEF ToServerType
<1>4. ToServerType'
  BY <1>1, <1>3 DEF ToServerType, Sent
<1> QED BY <1>2, <1>4

\* The agent reads a packet.
LEMMA PopType ==
  ASSUME TypeOK, NEW c \in Conn, toAgent[c] # <<>>,
         toAgent' = [toAgent EXCEPT ![c] = Tail(@)]
  PROVE  ToAgentType' /\ Head(toAgent[c]) \in ToAgent
<1>1. ToAgentType
  BY TypeParts
<1>2. toAgent[c] \in Seq(ToAgent)
  BY <1>1 DEF ToAgentType
<1>3. Head(toAgent[c]) \in ToAgent /\ Tail(toAgent[c]) \in Seq(ToAgent)
  BY <1>2, HeadTailProperties
<1>4. ToAgentType'
  BY <1>1, <1>3 DEF ToAgentType
<1> QED BY <1>3, <1>4

-----------------------------------------------------------------------------
(* The agent's steps.                                                      *)

AgentType == LoopType /\ ConfType /\ FdType /\ EndsType /\ ToServerType /\ ToAgentType

\* What a sequence of samples becomes.
LEMMA BatchTypes ==
  /\ <<>> \in Batch /\ <<Junk>> \in Batch
  /\ \A q \in Batch, s \in Samples : Append(q, s) \in Batch
  /\ \A q \in Batch : q # <<>> =>
       Head(q) \in Samples \cup {Junk} /\ Tail(q) \in Batch
<1> DEFINE S == Samples \cup {Junk}
<1>1. Batch = Seq(S) /\ Samples \subseteq S /\ Junk \in S
  BY DEF Batch
<1> HIDE DEF S
<1>2. \A q \in Seq(S) : q # <<>> => Head(q) \in S /\ Tail(q) \in Seq(S)
  BY HeadTailProperties
<1>3. <<>> \in Seq(S) /\ <<Junk>> \in Seq(S) /\ \A q \in Seq(S), s \in S : Append(q, s) \in Seq(S)
  BY <1>1
<1> QED BY <1>1, <1>2, <1>3 DEF S

\* Steps that touch no connection.
Quiet ==
  \/ ConnectSkipped \/ ReadNothing \/ SampleSkipped \/ SampleSaved
  \/ NothingToResend \/ Apply \/ Stop

LEMMA QuietType ==
  ASSUME TypeOK, Quiet, UNCHANGED winsock
  PROVE  AgentType'
<1>1. LoopType /\ ConfType /\ FdType /\ EndsType /\ ToServerType /\ ToAgentType
  BY TypeParts
<1>2. UNCHANGED netVars /\ UNCHANGED state /\ UNCHANGED fd
  BY DEF ConnectSkipped, ReadNothing, SampleSkipped, SampleSaved,
     NothingToResend, Apply, Stop, Quiet
<1>3. EndsType' /\ ToServerType' /\ ToAgentType'
  BY <1>1, <1>2, NetFrame
<1>4. pc' \in {"sample", "resend", "apply", "connect", "saving"}
  BY DEF ConnectSkipped, ReadNothing, SampleSkipped, SampleSaved, NewSample,
     NothingToResend, Apply, Stop, Quiet
<1>5. FdType'
  BY <1>1, <1>2, <1>4 DEF FdType, netVars
<1>6. ConfType'
  BY <1>1 DEF ConfType, confVars, ConnectSkipped, ReadNothing, SampleSkipped,
     SampleSaved, NothingToResend, Apply, Stop, Quiet
<1>7. LoopType'
  <2>1. queue' \in Batch
    <3>1. CASE SampleSaved
      <4>1. taken' \in Samples /\ queue \in Batch
        BY <1>1, <3>1, AgentAssumption DEF LoopType, SampleSaved, NewSample, Samples
      <4> QED BY <3>1, <4>1, BatchTypes DEF SampleSaved
    <3>2. CASE ~SampleSaved
      BY <1>1, <3>2 DEF LoopType, ConnectSkipped, ReadNothing, SampleSkipped,
         NothingToResend, Apply, Stop, Quiet
    <3> QED BY <3>1, <3>2
  <2>2. file' \in Batch
    BY <1>1, BatchTypes DEF LoopType, ConnectSkipped, ReadNothing,
       SampleSkipped, SampleSaved, NothingToResend, Apply, Stop, Quiet
  <2>3. taken' \in 0..MaxSample
    BY <1>1, AgentAssumption DEF LoopType, ConnectSkipped, ReadNothing,
       SampleSkipped, SampleSaved, NewSample, NothingToResend, Apply, Stop, Quiet
  <2> QED BY <1>1, <1>2, <1>4, <2>1, <2>2, <2>3 DEF LoopType
<1> QED BY <1>3, <1>5, <1>6, <1>7 DEF AgentType

\* Steps that give up the connection, each after its own test.
Disconnects ==
  \/ ReplyLost \/ ReadEof \/ SampleUnsent \/ ResendFails
  \/ ReplyTimeout \/ ConfigTimeout \/ ReadTimeout
  \/ WinReplyReset
  \/ ReadReply /\ Disconnect

LEMMA DisconnectsType ==
  ASSUME TypeOK, Disconnects, Disconnect, UNCHANGED winsock
  PROVE  AgentType'
<1>1. LoopType /\ ConfType /\ FdType /\ EndsType /\ ToServerType /\ ToAgentType
  BY TypeParts
<1>2. /\ CloseFd /\ state' = "NotConnected" /\ UNCHANGED sOpen /\ UNCHANGED cut
      /\ UNCHANGED toServer /\ UNCHANGED fd
  BY DEF Disconnect, Disconnects, ReplyLost, ReadEof, SampleUnsent, ResendFails,
     SendFails, ReplyTimeout, ConfigTimeout, ReadTimeout, WinReplyReset, ReadReply
<1>3. EndsType' /\ ToAgentType'
  BY <1>2, CloseFdType
<1>4. ToServerType'
  BY <1>1, <1>2 DEF ToServerType
<1>5. pc' \in {"sample", "resend", "apply", "read"} /\ (pc' = "read" => state' # "NotConnected")
  BY DEF Disconnects, ReplyLost, ReadEof, SampleUnsent, ResendFails, NewSample,
     ReplyTimeout, ConfigTimeout, ReadTimeout, WinReplyReset, ReadReply
<1>6. FdType'
  BY <1>1, <1>2, <1>5 DEF FdType
<1>7. UNCHANGED confVars /\ UNCHANGED queue /\ UNCHANGED file
      /\ (taken' = taken \/ (taken < MaxSample /\ taken' = taken + 1))
  BY DEF Disconnects, ReplyLost, ReadEof, SampleUnsent, ResendFails, NewSample,
     ReplyTimeout, ConfigTimeout, ReadTimeout, WinReplyReset, ReadReply
<1>8. ConfType'
  BY <1>1, <1>7 DEF ConfType, confVars
<1>9. LoopType'
  BY <1>1, <1>2, <1>5, <1>7, AgentAssumption DEF LoopType
<1> QED BY <1>3, <1>4, <1>6, <1>8, <1>9 DEF AgentType

LEMMA CleanUpType ==
  ASSUME TypeOK, CleanUp
  PROVE  AgentType'
<1>1. LoopType /\ ConfType /\ FdType /\ EndsType /\ ToServerType /\ ToAgentType
  BY TypeParts
<1>2. EndsType'
  BY <1>1 DEF EndsType, CleanUp
<1>3. ToServerType' /\ ToAgentType'
  BY <1>1, EmptySeq DEF ToServerType, ToAgentType, CleanUp
<1>4. LoopType' /\ ConfType' /\ FdType'
  BY <1>1 DEF LoopType, ConfType, FdType, CleanUp, confVars
<1> QED BY <1>2, <1>3, <1>4 DEF AgentType

\* Steps that read a packet, and the one that takes an error for one.
Gets ==
  \/ ReadReply /\ Head(toAgent[fd]).type = "REPLY"
  \/ ReadPacket
  \/ WinReplyReset /\ OnWindows /\ UNCHANGED netVars /\ UNCHANGED state

LEMMA GetsType ==
  ASSUME TypeOK, Gets, UNCHANGED winsock
  PROVE  AgentType'
<1>1. LoopType /\ ConfType /\ FdType /\ EndsType /\ ToServerType /\ ToAgentType
  BY TypeParts
<1>2. CASE WinReplyReset /\ UNCHANGED netVars /\ UNCHANGED state
  <2>1. EndsType' /\ ToServerType' /\ ToAgentType'
    BY <1>1, <1>2, NetFrame
  <2>2. LoopType' /\ ConfType' /\ FdType'
    BY <1>1, <1>2 DEF LoopType, ConfType, FdType, WinReplyReset, confVars, netVars
  <2> QED BY <2>1, <2>2 DEF AgentType
<1>3. CASE ReadReply /\ Head(toAgent[fd]).type = "REPLY"
  <2>1. /\ fd \in Conn /\ aOpen[fd] /\ toAgent[fd] # <<>>
        /\ toAgent' = [toAgent EXCEPT ![fd] = Tail(@)]
        /\ UNCHANGED aOpen /\ UNCHANGED sOpen /\ UNCHANGED cut /\ UNCHANGED fd
        /\ UNCHANGED toServer
        /\ \/ state' = "WaitingForConfig" /\ pc' = "read"
           \/ UNCHANGED state /\ pc' = "sample"
    BY <1>1, <1>3 DEF ReadReply, FdType
  <2>2. ToAgentType'
    BY <2>1, PopType
  <2>3. EndsType' /\ ToServerType' /\ FdType'
    BY <1>1, <2>1 DEF EndsType, ToServerType, FdType
  <2>4. LoopType' /\ ConfType'
    BY <1>1, <1>3, <2>1 DEF LoopType, ConfType, ReadReply, confVars
  <2> QED BY <2>2, <2>3, <2>4 DEF AgentType
<1>4. CASE ReadPacket
  <2>1. /\ fd \in Conn /\ aOpen[fd] /\ toAgent[fd] # <<>> /\ pc' = "sample"
        /\ toAgent' = [toAgent EXCEPT ![fd] = Tail(@)]
        /\ UNCHANGED aOpen /\ UNCHANGED sOpen /\ UNCHANGED cut /\ UNCHANGED fd
        /\ UNCHANGED toServer /\ UNCHANGED file /\ UNCHANGED queue /\ UNCHANGED taken
        /\ UNCHANGED cfgFile
    BY <1>1, <1>4 DEF ReadPacket, Reading, FdType
  <2>2. ToAgentType' /\ Head(toAgent[fd]) \in ToAgent
    BY <2>1, PopType
  <2>3. EndsType' /\ ToServerType' /\ FdType'
    BY <1>1, <2>1 DEF EndsType, ToServerType, FdType
  <2>4. /\ cfg' \in Config \cup {LocalConfig, UnsetConfig, NoFile}
        /\ cfgChanged' \in BOOLEAN
        /\ state' \in {"NotConnected", "WaitingForConfig", "Connected"}
    <3> DEFINE m == Head(toAgent[fd])
    <3>1. CASE m.type = "CONFIG"
      <4>1. m.val \in Config \cup {UnsetConfig}
        BY <2>2, <3>1 DEF ToAgent
      <4> QED BY <1>4, <3>1, <4>1 DEF ReadPacket
    <3>2. CASE m.type # "CONFIG"
      BY <1>1, <1>4, <3>2 DEF ReadPacket, LoopType, ConfType
    <3> QED BY <3>1, <3>2
  <2>5. LoopType' /\ ConfType'
    BY <1>1, <2>1, <2>4 DEF LoopType, ConfType
  <2> QED BY <2>2, <2>3, <2>5 DEF AgentType
<1> QED BY <1>2, <1>3, <1>4 DEF Gets

\* A sample is sent.
LEMMA SendsType ==
  ASSUME TypeOK, SampleSent \/ Resend, UNCHANGED winsock
  PROVE  AgentType'
<1>1. LoopType /\ ConfType /\ FdType /\ EndsType /\ ToServerType /\ ToAgentType
  BY TypeParts
<1>2. \E m \in ToServer : Sent(m)
  <2>1. CASE SampleSent
    <3>1. taken' \in Samples
      BY <1>1, <2>1, AgentAssumption DEF LoopType, SampleSent, NewSample, Samples
    <3> QED BY <2>1, <3>1, MsgTypes DEF SampleSent
  <2>2. CASE Resend
    <3>1. Head(queue) \in Samples \cup {Junk}
      BY <1>1, <2>2, BatchTypes DEF LoopType, Resend
    <3> QED BY <2>2, <3>1, MsgTypes DEF Resend
  <2> QED BY <2>1, <2>2
<1>3. EndsType' /\ ToAgentType' /\ ToServerType'
  BY <1>2, SentType
<1>4. UNCHANGED state /\ UNCHANGED fd /\ UNCHANGED aOpen /\ UNCHANGED confVars
      /\ UNCHANGED file /\ pc' \in {"resend", "apply"}
  BY DEF SampleSent, Resend, Sent, NewSample
<1>5. ConfType' /\ FdType'
  BY <1>1, <1>4 DEF ConfType, FdType, confVars
<1>6. taken' \in 0..MaxSample
  BY <1>1, AgentAssumption DEF LoopType, SampleSent, Resend, NewSample
<1>7. queue' \in Batch
  BY <1>1, BatchTypes DEF LoopType, SampleSent, Resend
<1>8. LoopType'
  BY <1>1, <1>4, <1>6, <1>7 DEF LoopType
<1> QED BY <1>3, <1>5, <1>8 DEF AgentType

LEMMA ConnectType ==
  ASSUME TypeOK, Connect, UNCHANGED winsock
  PROVE  AgentType'
<1>1. LoopType /\ ConfType /\ FdType /\ EndsType /\ ToServerType /\ ToAgentType
  BY TypeParts
<1>2. PICK c \in Conn :
       /\ fd' = c
       /\ aOpen' = [aOpen EXCEPT ![c] = TRUE]
       /\ sOpen' = [sOpen EXCEPT ![c] = TRUE]
       /\ cut' = [cut EXCEPT ![c] = FALSE]
       /\ toServer' = [toServer EXCEPT ![c] = <<Msg("AUTH", 0)>>]
       /\ toAgent' = [toAgent EXCEPT ![c] = <<>>]
  BY DEF Connect
<1>3. EndsType'
  BY <1>1, <1>2 DEF EndsType
<1>4. <<Msg("AUTH", 0)>> \in Seq(ToServer)
  <2> HIDE DEF ToServer
  <2> QED BY MsgTypes
<1>5. ToServerType' /\ ToAgentType'
  BY <1>1, <1>2, <1>4, EmptySeq DEF ToServerType, ToAgentType
<1>6. FdType'
  BY <1>1, <1>2 DEF FdType, EndsType, Connect
<1>7. LoopType' /\ ConfType'
  BY <1>1 DEF LoopType, ConfType, Connect, confVars
<1> QED BY <1>3, <1>5, <1>6, <1>7 DEF AgentType

\* The process ends, or starts.
LEMMA UnfinishedType ==
  ASSUME queue \in Batch, NEW f \in Unfinished
  PROVE  f \in Batch
<1>1. CASE f = <<Junk>>
  BY <1>1, BatchTypes
<1>2. CASE f # <<Junk>>
  <2>1. PICK k \in 0..Len(queue) :
          f = [i \in 1..Len(queue) |-> IF i <= k THEN queue[i] ELSE Junk]
    BY <1>2 DEF Unfinished
  <2> QED BY <2>1 DEF Batch
<1> QED BY <1>1, <1>2

LEMMA ProcessType ==
  ASSUME TypeOK,
         \/ (Saved \/ StartUp \/ StartUpNoCount) /\ CommonWinsock
         \/ Crash /\ UNCHANGED winsock
  PROVE  AgentType'
<1>1. LoopType /\ ConfType /\ FdType /\ EndsType /\ ToServerType /\ ToAgentType
  BY TypeParts
<1>2. winsock' \in {"absent", "up", "cleaned"}
  BY <1>1 DEF ConfType, CommonWinsock
<1>3. CASE Saved \/ Crash
  <2>1. CloseAll /\ queue' = <<>> /\ UNCHANGED taken /\ pc' \in {"down", "killed"}
    BY <1>3 DEF Saved, Crash
  <2>2. EndsType' /\ ToServerType' /\ ToAgentType'
    BY <2>1, CloseAllType
  <2>3. FdType'
    BY <2>1 DEF FdType, CloseAll
  <2>4. file' \in Batch
    BY <1>1, <1>3, UnfinishedType DEF Saved, Crash, LoopType
  <2>5. LoopType'
    BY <1>1, <2>1, <2>4, BatchTypes DEF LoopType, CloseAll
  <2>6. ConfType'
    BY <1>1, <1>2, <1>3 DEF ConfType, Saved, Crash, confVars
  <2> QED BY <2>2, <2>3, <2>5, <2>6 DEF AgentType
<1>4. CASE StartUp \/ StartUpNoCount
  <2>1. Starts /\ queue' \in Batch
    BY <1>1, <1>4, BatchTypes DEF StartUp, StartUpNoCount, LoopType
  <2>2. EndsType' /\ ToServerType' /\ ToAgentType'
    BY <1>1, <2>1, NetFrame DEF Starts
  <2>3. FdType'
    BY <1>1, <2>1 DEF FdType, Starts, netVars
  <2>4. LoopType' /\ ConfType'
    BY <1>1, <1>2, <2>1 DEF LoopType, ConfType, Starts
  <2> QED BY <2>2, <2>3, <2>4 DEF AgentType
<1> QED BY <1>3, <1>4

\* The Windows agent replaces its configuration file.
LEMMA WinFileType ==
  ASSUME TypeOK, WinApply \/ WinRename
  PROVE  AgentType'
<1>1. LoopType /\ ConfType /\ FdType /\ EndsType /\ ToServerType /\ ToAgentType
  BY TypeParts
<1>2. UNCHANGED netVars /\ UNCHANGED state /\ UNCHANGED fd /\ UNCHANGED winsock
      /\ UNCHANGED queue /\ UNCHANGED taken /\ UNCHANGED file
      /\ pc' \in {"renaming", "connect"}
  BY DEF WinApply, WinRename
<1>3. EndsType' /\ ToServerType' /\ ToAgentType'
  BY <1>1, <1>2, NetFrame
<1>4. FdType' /\ LoopType'
  BY <1>1, <1>2 DEF FdType, LoopType, netVars
<1>5. ConfType'
  BY <1>1, <1>2 DEF ConfType, WinApply, WinRename
<1> QED BY <1>3, <1>4, <1>5 DEF AgentType

\* Every step of the agent is of one of these kinds.
LEMMA AgentKinds ==
  ASSUME AgentStep \/ AgentTimeout
  PROVE  \/ Quiet /\ ~Down /\ ~Stop /\ UNCHANGED winsock
         \/ Disconnects /\ Disconnect /\ ~Down /\ UNCHANGED winsock
         \/ CleanUp /\ pc \in {"reply", "read", "connect"} /\ OnWindows
         \/ Gets /\ ~Down /\ UNCHANGED winsock
         \/ (SampleSent \/ Resend) /\ ~Down /\ UNCHANGED winsock
         \/ Connect /\ ~Down /\ UNCHANGED winsock
         \/ Saved /\ ~Down /\ UNCHANGED winsock
         \/ (StartUp \/ StartUpNoCount) /\ Down /\ CommonWinsock
         \/ (WinApply \/ WinRename) /\ ~Down /\ OnWindows
<1> DEFINE Same == ~Down /\ UNCHANGED winsock
<1>1. ASSUME CommonStep, CommonWinsock
      PROVE  \/ Quiet /\ ~Stop /\ Same
             \/ Disconnects /\ Disconnect /\ Same
             \/ Gets /\ Same
             \/ (SampleSent \/ Resend \/ Saved) /\ Same
             \/ (StartUp \/ StartUpNoCount) /\ Down
  <2>1. CASE StartUp \/ StartUpNoCount
    BY <2>1 DEF StartUp, StartUpNoCount, Starts
  <2>2. CASE ~(StartUp \/ StartUpNoCount)
    <3>1. ~Down
      BY <1>1, <2>2 DEF CommonStep, ConnectSkipped, ReadReply, ReadNothing,
         ReadPacket, Reading, SampleSkipped, SampleSent, SampleSaved, NewSample,
         Resend, NothingToResend, Saved, Down
    <3>2. Same
      BY <1>1, <3>1 DEF CommonWinsock
    <3>3. ~Stop
      BY <1>1, <2>2 DEF CommonStep, ConnectSkipped, ReadReply, ReadNothing,
         ReadPacket, Reading, SampleSkipped, SampleSent, SampleSaved, NewSample,
         Resend, NothingToResend, Saved, Stop
    <3>4. CASE ReadReply
      BY <3>2, <3>4 DEF ReadReply, Gets, Disconnects
    <3>5. CASE ~ReadReply
      BY <1>1, <2>2, <3>2, <3>3, <3>5 DEF CommonStep, Quiet, Gets
    <3> QED BY <3>4, <3>5
  <2> QED BY <2>1, <2>2
<1>2. ASSUME LinuxStep \/ LinuxTimeout, UNCHANGED winsock
      PROVE  \/ Quiet /\ ~Stop /\ Same
             \/ Disconnects /\ Disconnect /\ Same
             \/ Connect /\ Same
  <2>1. ~Down /\ ~Stop
    BY <1>2 DEF LinuxStep, LinuxTimeout, Connect, ReplyLost, ReadEof, Reading,
       SampleUnsent, NewSample, ResendFails, Apply, ReplyTimeout, ConfigTimeout,
       ReadTimeout, Down, Stop
  <2>2. CASE Connect \/ Apply
    BY <1>2, <2>1, <2>2 DEF Quiet
  <2>3. CASE ~(Connect \/ Apply)
    BY <1>2, <2>1, <2>3 DEF LinuxStep, LinuxTimeout, Disconnects, ReplyLost,
       ReadEof, SampleUnsent, ResendFails, SendFails, ReplyTimeout,
       ConfigTimeout, ReadTimeout
  <2> QED BY <2>2, <2>3
<1>3. ASSUME WinStep \/ WinTimeout, OnWindows
      PROVE  \/ Disconnects /\ Disconnect /\ Same
             \/ CleanUp /\ pc \in {"reply", "read", "connect"}
             \/ Gets /\ Same
             \/ Connect /\ Same
             \/ (WinApply \/ WinRename) /\ ~Down
  <2>1. ~Down
    BY <1>3 DEF WinStep, WinTimeout, WinConnect, Connect, WinReplyLost,
       WinReplyReset, WinReadEof, Reading, WinApply, WinRename, WinReplyTimeout,
       WinConfigTimeout, WinReadTimeout, Down
  <2>2. CASE WinReplyReset
    BY <1>3, <2>1, <2>2 DEF WinReplyReset, Disconnects, Gets, netVars
  <2>3. CASE ~WinReplyReset
    BY <1>3, <2>1, <2>3 DEF WinStep, WinTimeout, WinConnect, WinReplyLost,
       WinReadEof, WinReplyTimeout, WinConfigTimeout, WinReadTimeout, Reading
  <2> QED BY <2>2, <2>3
<1> QED
  BY <1>1, <1>2, <1>3 DEF AgentStep, AgentTimeout

LEMMA AgentKeepsType ==
  ASSUME TypeOK,
         \/ AgentStep \/ AgentTimeout
         \/ (Stop \/ Crash) /\ UNCHANGED winsock
  PROVE  AgentType'
<1>1. CASE Stop /\ UNCHANGED winsock
  BY <1>1, QuietType DEF Quiet
<1>2. CASE Crash /\ UNCHANGED winsock
  BY <1>2, ProcessType
<1>3. CASE AgentStep \/ AgentTimeout
  <2>1. ASSUME Saved, UNCHANGED winsock, ~Down PROVE AgentType'
    <3>1. CommonWinsock
      BY <2>1 DEF CommonWinsock
    <3> QED BY <2>1, <3>1, ProcessType
  <2> QED BY <1>3, <2>1, AgentKinds, QuietType, DisconnectsType, CleanUpType,
             GetsType, SendsType, ConnectType, ProcessType, WinFileType
<1> QED BY <1>1, <1>2, <1>3

-----------------------------------------------------------------------------
(* The server's steps and the faults.                                      *)

LEMMA ReplyType ==
  ASSUME TypeOK, NEW c \in Conn, NEW msgs \in Seq(ToAgent), Reply(c, msgs)
  PROVE  ToAgentType'
<1>1. ToAgentType
  BY TypeParts
<1>2. toAgent[c] \o msgs \in Seq(ToAgent)
  <2> HIDE DEF ToAgent
  <2> QED BY <1>1, ConcatProperties DEF ToAgentType
<1> QED BY <1>1, <1>2 DEF Reply, ToAgentType

LEMMA ReceivesType ==
  ASSUME TypeOK, NEW c \in Conn, NEW type, Receives(c, type)
  PROVE  /\ LoopType' /\ ConfType' /\ FdType' /\ EndsType' /\ ToServerType' /\ BudgetType'
         /\ Head(toServer[c]).val \in Samples \cup {Junk}
<1>1. /\ LoopType /\ ConfType /\ FdType /\ EndsType /\ ToServerType /\ ToAgentType
      /\ BudgetType
  BY TypeParts
<1>2. toServer[c] \in Seq(ToServer) /\ toServer[c] # <<>>
  BY <1>1 DEF ToServerType, Receives
<1>3. Head(toServer[c]) \in ToServer /\ Tail(toServer[c]) \in Seq(ToServer)
  BY <1>2, HeadTailProperties
<1>4. ToServerType'
  BY <1>1, <1>3 DEF ToServerType, Receives
<1>5. Head(toServer[c]).val \in Samples \cup {Junk}
  BY <1>3 DEF ToServer
<1>6. BudgetType'
  BY <1>1, BudgetFrame DEF Receives
<1>7. LoopType' /\ ConfType'
  BY <1>1 DEF LoopType, ConfType, Receives, agentKeeps, loopVars, confVars
<1>8. FdType' /\ EndsType'
  BY <1>1 DEF FdType, EndsType, Receives, agentKeeps, loopVars
<1> QED BY <1>4, <1>5, <1>6, <1>7, <1>8

LEMMA WriteType ==
  ASSUME TypeOK, NEW recs \in SUBSET (Samples \cup {Junk}), records \subseteq recs,
         NEW r \in Config, Write(recs, r)
  PROVE  TableType'
<1>1. TableType
  BY TypeParts
<1> QED BY <1>1 DEF TableType, Write, InTable

LEMMA StoreType ==
  ASSUME TypeOK,
         \/ \E s \in Samples \cup {Junk} : \E refused : insertRecord(s, refused)
         \/ \E batch \in Batch : \E refused :
              insertRecords(batch, refused) \/ CommitFails(batch, refused)
  PROVE  TableType'
<1>1. TableType
  BY TypeParts
<1>2. ASSUME NEW s \in Samples \cup {Junk}, NEW refused, insertRecord(s, refused)
      PROVE  TableType'
  BY <1>1, <1>2, WriteType DEF insertRecord, TableType
<1>3. ASSUME NEW batch \in Batch, NEW refused,
             insertRecords(batch, refused) \/ CommitFails(batch, refused)
      PROVE  TableType'
  <2>1. Values(batch) \subseteq Samples \cup {Junk}
    BY DEF Batch, Values
  <2>2. CASE Write(records \cup Values(batch), row)
    BY <1>1, <2>1, <2>2, WriteType DEF TableType
  <2>3. CASE UNCHANGED tableVars
    BY <1>1, <2>3 DEF TableType, tableVars
  <2>4. CASE CommitFails(batch, refused)
    BY <1>1, <2>1, <2>4 DEF TableType, CommitFails
  <2> QED BY <1>3, <2>2, <2>3, <2>4 DEF insertRecords
<1> QED BY <1>2, <1>3

LEMMA FlushedType ==
  ASSUME TypeOK, NEW c \in Conn, Flushed(c)
  PROVE  AgentType' /\ ClientType' /\ oldData[c] \in Batch
<1>1. /\ LoopType /\ ConfType /\ FdType /\ EndsType /\ ToServerType /\ ToAgentType
      /\ ClientType
  BY TypeParts
<1>2. UNCHANGED agentVars /\ UNCHANGED winsock
  BY DEF Flushed, processVars
<1>3. UNCHANGED netVars
  BY <1>2 DEF agentVars
<1>4. EndsType' /\ ToServerType' /\ ToAgentType'
  BY <1>1, <1>3, NetFrame
<1>5. LoopType' /\ ConfType' /\ FdType'
  BY <1>1, <1>2 DEF LoopType, ConfType, FdType, agentVars, loopVars, confVars, netVars
<1>6. ClientType' /\ oldData[c] \in Batch
  BY <1>1, BatchTypes DEF ClientType, Flushed
<1> QED BY <1>4, <1>5, <1>6 DEF AgentType

LEMMA DeleteClientType ==
  ASSUME TypeOK, NEW c \in Conn, DeleteClient(c)
  PROVE  AgentType' /\ ClientType' /\ TableType'
<1>1. /\ LoopType /\ ConfType /\ FdType /\ EndsType /\ ToServerType /\ ToAgentType
      /\ ClientType /\ TableType
  BY TypeParts
<1>2. EndsType' /\ ToAgentType'
  BY <1>1 DEF EndsType, ToAgentType, DeleteClient
<1>3. ToServerType' /\ ClientType'
  BY <1>1, EmptySeq, BatchTypes DEF ToServerType, ClientType, DeleteClient
<1>4. LoopType' /\ ConfType' /\ FdType'
  BY <1>1 DEF LoopType, ConfType, FdType, DeleteClient, agentKeeps, loopVars, confVars
<1>5. TableType'
  BY <1>1 DEF TableType, DeleteClient, tableVars
<1> QED BY <1>2, <1>3, <1>4, <1>5 DEF AgentType

LEMMA ServerStepType ==
  ASSUME TypeOK, NEW c \in Conn, ServerStep(c)
  PROVE  TypeOK'
<1>1. ClientType /\ TableType /\ BudgetType /\ ToAgentType
  BY TypeParts
<1>2. CASE ServerAuth(c)
  <2>1. /\ LoopType' /\ ConfType' /\ FdType' /\ EndsType' /\ ToServerType' /\ BudgetType'
    BY <1>2, ReceivesType DEF ServerAuth
  <2>2. ClientType' /\ TableType'
    BY <1>1, <1>2, PipelineAssumption DEF ServerAuth, ClientType, TableType, tableVars
  <2>3. row \in Config
    BY <1>1 DEF TableType
  <2>4. /\ <<Msg("REPLY", 1), Msg("CONFIG", row)>> \in Seq(ToAgent)
        /\ <<Msg("REPLY", 0)>> \in Seq(ToAgent)
    <3>1. Msg("REPLY", 1) \in ToAgent /\ Msg("REPLY", 0) \in ToAgent /\ Msg("CONFIG", row) \in ToAgent
      BY <2>3, MsgTypes
    <3> HIDE DEF ToAgent
    <3> QED BY <3>1
  <2>5. ToAgentType'
    BY <1>2, <2>4, ReplyType DEF ServerAuth
  <2> QED BY <2>1, <2>2, <2>5, TypeParts
<1>3. CASE ServerLive(c) \/ ServerOld(c)
  <2>1. /\ LoopType' /\ ConfType' /\ FdType' /\ EndsType' /\ ToServerType' /\ BudgetType'
        /\ Head(toServer[c]).val \in Samples \cup {Junk}
    BY <1>3, ReceivesType DEF ServerLive, ServerOld
  <2>2. ToAgentType'
    BY <1>1, <1>3 DEF ToAgentType, ServerLive, ServerOld
  <2>3. CASE ServerLive(c)
    <3>1. TableType'
      BY <2>1, <2>3, StoreType DEF ServerLive
    <3>2. ClientType'
      BY <1>1, <2>3 DEF ServerLive, ClientType, clientVars
    <3> QED BY <2>1, <2>2, <3>1, <3>2, TypeParts
  <2>4. CASE ServerOld(c)
    <3>1. Append(oldData[c], Head(toServer[c]).val) \in Batch
      BY <1>1, <2>1 DEF Batch, ClientType
    <3>2. ClientType'
      BY <1>1, <2>4, <3>1 DEF ServerOld, ClientType
    <3>3. TableType'
      BY <1>1, <2>4 DEF ServerOld, TableType, tableVars
    <3> QED BY <2>1, <2>2, <3>2, <3>3, TypeParts
  <2> QED BY <1>3, <2>3, <2>4
<1>4. CASE Flush(c)
  <2>1. AgentType' /\ ClientType' /\ oldData[c] \in Batch
    BY <1>4, FlushedType DEF Flush
  <2>2. TableType'
    BY <1>4, <2>1, StoreType DEF Flush
  <2>3. BudgetType'
    BY <1>1, <1>4, BudgetFrame DEF Flush
  <2> QED BY <2>1, <2>2, <2>3, TypeParts DEF AgentType
<1>5. CASE ServerEof(c)
  BY <1>1, <1>5, DeleteClientType, BudgetFrame, TypeParts DEF ServerEof, AgentType
<1> QED BY <1>2, <1>3, <1>4, <1>5 DEF ServerStep

LEMMA FaultType == ASSUME TypeOK, Fault PROVE BudgetType'
BY TypeParts, PipelineAssumption DEF BudgetType, Fault

LEMMA ConnFaultType ==
  ASSUME TypeOK, NEW c \in Conn,
         Cut(c) \/ ServerDrops(c) \/ StoreFails(c) \/ CommitBusy(c)
  PROVE  TypeOK'
<1>1. /\ LoopType /\ ConfType /\ FdType /\ EndsType /\ ToServerType /\ ToAgentType
      /\ ClientType /\ TableType /\ BudgetType
  BY TypeParts
<1>2. CASE Cut(c)
  <2>1. EndsType'
    BY <1>1, <1>2 DEF EndsType, Cut
  <2>2. ToServerType' /\ ToAgentType'
    BY <1>1, <1>2, EmptySeq DEF ToServerType, ToAgentType, Cut
  <2>3. LoopType' /\ ConfType' /\ FdType'
    BY <1>1, <1>2 DEF LoopType, ConfType, FdType, Cut, agentKeeps, loopVars, confVars
  <2> QED BY <1>1, <1>2, <2>1, <2>2, <2>3, FaultType, ServerFrame, TypeParts DEF Cut
<1>3. CASE ServerDrops(c)
  BY <1>3, DeleteClientType, FaultType, TypeParts DEF ServerDrops, AgentType
<1>4. CASE StoreFails(c)
  <2>1. TableType' /\ BudgetType'
    BY <1>1, <1>4, FaultType DEF StoreFails, TableType, tableVars
  <2>2. CASE Flushed(c)
    BY <2>1, <2>2, FlushedType, TypeParts DEF AgentType
  <2>3. CASE ~Flushed(c)
    <3>1. /\ toServer[c] # <<>> /\ toServer' = [toServer EXCEPT ![c] = Tail(@)]
          /\ UNCHANGED agentKeeps /\ UNCHANGED aOpen /\ UNCHANGED sOpen
          /\ UNCHANGED cut /\ UNCHANGED toAgent /\ UNCHANGED clientVars
      BY <1>4, <2>3 DEF StoreFails
    <3>2. toServer[c] \in Seq(ToServer)
      BY <1>1 DEF ToServerType
    <3>3. Tail(toServer[c]) \in Seq(ToServer)
      BY <3>1, <3>2, HeadTailProperties
    <3>4. ToServerType'
      BY <1>1, <3>1, <3>3 DEF ToServerType
    <3>5. LoopType' /\ ConfType' /\ FdType' /\ EndsType' /\ ToAgentType' /\ ClientType'
      BY <1>1, <3>1 DEF LoopType, ConfType, FdType, EndsType, ToAgentType,
         ClientType, clientVars, agentKeeps, loopVars, confVars
    <3> QED BY <2>1, <3>4, <3>5, TypeParts
  <2> QED BY <2>2, <2>3
<1>5. CASE CommitBusy(c)
  <2>1. AgentType' /\ ClientType' /\ oldData[c] \in Batch
    BY <1>5, FlushedType DEF CommitBusy
  <2>2. TableType'
    BY <1>5, <2>1, StoreType DEF CommitBusy
  <2>3. BudgetType'
    BY <1>1, <1>5, PipelineAssumption DEF BudgetType, CommitBusy
  <2> QED BY <2>1, <2>2, <2>3, TypeParts DEF AgentType
<1> QED BY <1>2, <1>3, <1>4, <1>5

LEMMA ReconfigureType == ASSUME TypeOK, Reconfigure PROVE TypeOK'
<1>1. /\ LoopType /\ ConfType /\ FdType /\ EndsType /\ ToServerType /\ ToAgentType
      /\ ClientType /\ TableType /\ BudgetType
  BY TypeParts
<1>2. PICK n \in Config :
       /\ updateAgent(n)
       /\ toAgent' = [c \in Conn |->
            IF sOpen[c] /\ aOpen[c] /\ ~cut[c]
            THEN Append(toAgent[c],
                        Msg("CONFIG", IF authorized[c] THEN n ELSE UnsetConfig))
            ELSE toAgent[c]]
  BY DEF Reconfigure
<1>3. TableType'
  BY <1>1, <1>2, WriteType DEF updateAgent, TableType
<1>4. ToAgentType'
  <2>1. \A c \in Conn :
          Msg("CONFIG", IF authorized[c] THEN n ELSE UnsetConfig) \in ToAgent
    BY MsgTypes
  <2> HIDE DEF ToAgent
  <2> QED BY <1>1, <1>2, <2>1 DEF ToAgentType
<1>5. EndsType' /\ ToServerType' /\ ClientType'
  BY <1>1 DEF EndsType, ToServerType, ClientType, Reconfigure, clientVars
<1>6. LoopType' /\ ConfType' /\ FdType'
  BY <1>1 DEF LoopType, ConfType, FdType, Reconfigure, agentKeeps, loopVars, confVars
<1>7. BudgetType'
  BY <1>1, BudgetFrame DEF Reconfigure
<1> QED BY <1>3, <1>4, <1>5, <1>6, <1>7, TypeParts

LEMMA ServerRestartType == ASSUME TypeOK, ServerRestart PROVE TypeOK'
<1>1. /\ LoopType /\ ConfType /\ FdType /\ EndsType /\ ToServerType /\ ToAgentType
      /\ ClientType /\ TableType /\ BudgetType
  BY TypeParts
<1>2. EndsType' /\ ToAgentType'
  BY <1>1 DEF EndsType, ToAgentType, ServerRestart
<1>3. ToServerType' /\ ClientType'
  BY BatchTypes, EmptySeq DEF ToServerType, ClientType, ServerRestart
<1>4. TableType'
  BY <1>1 DEF TableType, ServerRestart, Reopen
<1>5. LoopType' /\ ConfType' /\ FdType'
  BY <1>1 DEF LoopType, ConfType, FdType, ServerRestart, agentKeeps, loopVars, confVars
<1> QED BY <1>2, <1>3, <1>4, <1>5, FaultType, TypeParts DEF ServerRestart

LEMMA AgentRunsType ==
  ASSUME TypeOK, AgentRuns \/ Timeout \/ AgentCrash \/ AgentStop
  PROVE  TypeOK'
<1>1. AgentType'
  BY AgentKeepsType DEF AgentRuns, Timeout, AgentCrash, AgentStop
<1>2. ClientType /\ TableType /\ BudgetType /\ LoopType
  BY TypeParts
<1>3. ClientType' /\ TableType'
  BY <1>2, ServerFrame DEF AgentRuns, Timeout, AgentCrash, AgentStop
<1>4. BudgetType'
  <2>1. CASE AgentRuns
    BY <1>2, <2>1, BudgetFrame DEF AgentRuns
  <2>2. CASE Timeout
    BY <2>2, FaultType DEF Timeout
  <2>3. CASE AgentCrash
    <3>1. reread' \subseteq Samples
      BY <1>2, <2>3 DEF BudgetType, AgentCrash
    <3> QED BY <1>2, <2>3, <3>1, PipelineAssumption DEF BudgetType, AgentCrash
  <2>4. CASE AgentStop
    BY <1>2, <2>4, PipelineAssumption DEF BudgetType, AgentStop
  <2> QED BY <2>1, <2>2, <2>3, <2>4
<1> QED BY <1>1, <1>3, <1>4, TypeParts DEF AgentType

LEMMA InitType == ASSUME Init PROVE TypeOK
<1>1. /\ pc = "connect" /\ state = "NotConnected" /\ fd = NoConn
      /\ queue = <<>> /\ taken = 0 /\ file = <<>>
      /\ cfg = LocalConfig /\ cfgChanged = FALSE /\ cfgFile = LocalConfig
      /\ winsock \in {"absent", "up", "cleaned"}
  BY PipelineAssumption DEF Init, AgentInit
<1>2. LoopType
  <2>1. 0 \in 0..MaxSample
    BY AgentAssumption
  <2> QED BY <1>1, <2>1, BatchTypes DEF LoopType
<1>8. ConfType /\ FdType
  BY <1>1 DEF ConfType, FdType
<1>3. EndsType
  BY DEF Init, AgentInit, EndsType
<1>4. ToServerType /\ ToAgentType
  BY EmptySeq DEF Init, AgentInit, ToServerType, ToAgentType
<1>5. ClientType
  BY BatchTypes DEF Init, ClientType
<1>6. TableType
  BY DEF Init, TableType, InTable
<1>7. BudgetType
  BY PipelineAssumption DEF Init, BudgetType
<1> QED BY <1>2, <1>3, <1>4, <1>5, <1>6, <1>7, <1>8, TypeParts

LEMMA NextType == ASSUME TypeOK, [Next]_vars PROVE TypeOK'
<1>1. CASE UNCHANGED vars
  BY <1>1 DEF TypeOK, vars, processVars, agentVars, loopVars, confVars, netVars,
     serverVars, clientVars, tableVars, budgetVars
<1>2. CASE Next
  BY <1>2, AgentRunsType, ServerStepType, ConnFaultType, ReconfigureType,
     ServerRestartType DEF Next
<1> QED BY <1>1, <1>2

\* Every variable keeps its type, and the agent waits on a socket it holds,
\* whatever fails (agent_lin/server.cpp, agent_win/src/serverWin.cpp).
THEOREM TypeCorrect == Spec => []TypeOK
<1>1. Init => TypeOK
  BY InitType
<1>2. TypeOK /\ [Next]_vars => TypeOK'
  BY NextType
<1> QED BY <1>1, <1>2, PTL DEF Spec

-----------------------------------------------------------------------------
(* The tables.                                                             *)

\* Without an open transaction the file has what the server sees.
TxnInv == ~txn => disk = InTable(records, row)

\* An open transaction is a COMMIT that was refused.
BusyInv == txn => busy > 0

\* What a step does to the tables.
LEMMA TableKinds ==
  ASSUME [Next]_vars
  PROVE  \/ UNCHANGED tableVars /\ UNCHANGED busy
         \/ (\E recs, r : Write(recs, r)) /\ UNCHANGED busy
         \/ Reopen /\ UNCHANGED busy
         \/ txn' = TRUE /\ busy' = busy + 1
<1>1. CASE UNCHANGED vars \/ AgentRuns \/ Timeout \/ AgentCrash \/ AgentStop
  BY <1>1 DEF vars, serverVars, budgetVars, AgentRuns, Timeout, Fault, AgentCrash,
     AgentStop
<1>2. ASSUME NEW c \in Conn, ServerStep(c)
      PROVE  \/ UNCHANGED tableVars /\ UNCHANGED busy
             \/ (\E recs, r : Write(recs, r)) /\ UNCHANGED busy
  <2>1. UNCHANGED busy
    BY <1>2 DEF ServerStep, ServerAuth, ServerLive, ServerOld, Receives, Flush,
       ServerEof, budgetVars
  <2>2. CASE ServerLive(c)
    BY <2>1, <2>2 DEF ServerLive, insertRecord
  <2>3. CASE Flush(c)
    BY <2>1, <2>3 DEF Flush, insertRecords
  <2>4. CASE ServerAuth(c) \/ ServerOld(c) \/ ServerEof(c)
    BY <2>1, <2>4 DEF ServerAuth, ServerOld, ServerEof, DeleteClient
  <2> QED BY <1>2, <2>2, <2>3, <2>4 DEF ServerStep
<1>3. ASSUME NEW c \in Conn, Cut(c) \/ ServerDrops(c) \/ StoreFails(c)
      PROVE  UNCHANGED tableVars /\ UNCHANGED busy
  BY <1>3 DEF Cut, ServerDrops, StoreFails, DeleteClient, Fault, serverVars
<1>4. ASSUME NEW c \in Conn, CommitBusy(c)
      PROVE  txn' = TRUE /\ busy' = busy + 1
  BY <1>4 DEF CommitBusy, CommitFails
<1>5. CASE Reconfigure
  BY <1>5 DEF Reconfigure, updateAgent, budgetVars
<1>6. CASE ServerRestart
  BY <1>6 DEF ServerRestart, Fault
<1> QED BY <1>1, <1>2, <1>3, <1>4, <1>5, <1>6 DEF Next

LEMMA TablesInv ==
  ASSUME TypeOK, TxnInv, BusyInv, [Next]_vars
  PROVE  TxnInv' /\ BusyInv'
<1>1. TableType /\ BudgetType
  BY TypeParts
<1>2. busy \in Nat
  BY <1>1, PipelineAssumption DEF BudgetType
<1>3. CASE UNCHANGED tableVars /\ UNCHANGED busy
  BY <1>3 DEF TxnInv, BusyInv, tableVars, InTable
<1>4. CASE (\E recs, r : Write(recs, r)) /\ UNCHANGED busy
  BY <1>4 DEF TxnInv, BusyInv, Write, InTable
<1>5. CASE Reopen /\ UNCHANGED busy
  BY <1>1, <1>5 DEF TxnInv, BusyInv, Reopen, InTable, TableType
<1>6. CASE txn' = TRUE /\ busy' = busy + 1
  BY <1>2, <1>6 DEF TxnInv, BusyInv
<1> QED BY <1>3, <1>4, <1>5, <1>6, TableKinds

LEMMA TablesHold == Spec => [](TxnInv /\ BusyInv)
<1>1. Init => TxnInv /\ BusyInv
  BY DEF Init, TxnInv, BusyInv
<1>2. TypeOK /\ TxnInv /\ BusyInv /\ [Next]_vars => TxnInv' /\ BusyInv'
  BY TablesInv
<1> QED BY <1>1, <1>2, TypeCorrect, PTL DEF Spec

\* As long as no COMMIT was refused the file of the database has what the
\* server sees of its tables, so nothing is lost when it stops (db.cpp:229-249).
THEOREM DurableCorrect == Spec => []DurableUnlessBusy
<1>1. TxnInv /\ BusyInv => DurableUnlessBusy
  BY DEF TxnInv, BusyInv, DurableUnlessBusy
<1> QED BY <1>1, TablesHold, PTL

-----------------------------------------------------------------------------
(* Configurations under way.                                               *)

\* The server sends connection c nothing, or nothing but the agent's own.
Own(c) == sOpen[c] /\ aOpen[c] /\ ~cut[c] => authorized[c]

\* No unset configuration is behind place i of what is under way to the agent.
OwnAfter(c, i) ==
  \A j \in DOMAIN toAgent[c] : j > i => toAgent[c][j] # Msg("CONFIG", UnsetConfig)

\* A REPLY says whether the key is known; behind one that says so are only
\* configurations of the agent's own.
Channel(c) ==
  \A i \in DOMAIN toAgent[c] : toAgent[c][i].type = "REPLY" =>
    /\ toAgent[c][i].val = IF KeyKnown THEN 1 ELSE 0
    /\ KeyKnown => Own(c) /\ OwnAfter(c, i)

Channels == \A c \in Conn : Channel(c)

\* The agent that has read its REPLY gets no other configurations.
Session == state # "NotConnected" => KeyKnown /\ Own(fd) /\ OwnAfter(fd, 0)

ConfInv == NeverUnset /\ Channels /\ Session

\* What is under way on c is as it was, and the server is no freer to send.
SameChannel(c) ==
  /\ toAgent'[c] = toAgent[c]
  /\ sOpen'[c] /\ aOpen'[c] /\ ~cut'[c] =>
       sOpen[c] /\ aOpen[c] /\ ~cut[c] /\ (authorized[c] => authorized'[c])

LEMMA ChannelSame ==
  ASSUME NEW c \in Conn, Channel(c), SameChannel(c)
  PROVE  Channel(c)'
BY DEF Channel, SameChannel, Own, OwnAfter

LEMMA ChannelEmpty ==
  ASSUME NEW c \in Conn, toAgent'[c] = <<>>
  PROVE  Channel(c)'
BY DEF Channel

\* The first packet was read.
LEMMA ChannelTail ==
  ASSUME TypeOK, NEW c \in Conn, toAgent[c] # <<>>, toAgent'[c] = Tail(toAgent[c]),
         UNCHANGED aOpen, UNCHANGED sOpen, UNCHANGED cut, UNCHANGED authorized
  PROVE  /\ Channel(c) => Channel(c)'
         /\ OwnAfter(c, 0) \/ OwnAfter(c, 1) => OwnAfter(c, 0)'
         /\ Head(toAgent[c]) = toAgent[c][1] /\ 1 \in DOMAIN toAgent[c]
<1> DEFINE q == toAgent[c]
<1>1. q \in Seq(ToAgent)
  BY TypeParts DEF ToAgentType
<1>2. /\ \A i \in DOMAIN Tail(q) : i + 1 \in DOMAIN q /\ Tail(q)[i] = q[i + 1] /\ i \in Nat /\ i > 0
      /\ Head(q) = q[1] /\ 1 \in DOMAIN q
  <2> HIDE DEF q
  <2>1. q # <<>>
    BY DEF q
  <2>2. Tail(q) \in Seq(ToAgent) /\ Len(Tail(q)) = Len(q) - 1 /\ Len(q) \in Nat
        /\ \A i \in 1..Len(Tail(q)) : Tail(q)[i] = q[i + 1]
    BY <1>1, <2>1, HeadTailProperties
  <2>3. DOMAIN Tail(q) = 1..Len(q) - 1 /\ DOMAIN q = 1..Len(q) /\ Len(q) > 0
    BY <1>1, <2>1, <2>2, EmptySeq
  <2> QED BY <1>1, <2>1, <2>2, <2>3
<1>3. OwnAfter(c, 0) \/ OwnAfter(c, 1) => OwnAfter(c, 0)'
  BY <1>2 DEF OwnAfter
<1>4. Channel(c) => Channel(c)'
  <2>1. SUFFICES ASSUME Channel(c), NEW i \in DOMAIN Tail(q), Tail(q)[i].type = "REPLY"
                 PROVE  /\ Tail(q)[i].val = IF KeyKnown THEN 1 ELSE 0
                        /\ KeyKnown => Own(c)' /\ OwnAfter(c, i)'
    BY DEF Channel
  <2>2. i + 1 \in DOMAIN q /\ Tail(q)[i] = q[i + 1]
    BY <1>2
  <2>3. q[i + 1].val = (IF KeyKnown THEN 1 ELSE 0)
        /\ (KeyKnown => Own(c) /\ OwnAfter(c, i + 1))
    BY <2>1, <2>2 DEF Channel
  <2>4. OwnAfter(c, i + 1) => OwnAfter(c, i)'
    BY <1>2 DEF OwnAfter
  <2>5. Own(c) => Own(c)'
    BY DEF Own
  <2> QED BY <2>2, <2>3, <2>4, <2>5
<1> QED BY <1>2, <1>3, <1>4

\* Packets are appended: they are the agent's own if a REPLY is before them.
LEMMA ChannelAppend ==
  ASSUME TypeOK, NEW c \in Conn, NEW m \in ToAgent, Channel(c),
         toAgent'[c] = Append(toAgent[c], m),
         UNCHANGED aOpen, UNCHANGED sOpen, UNCHANGED cut,
         UNCHANGED authorized, sOpen[c] /\ aOpen[c] /\ ~cut[c],
         m.type = "CONFIG", authorized[c] => m # Msg("CONFIG", UnsetConfig)
  PROVE  /\ Channel(c)'
         /\ Own(c) /\ OwnAfter(c, 0) => OwnAfter(c, 0)'
<1> DEFINE q == toAgent[c]
           l == Len(q)
<1>1. q \in Seq(ToAgent)
  BY TypeParts DEF ToAgentType
<1>2. /\ l \in Nat /\ DOMAIN q = 1..l /\ DOMAIN Append(q, m) = 1..l + 1
      /\ \A i \in 1..l : Append(q, m)[i] = q[i]
      /\ Append(q, m)[l + 1] = m
  <2> HIDE DEF ToAgent
  <2> QED BY <1>1
<1>3. \A i \in 0..l : Own(c) /\ OwnAfter(c, i) => OwnAfter(c, i)'
  BY <1>2 DEF OwnAfter, Own
<1>4. Own(c) => Own(c)'
  BY DEF Own
<1>5. Channel(c)'
  <2>1. SUFFICES ASSUME NEW i \in 1..l + 1, Append(q, m)[i].type = "REPLY"
                 PROVE  /\ Append(q, m)[i].val = IF KeyKnown THEN 1 ELSE 0
                        /\ KeyKnown => Own(c)' /\ OwnAfter(c, i)'
    BY <1>2 DEF Channel
  <2>2. i \in 1..l /\ Append(q, m)[i] = q[i]
    BY <1>2, <2>1
  <2> QED BY <1>2, <1>3, <1>4, <2>1, <2>2 DEF Channel
<1> QED BY <1>2, <1>3, <1>5

\* A step that changes no connection of the agent and none of its files.
LEMMA ConfSame ==
  ASSUME ConfInv, \A c \in Conn : SameChannel(c), fd \in Conn \/ state' = "NotConnected",
         UNCHANGED fd, UNCHANGED state \/ state' = "NotConnected", NeverUnset'
  PROVE  ConfInv'
<1>1. Channels'
  BY ChannelSame DEF ConfInv, Channels
<1>2. Session'
  BY DEF ConfInv, Session, SameChannel, Own, OwnAfter
<1> QED BY <1>1, <1>2 DEF ConfInv

\* The agent gives up what it has, or a connection is empty.
LEMMA ConfEnds ==
  ASSUME ConfInv, \A c \in Conn : SameChannel(c) \/ toAgent'[c] = <<>>,
         state' = "NotConnected", NeverUnset'
  PROVE  ConfInv'
<1>1. Channels'
  BY ChannelSame, ChannelEmpty DEF ConfInv, Channels
<1> QED BY <1>1 DEF ConfInv, Session

LEMMA ConfGets ==
  ASSUME TypeOK, ConfInv, Gets, UNCHANGED serverVars
  PROVE  ConfInv'
<1>1. LoopType /\ ConfType /\ FdType /\ EndsType /\ ToAgentType
  BY TypeParts
<1>2. UNCHANGED authorized
  BY DEF serverVars, clientVars
<1>3. CASE WinReplyReset /\ UNCHANGED netVars /\ UNCHANGED state
  <2>1. state' = "NotConnected"
    BY <1>1, <1>3 DEF WinReplyReset, FdType
  <2>2. \A c \in Conn : SameChannel(c)
    BY <1>2, <1>3 DEF SameChannel, netVars
  <2>3. NeverUnset'
    BY <1>3 DEF ConfInv, NeverUnset, WinReplyReset, confVars
  <2> QED BY <2>1, <2>2, <2>3, ConfEnds
<1>4. CASE (ReadReply /\ Head(toAgent[fd]).type = "REPLY") \/ ReadPacket
  <2>1. PICK c \in Conn : c = fd
    BY <1>1, <1>4 DEF ReadReply, ReadPacket, Reading, FdType
  <2>2. /\ fd' = c /\ toAgent[c] # <<>> /\ toAgent' = [toAgent EXCEPT ![c] = Tail(@)]
        /\ UNCHANGED aOpen /\ UNCHANGED sOpen /\ UNCHANGED cut
    BY <1>4, <2>1 DEF ReadReply, ReadPacket
  <2>3. toAgent'[c] = Tail(toAgent[c])
    BY <1>1, <2>2 DEF ToAgentType
  <2>4. /\ Channel(c) => Channel(c)'
        /\ OwnAfter(c, 0) \/ OwnAfter(c, 1) => OwnAfter(c, 0)'
        /\ Head(toAgent[c]) = toAgent[c][1] /\ 1 \in DOMAIN toAgent[c]
    BY <1>2, <2>2, <2>3, ChannelTail
  <2>5. \A d \in Conn \ {c} : SameChannel(d)
    BY <1>1, <1>2, <2>2 DEF SameChannel, ToAgentType
  <2>6. Channels'
    BY <2>4, <2>5, ChannelSame DEF ConfInv, Channels
  <2>7. Own(c) => Own(c)'
    BY <1>2, <2>2 DEF Own
  <2>8. CASE ReadReply /\ Head(toAgent[fd]).type = "REPLY"
    <3>1. NeverUnset'
      BY <2>8 DEF ConfInv, NeverUnset, ReadReply, confVars
    <3>2. state = "NotConnected"
      BY <1>1, <2>8 DEF ReadReply, FdType
    <3>3. CASE state' = "NotConnected"
      BY <2>6, <3>1, <3>3 DEF ConfInv, Session
    <3>4. CASE state' # "NotConnected"
      <4>1. Head(toAgent[c]).val = 1 /\ Head(toAgent[c]).type = "REPLY"
        BY <2>1, <2>8, <3>2, <3>4 DEF ReadReply
      <4>2. KeyKnown /\ Own(c) /\ OwnAfter(c, 1)
        BY <2>4, <4>1 DEF ConfInv, Channels, Channel
      <4>3. Own(c)' /\ OwnAfter(c, 0)'
        BY <2>4, <2>7, <4>2
      <4> QED BY <2>2, <2>6, <3>1, <4>2, <4>3 DEF ConfInv, Session
    <3> QED BY <3>3, <3>4
  <2>9. CASE ReadPacket
    <3>1. state # "NotConnected"
      BY <1>1, <2>9 DEF ReadPacket, Reading, FdType
    <3>2. KeyKnown /\ Own(c) /\ OwnAfter(c, 0)
      BY <2>1, <3>1 DEF ConfInv, Session
    <3>3. Head(toAgent[c]) # Msg("CONFIG", UnsetConfig)
      BY <2>4, <3>2 DEF OwnAfter
    <3>4. Head(toAgent[c]) \in ToAgent
      BY <2>2, PopType
    <3>5. Head(toAgent[c]).type = "CONFIG" => Head(toAgent[c]).val # UnsetConfig
      BY <3>3, <3>4 DEF ToAgent, Msg
    <3>6. NeverUnset'
      BY <2>1, <2>9, <3>5 DEF ReadPacket, ConfInv, NeverUnset
    <3>7. Own(c)' /\ OwnAfter(c, 0)'
      BY <2>4, <2>7, <3>2
    <3>8. Session'
      BY <2>2, <3>2, <3>7 DEF Session
    <3> QED BY <2>6, <3>6, <3>8 DEF ConfInv
  <2> QED BY <1>4, <2>8, <2>9
<1> QED BY <1>3, <1>4 DEF Gets

LEMMA ConfAgent ==
  ASSUME TypeOK, ConfInv, UNCHANGED serverVars,
         \/ AgentStep \/ AgentTimeout
         \/ (Stop \/ Crash) /\ UNCHANGED winsock
  PROVE  ConfInv'
<1>1. LoopType /\ ConfType /\ FdType /\ EndsType /\ ToAgentType
  BY TypeParts
<1>2. UNCHANGED authorized
  BY DEF serverVars, clientVars
<1>3. CASE Quiet \/ WinApply \/ WinRename \/ StartUp \/ StartUpNoCount
  <2>1. UNCHANGED netVars /\ UNCHANGED state /\ UNCHANGED fd
    BY <1>3 DEF Quiet, ConnectSkipped, ReadNothing, SampleSkipped, SampleSaved,
       NothingToResend, Apply, Stop, WinApply, WinRename, StartUp, StartUpNoCount,
       Starts
  <2>2. {cfg', cfgFile'} \subseteq {cfg, cfgFile, NoFile}
    BY <1>3 DEF Quiet, ConnectSkipped, ReadNothing, SampleSkipped, SampleSaved,
       NothingToResend, Apply, Stop, WinApply, WinRename, StartUp, StartUpNoCount,
       Starts, confVars
  <2>3. NeverUnset'
    BY <2>2, WinAgentAssumption DEF ConfInv, NeverUnset
  <2>4. \A c \in Conn : SameChannel(c)
    BY <1>2, <2>1 DEF SameChannel, netVars
  <2> QED BY <1>1, <2>1, <2>3, <2>4, ConfSame DEF LoopType, FdType
<1>4. CASE SampleSent \/ Resend
  <2>1. /\ UNCHANGED aOpen /\ UNCHANGED sOpen /\ UNCHANGED cut /\ UNCHANGED toAgent
        /\ UNCHANGED state /\ UNCHANGED fd /\ UNCHANGED confVars
    BY <1>4 DEF SampleSent, Resend, Sent
  <2>2. NeverUnset'
    BY <2>1 DEF ConfInv, NeverUnset, confVars
  <2>3. \A c \in Conn : SameChannel(c)
    BY <1>2, <2>1 DEF SameChannel
  <2> QED BY <1>1, <2>1, <2>2, <2>3, ConfSame DEF FdType
<1>5. CASE Disconnects /\ Disconnect
  <2>1. UNCHANGED confVars /\ UNCHANGED sOpen /\ UNCHANGED cut
    BY <1>5 DEF Disconnects, Disconnect, ReplyLost, ReadEof, SampleUnsent, ResendFails,
       ReplyTimeout, ConfigTimeout, ReadTimeout, WinReplyReset, ReadReply
  <2>2. \A c \in Conn : SameChannel(c) \/ toAgent'[c] = <<>>
    BY <1>1, <1>2, <1>5, <2>1 DEF Disconnect, CloseFd, SameChannel, ToAgentType, EndsType
  <2>3. NeverUnset'
    BY <2>1 DEF ConfInv, NeverUnset, confVars
  <2> QED BY <1>5, <2>2, <2>3, ConfEnds DEF Disconnect
<1>6. CASE CleanUp \/ Saved \/ Crash
  <2>1. (\A c \in Conn : toAgent'[c] = <<>>) /\ state' = "NotConnected"
    BY <1>6 DEF CleanUp, Saved, Crash, CloseAll
  <2>2. {cfg', cfgFile'} \subseteq {cfg, cfgFile}
    BY <1>6 DEF CleanUp, Saved, Crash, confVars
  <2>3. NeverUnset'
    BY <2>2 DEF ConfInv, NeverUnset
  <2> QED BY <2>1, <2>3, ConfEnds
<1>7. CASE Connect
  <2>1. PICK c \in Conn :
          /\ aOpen' = [aOpen EXCEPT ![c] = TRUE]
          /\ sOpen' = [sOpen EXCEPT ![c] = TRUE]
          /\ cut' = [cut EXCEPT ![c] = FALSE]
          /\ toAgent' = [toAgent EXCEPT ![c] = <<>>]
    BY <1>7 DEF Connect
  <2>2. \A d \in Conn : SameChannel(d) \/ toAgent'[d] = <<>>
    BY <1>1, <1>2, <2>1 DEF SameChannel, EndsType, ToAgentType
  <2>3. state' = "NotConnected" /\ NeverUnset'
    BY <1>7 DEF Connect, ConfInv, NeverUnset, confVars
  <2> QED BY <2>2, <2>3, ConfEnds
<1>8. CASE Gets
  BY <1>8, ConfGets
<1> QED BY <1>3, <1>4, <1>5, <1>6, <1>7, <1>8, AgentKinds DEF Quiet

\* The reply to AUTH and, if the key is known, the row's configuration.
LEMMA ConfAuth ==
  ASSUME TypeOK, ConfInv, NEW c \in Conn, ServerAuth(c)
  PROVE  ConfInv'
<1>1. LoopType /\ FdType /\ EndsType /\ ToAgentType /\ ClientType /\ TableType
  BY TypeParts
<1>2. /\ UNCHANGED aOpen /\ UNCHANGED sOpen /\ UNCHANGED cut /\ UNCHANGED fd
      /\ UNCHANGED state /\ UNCHANGED confVars
      /\ authorized' = [authorized EXCEPT ![c] = KeyKnown]
  BY DEF ServerAuth, Receives, agentKeeps
<1>3. NeverUnset'
  BY <1>2 DEF ConfInv, NeverUnset, confVars
<1>4. \A d \in Conn \ {c} : SameChannel(d)
  BY <1>1, <1>2 DEF ServerAuth, Reply, SameChannel, ToAgentType, ClientType
<1>5. state # "NotConnected" => fd \in Conn
  BY <1>1 DEF FdType
<1>6. CASE ~(aOpen[c] /\ ~cut[c])
  <2>1. SameChannel(c)
    BY <1>1, <1>2, <1>6 DEF ServerAuth, Reply, SameChannel, ClientType, EndsType
  <2> QED BY <1>1, <1>2, <1>3, <1>4, <1>5, <2>1, ConfSame DEF LoopType
<1>7. CASE aOpen[c] /\ ~cut[c]
  <2> DEFINE msgs == IF KeyKnown THEN <<Msg("REPLY", 1), Msg("CONFIG", row)>>
                                 ELSE <<Msg("REPLY", 0)>>
             q == toAgent[c]
             l == Len(q)
  <2>1. toAgent'[c] = q \o msgs
    BY <1>1, <1>7 DEF ServerAuth, Reply, ToAgentType
  <2>2. row \in Config /\ row # UnsetConfig
    BY <1>1, AgentAssumption DEF TableType
  <2>3. /\ \A i \in DOMAIN msgs : i \in {1, 2} /\ msgs[i] # Msg("CONFIG", UnsetConfig)
        /\ \A i \in DOMAIN msgs : msgs[i].type = "REPLY" =>
              msgs[i].val = IF KeyKnown THEN 1 ELSE 0
    BY <2>2, PipelineAssumption DEF Msg
  <2>4. msgs \in Seq(ToAgent) /\ q \in Seq(ToAgent)
    <3>1. Msg("REPLY", 1) \in ToAgent /\ Msg("REPLY", 0) \in ToAgent /\ Msg("CONFIG", row) \in ToAgent
      BY <2>2, MsgTypes
    <3>2. q \in Seq(ToAgent)
      BY <1>1 DEF ToAgentType
    <3> HIDE DEF ToAgent, q
    <3> QED BY <3>1, <3>2
  <2>5. /\ l \in Nat /\ Len(msgs) \in Nat /\ DOMAIN q = 1..l /\ DOMAIN msgs = 1..Len(msgs)
        /\ DOMAIN (q \o msgs) = 1..l + Len(msgs)
        /\ \A i \in 1..l : (q \o msgs)[i] = q[i]
        /\ \A i \in 1..l + Len(msgs) : i > l => (q \o msgs)[i] = msgs[i - l] /\ i - l \in 1..Len(msgs)
    <3> HIDE DEF msgs, q
    <3>1. /\ Len(q) \in Nat /\ Len(msgs) \in Nat /\ DOMAIN q = 1..Len(q)
          /\ DOMAIN msgs = 1..Len(msgs)
      BY <2>4
    <3>2. /\ Len(q \o msgs) = Len(q) + Len(msgs) /\ q \o msgs \in Seq(ToAgent)
          /\ \A i \in 1..Len(q) + Len(msgs) : (q \o msgs)[i] =
                IF i <= Len(q) THEN q[i] ELSE msgs[i - Len(q)]
      BY <2>4, ConcatProperties
    <3>3. DOMAIN (q \o msgs) = 1..Len(q) + Len(msgs)
      BY <3>2
    <3> QED BY <3>1, <3>2, <3>3
  <2>6. KeyKnown => Own(c)'
    BY <1>1, <1>2 DEF Own, ClientType
  <2> HIDE DEF msgs, q
  <2>7. \A i \in 0..l : OwnAfter(c, i) => OwnAfter(c, i)'
    BY <2>1, <2>3, <2>5 DEF OwnAfter, q
  <2>8. \A i \in 1..l + Len(msgs) : i > l => OwnAfter(c, i)'
    BY <2>1, <2>3, <2>5 DEF OwnAfter
  <2>9. Channel(c)'
    <3>1. SUFFICES ASSUME NEW i \in 1..l + Len(msgs), (q \o msgs)[i].type = "REPLY"
                   PROVE  /\ (q \o msgs)[i].val = IF KeyKnown THEN 1 ELSE 0
                          /\ KeyKnown => Own(c)' /\ OwnAfter(c, i)'
      BY <2>1, <2>5 DEF Channel
    <3>2. CASE i <= l
      <4>1. i \in 1..l /\ i \in 0..l /\ (q \o msgs)[i] = q[i]
        BY <2>5, <3>2
      <4>2. q[i].val = (IF KeyKnown THEN 1 ELSE 0) /\ (KeyKnown => OwnAfter(c, i))
        BY <2>5, <3>1, <4>1 DEF ConfInv, Channels, Channel, q
      <4> QED BY <2>6, <2>7, <4>1, <4>2
    <3>3. CASE ~(i <= l)
      BY <2>3, <2>5, <2>6, <2>8, <3>1, <3>3
    <3> QED BY <3>2, <3>3
  <2>10. Channels'
    BY <1>4, <2>9, ChannelSame DEF ConfInv, Channels
  <2>11. Session'
    <3>1. CASE state = "NotConnected" \/ fd # c
      BY <1>2, <1>4, <1>5, <3>1 DEF ConfInv, Session, SameChannel, Own, OwnAfter
    <3>2. CASE state # "NotConnected" /\ fd = c
      <4>1. OwnAfter(c, 0) /\ KeyKnown /\ 0 \in 0..l
        BY <2>5, <3>2 DEF ConfInv, Session
      <4> QED BY <1>2, <2>6, <2>7, <3>2, <4>1 DEF Session
    <3> QED BY <3>1, <3>2
  <2> QED BY <1>3, <2>10, <2>11 DEF ConfInv
<1> QED BY <1>6, <1>7

LEMMA ConfReconfigure ==
  ASSUME TypeOK, ConfInv, Reconfigure
  PROVE  ConfInv'
<1>1. LoopType /\ FdType /\ EndsType /\ ToAgentType /\ ClientType
  BY TypeParts
<1>2. PICK n \in Config :
       toAgent' = [c \in Conn |->
            IF sOpen[c] /\ aOpen[c] /\ ~cut[c]
            THEN Append(toAgent[c],
                        Msg("CONFIG", IF authorized[c] THEN n ELSE UnsetConfig))
            ELSE toAgent[c]]
  BY DEF Reconfigure
<1>3. /\ UNCHANGED aOpen /\ UNCHANGED sOpen /\ UNCHANGED cut /\ UNCHANGED fd
      /\ UNCHANGED state /\ UNCHANGED confVars /\ UNCHANGED authorized
  BY DEF Reconfigure, agentKeeps, clientVars
<1>4. NeverUnset'
  BY <1>3 DEF ConfInv, NeverUnset, confVars
<1>5. ASSUME NEW c \in Conn
      PROVE  Channel(c)' /\ (Own(c) /\ OwnAfter(c, 0) => Own(c)' /\ OwnAfter(c, 0)')
  <2>1. Own(c) => Own(c)'
    BY <1>3 DEF Own
  <2>2. CASE sOpen[c] /\ aOpen[c] /\ ~cut[c]
    <3> DEFINE m == Msg("CONFIG", IF authorized[c] THEN n ELSE UnsetConfig)
    <3>1. m \in ToAgent
      BY MsgTypes
    <3>2. m.type = "CONFIG" /\ (authorized[c] => m # Msg("CONFIG", UnsetConfig))
      BY AgentAssumption DEF Msg
    <3>3. toAgent'[c] = Append(toAgent[c], m)
      BY <1>2, <2>2
    <3> HIDE DEF m
    <3> QED BY <1>3, <2>1, <2>2, <3>1, <3>2, <3>3, ChannelAppend DEF ConfInv, Channels
  <2>3. CASE ~(sOpen[c] /\ aOpen[c] /\ ~cut[c])
    <3>1. SameChannel(c)
      BY <1>2, <1>3, <2>3 DEF SameChannel
    <3> QED BY <2>1, <3>1, ChannelSame DEF ConfInv, Channels, OwnAfter, SameChannel
  <2> QED BY <2>2, <2>3
<1>6. state # "NotConnected" => fd \in Conn
  BY <1>1 DEF FdType
<1>7. Session'
  BY <1>3, <1>5, <1>6 DEF ConfInv, Session
<1> QED BY <1>4, <1>5, <1>7 DEF ConfInv, Channels

\* The other steps send the agent nothing.
LEMMA ConfOthers ==
  ASSUME TypeOK, ConfInv,
         \/ \E c \in Conn : \/ ServerLive(c) \/ ServerOld(c) \/ Flush(c) \/ ServerEof(c)
                            \/ Cut(c) \/ ServerDrops(c) \/ StoreFails(c) \/ CommitBusy(c)
         \/ ServerRestart \/ UNCHANGED vars
  PROVE  ConfInv'
<1>1. LoopType /\ FdType /\ EndsType /\ ToAgentType /\ ClientType
  BY TypeParts
<1>2. UNCHANGED fd /\ UNCHANGED state /\ UNCHANGED confVars /\ UNCHANGED aOpen
  BY DEF ServerLive, ServerOld, Receives, Flush, Flushed, ServerEof, DeleteClient, Cut,
     ServerDrops, StoreFails, CommitBusy, ServerRestart, vars, processVars, agentVars,
     agentKeeps, netVars
<1>3. NeverUnset'
  BY <1>2 DEF ConfInv, NeverUnset, confVars
<1>4. state # "NotConnected" => fd \in Conn
  BY <1>1 DEF FdType
<1>5. CASE ServerRestart
  <2>1. \A d \in Conn : SameChannel(d)
    BY <1>5 DEF ServerRestart, SameChannel
  <2> QED BY <1>1, <1>2, <1>3, <1>4, <2>1, ConfSame DEF LoopType
<1>6. CASE UNCHANGED vars
  <2>1. \A d \in Conn : SameChannel(d)
    BY <1>6 DEF SameChannel, vars, processVars, agentVars, netVars, serverVars, clientVars
  <2> QED BY <1>1, <1>2, <1>3, <1>4, <2>1, ConfSame DEF LoopType
<1>7. ASSUME NEW c \in Conn,
             \/ ServerLive(c) \/ ServerOld(c) \/ Flush(c) \/ ServerEof(c)
             \/ ServerDrops(c) \/ StoreFails(c) \/ CommitBusy(c)
      PROVE  ConfInv'
  <2>1. CASE ServerLive(c) \/ ServerOld(c) \/ Flush(c) \/ StoreFails(c) \/ CommitBusy(c)
    <3>1. /\ UNCHANGED sOpen /\ UNCHANGED cut /\ UNCHANGED toAgent /\ UNCHANGED authorized
      BY <2>1 DEF ServerLive, ServerOld, Receives, Flush, Flushed, StoreFails, CommitBusy,
         processVars, agentVars, netVars, clientVars
    <3>2. \A d \in Conn : SameChannel(d)
      BY <1>2, <3>1 DEF SameChannel
    <3> QED BY <1>1, <1>2, <1>3, <1>4, <3>2, ConfSame DEF LoopType
  <2>2. CASE ServerEof(c) \/ ServerDrops(c)
    <3>1. DeleteClient(c)
      BY <2>2 DEF ServerEof, ServerDrops
    <3>2. \A d \in Conn : SameChannel(d)
      BY <1>1, <3>1 DEF DeleteClient, SameChannel, EndsType, ClientType
    <3> QED BY <1>1, <1>2, <1>3, <1>4, <3>2, ConfSame DEF LoopType
  <2> QED BY <1>7, <2>1, <2>2
<1>8. ASSUME NEW c \in Conn, Cut(c) PROVE ConfInv'
  <2>1. \A d \in Conn : SameChannel(d) \/ (toAgent'[d] = <<>> /\ cut'[d])
    BY <1>1, <1>8 DEF Cut, SameChannel, EndsType, ToAgentType, serverVars, clientVars
  <2>2. Channels'
    BY <2>1, ChannelSame, ChannelEmpty DEF ConfInv, Channels
  <2>3. Session'
    <3>1. CASE state # "NotConnected"
      <4>1. PICK d \in Conn : d = fd
        BY <1>4, <3>1
      <4>2. KeyKnown /\ Own(d) /\ OwnAfter(d, 0)
        BY <3>1, <4>1 DEF ConfInv, Session
      <4>3. CASE SameChannel(d)
        BY <1>2, <4>1, <4>2, <4>3 DEF Session, SameChannel, Own, OwnAfter
      <4>4. CASE toAgent'[d] = <<>> /\ cut'[d]
        BY <1>2, <4>1, <4>2, <4>4 DEF Session, Own, OwnAfter
      <4> QED BY <2>1, <4>3, <4>4
    <3> QED BY <1>2, <3>1 DEF Session
  <2> QED BY <1>3, <2>2, <2>3 DEF ConfInv
<1> QED BY <1>5, <1>6, <1>7, <1>8

LEMMA ConfNext == ASSUME TypeOK, ConfInv, [Next]_vars PROVE ConfInv'
<1>1. ASSUME AgentRuns \/ Timeout \/ AgentCrash \/ AgentStop PROVE ConfInv'
  BY <1>1, ConfAgent DEF AgentRuns, Timeout, AgentCrash, AgentStop
<1>2. ASSUME NEW c \in Conn, ServerStep(c) PROVE ConfInv'
  BY <1>2, ConfAuth, ConfOthers DEF ServerStep
<1> QED BY <1>1, <1>2, ConfReconfigure, ConfOthers DEF Next

LEMMA ConfHolds == Spec => []ConfInv
<1>1. ASSUME Init PROVE ConfInv
  <2>1. Channels
    BY <1>1, ChannelEmpty DEF Init, AgentInit, Channels, Channel
  <2>2. NeverUnset
    BY <1>1, AgentAssumption DEF Init, AgentInit, NeverUnset
  <2> QED BY <1>1, <2>1, <2>2 DEF Init, AgentInit, ConfInv, Session
<1>2. TypeOK /\ ConfInv /\ [Next]_vars => ConfInv'
  BY ConfNext
<1> QED BY <1>1, <1>2, TypeCorrect, PTL DEF Spec

\* Whatever the broadcasts of the server cross on their way, no agent runs
\* with, or writes to its file, what the server sends to a client it does not
\* know (agent_lin/server.cpp:173-185).
THEOREM ConfigCorrect == Spec => []NeverUnset
<1>1. ConfInv => NeverUnset
  BY DEF ConfInv
<1> QED BY <1>1, ConfHolds, PTL

-----------------------------------------------------------------------------
(* Sockets of the agent.                                                   *)

LEMMA SocketAgent ==
  ASSUME TypeOK, ConfInv, OneSocket,
         \/ AgentStep \/ AgentTimeout
         \/ (Stop \/ Crash) /\ UNCHANGED winsock
  PROVE  OneSocket'
<1>1. LoopType /\ FdType /\ EndsType /\ ToAgentType
  BY TypeParts
<1>2. SUFFICES ASSUME KeyKnown, winsock' = "absent", NEW c \in Conn, aOpen'[c]
               PROVE  c = fd' /\ (state' # "NotConnected" \/ pc' = "reply")
  BY DEF OneSocket, OnWindows
<1>3. winsock = "absent" \/ (CleanUp /\ winsock' = "cleaned") \/ CommonWinsock
      \/ WinApply \/ WinRename
  BY <1>2, AgentKinds DEF CleanUp
<1>4. winsock = "absent"
  BY <1>2, <1>3 DEF CommonWinsock, WinApply, WinRename, OnWindows
<1>5. ASSUME NEW d \in Conn, aOpen[d]
      PROVE  d = fd /\ (state # "NotConnected" \/ pc = "reply")
  BY <1>2, <1>4, <1>5 DEF OneSocket, OnWindows
<1>6. CASE (Quiet \/ StartUp \/ StartUpNoCount) /\ UNCHANGED netVars
  <2>1. UNCHANGED state /\ UNCHANGED fd /\ pc # "reply"
    BY <1>6 DEF Quiet, ConnectSkipped, ReadNothing, Reading, SampleSkipped, SampleSaved,
       NewSample, NothingToResend, Apply, Stop, StartUp, StartUpNoCount, Starts, Down
  <2>2. aOpen[c]
    BY <1>2, <1>6 DEF netVars
  <2> QED BY <1>5, <2>1, <2>2
<1>7. CASE SampleSent \/ Resend
  <2>1. UNCHANGED aOpen /\ UNCHANGED fd /\ state' = "Connected"
    BY <1>7 DEF SampleSent, Resend, Sent
  <2> QED BY <1>2, <1>5, <2>1
<1>8. CASE Disconnects /\ Disconnect
  <2>1. aOpen' = [aOpen EXCEPT ![fd] = FALSE]
    BY <1>8 DEF Disconnect, CloseFd
  <2>2. aOpen[c] /\ c # fd
    BY <1>1, <1>2, <2>1 DEF EndsType
  <2> QED BY <1>5, <2>2
<1>9. CASE CleanUp \/ Saved \/ Crash
  BY <1>2, <1>9 DEF CleanUp, Saved, Crash, CloseAll
<1>10. CASE Connect
  <2>1. PICK d \in Conn : fd' = d /\ aOpen' = [aOpen EXCEPT ![d] = TRUE]
    BY <1>10 DEF Connect
  <2>2. pc = "connect" /\ state = "NotConnected" /\ pc' = "reply"
    BY <1>10 DEF Connect
  <2>3. ~aOpen[c]
    BY <1>5, <2>2
  <2>4. c = d
    BY <1>1, <1>2, <2>1, <2>3 DEF EndsType
  <2> QED BY <2>1, <2>2, <2>4
<1>11. CASE Gets
  <2>1. CASE ReadPacket
    <3>1. UNCHANGED aOpen /\ UNCHANGED fd /\ state # "NotConnected" /\ state' # "NotConnected"
      BY <1>1, <2>1 DEF ReadPacket, Reading, FdType
    <3> QED BY <1>2, <1>5, <3>1
  <2>2. CASE ReadReply /\ Head(toAgent[fd]).type = "REPLY"
    <3>1. PICK d \in Conn : d = fd
      BY <1>1, <2>2 DEF ReadReply, FdType
    <3>2. toAgent[d] \in Seq(ToAgent) /\ toAgent[d] # <<>>
      BY <1>1, <2>2, <3>1 DEF ToAgentType, ReadReply
    <3>3. Head(toAgent[d]) = toAgent[d][1] /\ 1 \in DOMAIN toAgent[d]
      <4> HIDE DEF ToAgent
      <4> QED BY <3>2
    <3>4. Head(toAgent[d]).val = 1
      BY <1>2, <2>2, <3>1, <3>3 DEF ConfInv, Channels, Channel
    <3>5. UNCHANGED aOpen /\ UNCHANGED fd /\ state' = "WaitingForConfig"
      BY <2>2, <3>1, <3>4 DEF ReadReply
    <3> QED BY <1>2, <1>5, <3>5
  <2> QED BY <1>4, <1>11, <2>1, <2>2 DEF Gets, OnWindows
<1>12. ASSUME Quiet \/ StartUp \/ StartUpNoCount PROVE UNCHANGED netVars
  BY <1>12 DEF Quiet, ConnectSkipped, ReadNothing, SampleSkipped, SampleSaved,
     NothingToResend, Apply, Stop, StartUp, StartUpNoCount, Starts
<1>13. CASE AgentStep \/ AgentTimeout
  BY <1>4, <1>6, <1>7, <1>8, <1>9, <1>10, <1>11, <1>12, <1>13, AgentKinds DEF OnWindows
<1>14. CASE Stop \/ Crash
  BY <1>6, <1>9, <1>12, <1>14 DEF Quiet
<1> QED BY <1>13, <1>14

LEMMA SocketNext ==
  ASSUME TypeOK, ConfInv, OneSocket, [Next]_vars
  PROVE  OneSocket'
<1>1. CASE AgentRuns \/ Timeout \/ AgentCrash \/ AgentStop
  BY <1>1, SocketAgent DEF AgentRuns, Timeout, AgentCrash, AgentStop
<1>2. CASE ~(AgentRuns \/ Timeout \/ AgentCrash \/ AgentStop)
  <2>1. UNCHANGED aOpen /\ UNCHANGED fd /\ UNCHANGED state /\ UNCHANGED pc
        /\ UNCHANGED winsock
    <3>1. ASSUME NEW c \in Conn, ServerStep(c)
          PROVE  UNCHANGED <<aOpen, fd, state, pc, winsock>>
      BY <3>1 DEF ServerStep, ServerAuth, ServerLive, ServerOld, Receives, Flush, Flushed,
         ServerEof, DeleteClient, processVars, agentVars, loopVars, agentKeeps, netVars
    <3>2. ASSUME NEW c \in Conn, Cut(c) \/ ServerDrops(c) \/ StoreFails(c) \/ CommitBusy(c)
          PROVE  UNCHANGED <<aOpen, fd, state, pc, winsock>>
      BY <3>2 DEF Cut, ServerDrops, StoreFails, CommitBusy, Flushed, DeleteClient,
         processVars, agentVars, loopVars, agentKeeps, netVars
    <3>3. ASSUME Reconfigure \/ ServerRestart \/ UNCHANGED vars
          PROVE  UNCHANGED <<aOpen, fd, state, pc, winsock>>
      BY <3>3 DEF Reconfigure, ServerRestart, vars, processVars, agentVars, loopVars,
         agentKeeps, netVars
    <3> QED BY <1>2, <3>1, <3>2, <3>3 DEF Next
  <2> QED BY <2>1 DEF OneSocket, OnWindows
<1> QED BY <1>1, <1>2

\* A Linux agent whose key is known holds one socket, the one it uses: every
\* way a connection ends closes m_fd before connect() overwrites it
\* (agent_lin/server.cpp:51-130).
THEOREM SocketCorrect == Spec => []OneSocket
<1>1. Init => OneSocket
  BY DEF Init, AgentInit, OneSocket
<1>2. TypeOK /\ ConfInv /\ OneSocket /\ [Next]_vars => OneSocket'
  BY SocketNext
<1> QED BY <1>1, <1>2, TypeCorrect, ConfHolds, PTL DEF Spec
=============================================================================
