------------------------------ MODULE Sensors ------------------------------
(***************************************************************************)
(* What an agent reads of its machine (getSensorsData of agent_lin, with   *)
(* what readSensors of agent_win does otherwise), and what the server      *)
(* makes of it: the list agentsData that viewers are sent (agents.cpp),    *)
(* and the row of the records table with its column of disks (db.cpp).     *)
(* The machine is read one thing after another, and may change meanwhile.  *)
(*                                                                         *)
(* Abstractions.  A temperature is a number, infinite or NaN.  A disk's    *)
(* usage is the position at which it was read, so that it is known which   *)
(* of several is kept.  The name of a disk is a sequence of characters,    *)
(* that of an agent a number, with the order of the texts.  cpu, memory    *)
(* and uptime are left out.  One agent reads at a time: what another one   *)
(* reads meanwhile is of another machine.                                  *)
(***************************************************************************)
EXTENDS Naturals, Sequences, FiniteSets, SequencesExt, TLC

CONSTANTS
  Agents, OnWin,  \* ids, and which of them are Windows agents
  Names, KD,      \* names of agents, and which of them start with "KD"
  Devices,        \* names in /proc/mounts that start with "/dev"
  Drives,         \* names of disks in Windows
  MaxMounts,      \* bound: disks that are read
  Service         \* of the services of the configuration: is it tcp?

\* 0 is no agent.  "," and digits are not in names of disks.
ASSUME SensorsAssumption ==
  /\ Agents \subseteq Nat \ {0} /\ OnWin \subseteq Agents
  /\ Names \subseteq Nat /\ KD \subseteq Names
  /\ \A d \in Devices \cup Drives : d \in Seq({"/", "a", "b", "C", "D", ":"})
  /\ MaxMounts \in 0..9 /\ Service \in Seq(BOOLEAN)

VARIABLES
  config,      \* of TPacketConfig: has it a tempPath, is tempDivider 0?
  agent, pc,   \* the agent that reads its sensors, and how far it is
  next,        \* the service it asks next
  data,        \* its TSensorsData, and then what the server has of it
  mounted,     \* the disks that were read
  answered,    \* the services that answered
  agentsData,  \* the agents and names of the last packets, in their order
  row          \* the row of the records table that data was stored as

machineVars == <<mounted, answered>>
serverVars == <<agentsData, row>>
vars == <<config, agent, pc, next, data, machineVars, serverVars>>

Windows == agent \in OnWin

-----------------------------------------------------------------------------
(* The temperature.                                                        *)

Temp(t, valid) == [temp |-> t, tempValid |-> valid]

\* When there is no sensor temp is never written: it is any float.
Unset == {Temp(t, FALSE) : t \in {"number", "infinite", "NaN"}}

\* What tempPath's file holds divided by tempDivider.  Of a file that holds no
\* number it is a number that was never written.
FromPath ==
  {Temp(t, TRUE) :
     t \in IF config.zeroDivider THEN {"NaN", "infinite"} ELSE {"number"}}

\* The average of the inputs of coretemp, also if there are none.
FromCoretemp == {Temp(t, TRUE) : t \in {"number", "NaN"}}

\* On Windows getCpuTemp returns 0 if WMI has no answer.
Temps(a) ==
  CASE a \in OnWin -> {Temp("number", TRUE)}
    [] a \notin OnWin /\ config.tempPath -> Unset \cup FromPath
    [] OTHER -> Unset \cup FromCoretemp

\* Mutant: the TSensorsData of the last reading is used again.
ReadTempAgain(a) ==
  /\ pc = "idle" /\ pc' = "disks"
  /\ agent' = a /\ next' = 1
  /\ \E t \in Temps(a) :
       data' = [data EXCEPT !.temp = t.temp, !.tempValid = t.tempValid]
  /\ mounted' = <<>> /\ answered' = {}
  /\ row' = [stored |-> FALSE]
  /\ UNCHANGED <<config, agentsData>>

ReadTemp(a) ==
  /\ pc = "idle" /\ pc' = "disks"
  /\ agent' = a /\ next' = 1
  /\ \E t \in Temps(a) :
       data' = [temp |-> t.temp, tempValid |-> t.tempValid,
                disksUsage |-> <<>>, services |-> <<>>]
  /\ mounted' = <<>> /\ answered' = {}
  /\ row' = [stored |-> FALSE]
  /\ UNCHANGED <<config, agentsData>>

-----------------------------------------------------------------------------
(* The disks.                                                              *)

\* A line of /proc/mounts, or a drive; a device may be mounted twice.
ReadDisk ==
  /\ pc = "disks" /\ Len(mounted) < MaxMounts
  /\ \E name \in IF Windows THEN Drives ELSE Devices :
       LET disk == [name |-> name, usage |-> ToString(Len(mounted) + 1)] IN
       /\ Windows => \A i \in DOMAIN mounted : mounted[i].name # name
       /\ mounted' = Append(mounted, disk)
       /\ data' = [data EXCEPT !.disksUsage = Append(@, disk)]
  /\ UNCHANGED <<config, agent, pc, next, answered, serverVars>>

DisksRead ==
  /\ pc = "disks" /\ pc' = "services"
  /\ UNCHANGED <<config, agent, next, data, machineVars, serverVars>>

\* /proc/mounts cannot be opened, and getSensorsData returns: also without
\* the services.  (A Windows agent that cannot list its disks dies.)
NoMounts ==
  /\ pc = "disks" /\ mounted = <<>> /\ ~Windows
  /\ pc' = "send"
  /\ UNCHANGED <<config, agent, next, data, machineVars, serverVars>>

-----------------------------------------------------------------------------
(* The services, one after the other.                                      *)

Asks(tcp) == pc = "services" /\ next \in DOMAIN Service /\ Service[next] \in tcp

Tell(available) ==
  /\ data' = [data EXCEPT !.services =
                Append(@, [service |-> next, available |-> available])]
  /\ next' = next + 1
  /\ UNCHANGED <<config, agent, pc, mounted, serverVars>>

\* Over TCP both agents connect to it.  Linux has a list of UDP ports.  On
\* Windows bind returns 0 or -1, and neither is taken for an available one.
ServiceAnswers ==
  /\ Asks(BOOLEAN)
  /\ answered' = answered \cup {next}
  /\ Tell(Service[next] \/ ~Windows)

\* Every line of /proc/net/udp after the first is taken to be of the kernel's
\* format: what sscanf does not match would leave local_port unset
\* (agent_lin/sensors.cpp:195-201).
ServiceSilent == Asks(BOOLEAN) /\ Tell(FALSE) /\ UNCHANGED answered

\* socket fails, and the function returns.
NoTcpSocket ==
  /\ Asks({TRUE})
  /\ pc' = "send"
  /\ UNCHANGED <<config, agent, next, data, machineVars, serverVars>>

\* Windows makes a socket for UDP too, and without it goes on.
NoUdpSocket ==
  /\ Asks({FALSE}) /\ Windows
  /\ next' = next + 1
  /\ UNCHANGED <<config, agent, pc, data, machineVars, serverVars>>

ServicesAsked ==
  /\ pc = "services" /\ next \notin DOMAIN Service
  /\ pc' = "send"
  /\ UNCHANGED <<config, agent, next, data, machineVars, serverVars>>

-----------------------------------------------------------------------------
(* The list of the agents' last data.                                      *)

RemoveDuplicate(disks, i) ==
  IF i \in DOMAIN disks /\ \E j \in 1..(i - 1) : disks[j].name = disks[i].name
  THEN RemoveAt(disks, i) ELSE disks

\* Mutant: the loop runs upward, and passes over what moves into place i.
fixPacketUpward(disks) ==
  LET kept[k \in 0..Len(disks)] ==
        IF k = 0 THEN disks ELSE RemoveDuplicate(kept[k - 1], k)
  IN  kept[Len(disks)]

\* The loop runs downward: kept[k] is what is left after k of its rounds.
fixPacket(disks) ==
  LET kept[k \in 0..Len(disks)] ==
        IF k = 0 THEN disks
        ELSE RemoveDuplicate(kept[k - 1], Len(disks) + 1 - k)
  IN  kept[Len(disks)]

\* Names that start with "KD" come first.
cmp(p1, p2) ==
  \/ p1.name \in KD /\ p2.name \notin KD
  \/ (p1.name \in KD <=> p2.name \in KD) /\ p1.name < p2.name

\* std::sort; packets of one name come in any order.
Sorted(q) ==
  {s \in SetToSeqs(ToSet(q)) : \A i, j \in DOMAIN s : i < j => ~cmp(s[j], s[i])}

Replace(p) == [i \in DOMAIN agentsData |->
                 IF agentsData[i].id = p.id THEN p ELSE agentsData[i]]

Known(p) == \E i \in DOMAIN agentsData : agentsData[i].id = p.id

\* Mutant: a packet that takes the place of another is not moved.
assignDataInPlace(p) ==
  IF Known(p) THEN agentsData' = Replace(p)
  ELSE agentsData' \in Sorted(Append(agentsData, p))

\* The packet takes the place of the agent's last one, or is added.
assignData(p) ==
  agentsData' \in Sorted(IF Known(p) THEN Replace(p) ELSE Append(agentsData, p))

-----------------------------------------------------------------------------
(* The row in the records table.                                           *)

Join(parts, delim) ==
  FoldLeft(LAMBDA text, part : IF text = <<>> THEN part ELSE text \o <<delim>> \o part,
           <<>>, parts)

\* Mutant: nothing between two disks.
diskUsagesJoined(disks) ==
  FlattenSeq([i \in DOMAIN disks |-> disks[i].name \o <<":", disks[i].usage>>])

diskUsages(disks) ==
  Join([i \in DOMAIN disks |-> disks[i].name \o <<":", disks[i].usage>>], ",")

\* NaN is bound as NULL, which the column refuses.
insertRecord(d) ==
  row' = IF d.temp = "NaN" THEN [stored |-> FALSE]
         ELSE [stored |-> TRUE, diskUsages |-> diskUsages(d.disksUsage)]

\* Parts between delimiters; an empty one at the end is left out.
explode(text, delim) ==
  LET cuts == {i \in DOMAIN text : text[i] = delim}
      at   == <<0>> \o SetToSortSeq(cuts, <) \o <<Len(text) + 1>>
      all  == [k \in 1..(Len(at) - 1) |-> SubSeq(text, at[k] + 1, at[k + 1] - 1)]
  IN  IF cuts # {} /\ Last(all) = <<>> THEN Front(all) ELSE all

\* The disks of a row: parts that have a name and a usage.
getRecords(text) ==
  LET pairs == SelectSeq(explode(text, ","), LAMBDA p : Len(explode(p, ":")) = 2)
  IN  [i \in DOMAIN pairs |-> [name |-> explode(pairs[i], ":")[1],
                               usage |-> explode(pairs[i], ":")[2][1]]]

-----------------------------------------------------------------------------
Init ==
  /\ config \in [tempPath : BOOLEAN, zeroDivider : BOOLEAN]
  /\ agent = 0 /\ pc = "idle" /\ next = 1
  /\ data = [temp |-> "number", tempValid |-> FALSE,
             disksUsage |-> <<>>, services |-> <<>>]
  /\ mounted = <<>> /\ answered = {}
  /\ agentsData = <<>> /\ row = [stored |-> FALSE]

\* The sample arrives as a live one.
Send ==
  /\ pc = "send" /\ pc' = "idle"
  /\ data' = [data EXCEPT !.disksUsage = fixPacket(@)]
  /\ \E name \in Names : assignData([id |-> agent, name |-> name])
  /\ insertRecord(data')
  /\ UNCHANGED <<config, agent, next, machineVars>>

Next ==
  \/ \E a \in Agents : ReadTemp(a)
  \/ ReadDisk \/ DisksRead \/ NoMounts
  \/ ServiceAnswers \/ ServiceSilent \/ NoTcpSocket \/ NoUdpSocket \/ ServicesAsked
  \/ Send

Spec == Init /\ [][Next]_vars

-----------------------------------------------------------------------------
(* Properties.                                                             *)

Received == pc = "idle" /\ agent # 0

\* Every variable has its type.
TypeOK ==
  /\ config \in [tempPath : BOOLEAN, zeroDivider : BOOLEAN]
  /\ agent \in Agents \cup {0} /\ next \in 1..(Len(Service) + 1)
  /\ pc \in {"idle", "disks", "services", "send"}
  /\ data.temp \in {"number", "infinite", "NaN"} /\ data.tempValid \in BOOLEAN
  /\ \A i \in DOMAIN data.disksUsage : data.disksUsage[i] \in ToSet(mounted)
  /\ data.services \in Seq([service : DOMAIN Service, available : BOOLEAN])
  /\ \A i \in DOMAIN mounted : mounted[i].name \in Devices \cup Drives
  /\ answered \subseteq DOMAIN Service
  /\ agentsData \in Seq([id : Agents, name : Names]) /\ row.stored \in BOOLEAN

\* What viewers are sent has each agent once, those of names that start with
\* "KD" before the others and each of these groups by name, whoever reported
\* last and under which name (server/agents.cpp:7-28, 46-63).
FeedSorted ==
  /\ \A i, j \in DOMAIN agentsData : i < j =>
       /\ agentsData[i].id # agentsData[j].id
       /\ ~cmp(agentsData[j], agentsData[i])
  /\ Received => \E i \in DOMAIN agentsData : agentsData[i].id = agent

\* The disks but for those that have the name of one before them.
FirstOfName(disks) ==
  {i \in DOMAIN disks : \A j \in 1..(i - 1) : disks[j].name # disks[i].name}

\* The disks that are told are the first of each name, in their order.
FirstsTold(told, disks) ==
  /\ ToSet(told) = {disks[i] : i \in FirstOfName(disks)}
  /\ \A k, l \in DOMAIN told : k < l =>
       \E i, j \in FirstOfName(disks) :
         i < j /\ told[k] = disks[i] /\ told[l] = disks[j]

\* Of a device that is mounted several times, also more than twice, the first
\* mount is told, and no other device is lost (server/agents.cpp:30-44).  And
\* whichever step ended the reading, no service is told to be available that did
\* not answer, and one over TCP that is not told is behind all that are
\* (agent_lin/sensors.cpp:138-206, agent_win/src/test.cpp:165-259).
ToldAsRead ==
  Received =>
    LET told == {data.services[k].service : k \in DOMAIN data.services}
    IN  /\ FirstsTold(data.disksUsage, mounted)
        /\ \A k \in DOMAIN data.services :
             data.services[k].available => data.services[k].service \in answered
        /\ \A i \in DOMAIN Service \ told : Service[i] => \A j \in told : j < i

\* From the column every disk with no ":" in its name comes back once, with
\* its usage and in its place, whatever the names next to it; and no disk that
\* was not written (server/db.cpp:199-210, 273-286).
DisksReadBack ==
  Received /\ row.stored =>
    getRecords(row.diskUsages) =
      SelectSeq(data.disksUsage, LAMBDA d : ":" \notin ToSet(d.name))
=============================================================================
