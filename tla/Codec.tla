------------------------------- MODULE Codec -------------------------------
(***************************************************************************)
(* What becomes of a packet's fields between the program that writes it    *)
(* and the one that reads it.  Every packet is coded twice, in C++ for the *)
(* server and the agents (common/packets.h, sensors.h) and in Java for the *)
(* viewer, with nothing but the order of the calls to keep them together.  *)
(* A layout lists the fields a class appends and fetches, in order; an     *)
(* action is one append or one fetch.  An agent's configuration passes     *)
(* through four packets and twice through the text columns of the table,   *)
(* and then into the agent's file, from which it is read at the next start.*)
(*                                                                         *)
(* A number's value is not followed, only which field each of its bytes    *)
(* belongs to.  Of texts, a character is followed: x, the delimiters of    *)
(* the columns, the space that ends a value in the file, and e, one outside*)
(* ASCII.  The buffers of 100 bytes in DB::updateAgent and main, the       *)
(* clamped interval (Server) and the bytes of a body that its header does  *)
(* not count are left out.  So is what PacketConfig.java:75-82 and         *)
(* PacketStatsRequest.java:60 do with texts of more than 32767 bytes, which*)
(* they count in a short: the buffer is too small, and nothing is written. *)
(***************************************************************************)
EXTENDS Naturals, Sequences, FiniteSets, SequencesExt

CONSTANTS
  LenMod,     \* values of a uint16_t
  Strings,    \* texts of one field
  MaxTexts,   \* bound: texts in a packet
  OwnServices, \* services in the agent's own configuration file
  MaxPoints   \* bound: points of a chart

\* 65536 in the code.  No more than one ":" in a text: else the piece before
\* a "," might have the three parts of a service.  The viewer asks for as
\* many points as its screen is wide.
ASSUME CodecAssumption ==
  /\ {LenMod, MaxTexts, MaxPoints, OwnServices} \subseteq Nat
  /\ 2 * MaxPoints < LenMod
  /\ \A s \in Strings : /\ s \in Seq({"x", ":", ",", " ", "e"})
                        /\ \A i, j \in DOMAIN s : s[i] = ":" /\ s[j] = ":" => i = j

VARIABLES
  route,   \* the packets that carry the fields, one after the other
  hop,     \* which of them is under way
  phase,   \* what is done with it
  todo,    \* the fields yet to be appended or fetched
  meant,   \* what the first writer put in
  have,    \* the fields of the object that is written
  length,  \* bytes that were appended
  body,    \* those of them not yet fetched
  got      \* the fields fetched

vars == <<route, hop, phase, todo, meant, have, length, body, got>>

-----------------------------------------------------------------------------
(* Layouts.                                                                *)

Num(f, w) == [kind |-> "number", f |-> f, width |-> w, of |-> <<>>]
Str(f)    == [kind |-> "text", f |-> f, width |-> 0, of |-> <<>>]
List(f, l) == [kind |-> "list", f |-> f, width |-> 0, of |-> l]

\* In C++.
TDiskUsage == <<Str("disk"), Num("totalSpace", 8), Num("usedSpace", 8)>>
TService   == <<Str("watched"), Num("available", 1)>>
TSensorsData ==
  <<Num("timestamp", 4), Num("temp", 4), Num("tempValid", 1),
    Num("cpuUsage", 4), Num("totalRam", 8), Num("freeRam", 8),
    Num("uptime", 4), List("disksUsage", TDiskUsage),
    List("services", TService)>>
TPacketAuth  == <<Num("key", 16), Num("sendConfig", 1)>>
TPacketReply == <<Num("value", 4)>>
TPacketStart == <<Num("interval", 2)>>
TPacketAgentData ==
  <<Num("id", 2), Num("oldData", 1), Str("name")>> \o TSensorsData
TPacketAgentsData == <<List("agents", TPacketAgentData)>>
TPacketKeyReply == <<Num("key", 16)>>
TPacketConfigService == <<Str("service"), Num("tcp", 1), Num("port", 2)>>
TPacketConfig ==
  <<Num("agentId", 2), Str("tempPath"), Num("tempDivider", 2),
    List("services", TPacketConfigService), Num("interval", 2), Str("name")>>
TPacketConfigRequest == <<Num("agentId", 2)>>
TPacketStatsRequest ==
  <<Num("agentId", 2), Num("startDate", 4), Num("endDate", 4),
    Num("points", 2), Num("type", 1), Str("diskName")>>
TPacketStatsReply == <<List("points", <<Num("point", 4)>>)>>

\* In Java.
DiskUsageData == <<Str("disk"), Num("totalSpace", 8), Num("usedSpace", 8)>>
ServiceData   == <<Str("watched"), Num("available", 1)>>
SensorsData ==
  <<Num("timestamp", 4), Num("temp", 4), Num("tempValid", 1),
    Num("cpuUsage", 4), Num("totalRam", 8), Num("freeRam", 8),
    Num("uptime", 4), List("disksUsage", DiskUsageData),
    List("services", ServiceData)>>
AgentData == <<Num("id", 2), Num("oldData", 1), Str("name")>> \o SensorsData
PacketAuthKey == <<Num("key", 16), Num("sendConfig", 1)>>
PacketReply == <<Num("value", 4)>>
PacketStart == <<Num("interval", 2)>>
PacketAgentsData == <<List("agents", AgentData)>>
PacketKeyReply == <<Num("key", 16)>>
\* Mutant: the two numbers of a service the other way round.
ServiceConfigSwapped == <<Str("service"), Num("port", 2), Num("tcp", 1)>>
ServiceConfig == <<Str("service"), Num("tcp", 1), Num("port", 2)>>
PacketConfig ==
  <<Num("agentId", 2), Str("tempPath"), Num("tempDivider", 2),
    List("services", ServiceConfig), Num("interval", 2), Str("name")>>
PacketConfigRequest == <<Num("agentId", 2)>>
PacketStatsRequest ==
  <<Num("agentId", 2), Num("startDate", 4), Num("endDate", 4),
    Num("points", 2), Num("type", 1), Str("diskName")>>
PacketStatsReply == <<List("points", <<Num("point", 4)>>)>>

\* The type numbers, from 0.
packetTypes ==
  <<"AUTH", "REPLY", "AGENTDATA", "START", "STOP", "PING", "AGENTSDATA",
    "KEY_REQUEST", "KEY_REPLY", "CONFIG", "CONFIG_REQUEST", "CONFIG_REPLY",
    "CONFIG_CHANGE_REQUEST", "CONFIG_CHANGE_REPLY", "STATS_REQUEST",
    "STATS_REPLY">>
\* Mutant: the two replies about a configuration exchange their numbers.
HeaderTypesSwapped ==
  <<"AUTH", "REPLY", "AGENT_DATA", "START", "STOP", "PING", "AGENTS_DATA",
    "KEY_REQUEST", "KEY_REPLY", "CONFIG", "CONFIG_REQUEST", "CHANGE_REPLY",
    "CHANGE_REQUEST", "CONFIG_REPLY", "STATS_REQUEST", "STATS_REPLY">>
HeaderTypes ==
  <<"AUTH", "REPLY", "AGENT_DATA", "START", "STOP", "PING", "AGENTS_DATA",
    "KEY_REQUEST", "KEY_REPLY", "CONFIG", "CONFIG_REQUEST", "CONFIG_REPLY",
    "CHANGE_REQUEST", "CHANGE_REPLY", "STATS_REQUEST", "STATS_REPLY">>

\* Which class each program writes for a type, and reads.
Writes ==
  [agent  |-> [AUTH |-> TPacketAuth, AGENTDATA |-> TPacketAgentData],
   server |-> [REPLY |-> TPacketReply, AGENTSDATA |-> TPacketAgentsData,
               KEY_REPLY |-> TPacketKeyReply, CONFIG |-> TPacketConfig,
               CONFIG_REPLY |-> TPacketConfig,
               CONFIG_CHANGE_REPLY |-> TPacketReply,
               STATS_REPLY |-> TPacketStatsReply],
   viewer |-> [AUTH |-> PacketAuthKey, START |-> PacketStart,
               CONFIG_REQUEST |-> PacketConfigRequest,
               CHANGE_REQUEST |-> PacketConfig,
               STATS_REQUEST |-> PacketStatsRequest]]
AgentReads == [REPLY |-> TPacketReply, CONFIG |-> TPacketConfig]
ServerReads ==
  [AUTH |-> TPacketAuth, AGENTDATA |-> TPacketAgentData,
   START |-> TPacketStart, CONFIG_REQUEST |-> TPacketConfigRequest,
   CONFIG_CHANGE_REQUEST |-> TPacketConfig,
   STATS_REQUEST |-> TPacketStatsRequest]
ViewerReads ==
  [REPLY |-> PacketReply, AGENTS_DATA |-> PacketAgentsData,
   KEY_REPLY |-> PacketKeyReply, CONFIG_REPLY |-> PacketConfig,
   CHANGE_REPLY |-> PacketReply, STATS_REPLY |-> PacketStatsReply]
Reads == [agent |-> AgentReads, server |-> ServerReads, viewer |-> ViewerReads]

Types(program) == IF program = "viewer" THEN HeaderTypes ELSE packetTypes

\* What the reader makes of the type number: nothing if it has no case for it.
ReadAs(h) ==
  LET n == SelectInSeq(Types(h.from), LAMBDA t : t = h.type)
      type == Types(h.to)[n]
  IN  IF type \in DOMAIN Reads[h.to] THEN Reads[h.to][type] ELSE <<>>

Hop(from, to, type) == [from |-> from, to |-> to, type |-> type]

ConfigRoute ==
  <<Hop("viewer", "server", "CHANGE_REQUEST"),
    Hop("server", "viewer", "CONFIG_REPLY"),
    Hop("viewer", "server", "CHANGE_REQUEST"),
    Hop("server", "agent", "CONFIG")>>

\* ConfigRoute: a dialog saved, opened again and saved as it is.
Routes ==
  {ConfigRoute}
    \cup {<<Hop("agent", "server", t)>> : t \in DOMAIN Writes.agent}
    \cup {<<Hop("viewer", "server", t)>> :
            t \in DOMAIN Writes.viewer \ {"CHANGE_REQUEST"}}
    \cup {<<Hop("server", "viewer", t)>> :
            t \in DOMAIN Writes.server \ {"CONFIG", "CONFIG_REPLY"}}
    \cup {<<Hop("server", "agent", "REPLY")>>}

Now == route[hop]
Java(program) == program = "viewer"

-----------------------------------------------------------------------------
(* Values.                                                                 *)

\* A byte of a number, a length or a text; a character of a text.
Byte(is, at) == [is |-> is, at |-> at]

Value(kind, f, v) == [kind |-> kind, f |-> f, v |-> v]

\* The elements of s at the positions "at", in their order.
ThoseAt(s, at) ==
  LET those[k \in 0..Len(s)] ==
        IF k = 0 THEN <<>>
        ELSE IF k \in at THEN Append(those[k - 1], s[k]) ELSE those[k - 1]
  IN  those[Len(s)]

OfField(values, f) == ThoseAt(values, {i \in DOMAIN values : values[i].f = f})

Held(f) == OfField(have, f)[1].v

\* have without the next value of f.
Without(f) == RemoveFirstMatch(have, LAMBDA x : x.f = f)

Number(item) == [i \in 1..item.width |-> Byte(item.f, i)]

Text(s) == [i \in DOMAIN s |-> Byte(s[i], 0)]

Count(n) == <<Byte("count", n)>>

Length(n) == <<Byte("lengthLow", n % LenMod), Byte("lengthHigh", n % LenMod)>>

\* String.getBytes, UTF-8.  "high" is a byte from 128; (char) of one, "wide",
\* has its sign extended: a character of three bytes.
Utf8(c) ==
  CASE c.is = "e" -> <<Byte("high", 0), Byte("high", 0)>>
    [] c.is = "wide" -> [i \in 1..3 |-> Byte("high", 0)]
    [] OTHER -> <<c>>

GetBytes(v) == FlattenSeq([i \in DOMAIN v |-> Utf8(v[i])])

FromBytes(v) == ReplaceAll(v, Byte("high", 0), Byte("wide", 0))

Texts(fields) == Cardinality({i \in DOMAIN fields : fields[i].kind = "text"})

\* Lengths of a list the packet has room for.
Lengths(item) ==
  IF Texts(item.of) = 0 THEN 0..MaxPoints
  ELSE {n \in 0..MaxTexts :
          Texts(meant) + n * Texts(item.of) + Texts(todo) <= MaxTexts}

Repeat(n, layout) == FlattenSeq([i \in 1..n |-> layout])
-----------------------------------------------------------------------------
(* The table's text columns.                                               *)

\* explode (..., ","), then explode (..., ":"): of the name before
\* ":tcp:port", what follows its last ",".
LastPiece(v) ==
  SubSeq(v, SelectLastInSeq(v, LAMBDA c : c.is = ",") + 1, Len(v))

\* Mutant: an explode that leaves out empty parts.
PartsNotEmpty(v) ==
  (IF v = <<>> THEN 0 ELSE 1) + Cardinality({i \in DOMAIN v : v[i].is = ":"})

Parts(v) == 1 + Cardinality({i \in DOMAIN v : v[i].is = ":"})

\* Mutant: the services come back last to first.
StoredReversed(values) ==
  LET service == OfField(values, "service")
      kept == SelectSeq([i \in DOMAIN service |-> Len(service) + 1 - i],
                        LAMBDA i : Parts(LastPiece(service[i].v)) = 1)
      row(i) == <<Value("text", "service", LastPiece(service[i].v)),
                  OfField(values, "tcp")[i], OfField(values, "port")[i]>>
  IN  SelectSeq(values, LAMBDA x : x.f \notin {"services", "service", "tcp", "port"})
        \o <<Value("list", "services", Count(Len(kept)))>>
        \o FlattenSeq([i \in DOMAIN kept |-> row(kept[i])])

\* DB::updateAgent and then DB::fetchAgent: what is left of a configuration.
Stored(values) ==
  LET service == OfField(values, "service")
      tcp == OfField(values, "tcp")
      port == OfField(values, "port")
      pieces == [i \in DOMAIN service |-> LastPiece(service[i].v)]
      kept == ThoseAt([i \in DOMAIN pieces |-> i],
                      {i \in DOMAIN pieces : Parts(pieces[i]) = 1})
      row(i) == <<Value("text", "service", pieces[i]), tcp[i], port[i]>>
      path == OfField(values, "tempPath")[1].v
  IN  OfField(values, "agentId")
        \o (IF Parts(path) = 1
            THEN OfField(values, "tempPath") \o OfField(values, "tempDivider")
            ELSE <<Value("text", "tempPath", <<>>),
                   Value("number", "tempDivider",
                         [i \in 1..2 |-> Byte("one", i)])>>)
        \o <<Value("list", "services", Count(Len(kept)))>>
        \o FlattenSeq([i \in DOMAIN kept |-> row(kept[i])])
        \o OfField(values, "interval") \o OfField(values, "name")

-----------------------------------------------------------------------------
(* The agent's configuration file: pairs of a key and a value.             *)

Own(i) == <<Value("text", "service", Text(<<"x">>)),
            Value("number", "tcp", <<Byte("own", i)>>),
            Value("number", "port", <<Byte("own", i)>>)>>

Service(values, i) == <<OfField(values, "service")[i], OfField(values, "tcp")[i],
                        OfField(values, "port")[i]>>

Served(values) == Len(OfField(values, "service"))

\* The keys "srv0", "srv1" ... : those that are not written stay.
Srv(values) == [i \in 1..Max({Served(values), OwnServices}) |->
                  IF i <= Served(values) THEN Service(values, i) ELSE Own(i)]

\* Mutant: the number of services is not lowered.
FiledGrows(values) ==
  [services |-> Max({Served(values), OwnServices}), srv |-> Srv(values),
   tempPath |-> OfField(values, "tempPath")[1].v,
   numbers |-> OfField(values, "tempDivider") \o OfField(values, "interval")]

\* What main sets of its Config, and saves.
Filed(values) ==
  [services |-> Served(values), srv |-> Srv(values),
   tempPath |-> OfField(values, "tempPath")[1].v,
   numbers |-> OfField(values, "tempDivider") \o OfField(values, "interval")]

\* What fscanf reads of a value; what follows is a line with no "=".
Token(v) ==
  LET space == SelectInSeq(v, LAMBDA c : c.is = " ")
  IN  IF space = 0 THEN v ELSE SubSeq(v, 1, space - 1)

\* Config::fromFile, and main: a service is one of three parts.
Loaded(f) ==
  LET whole(i) == LET v == f.srv[i][1].v IN Token(v) = v /\ Parts(v) = 1
      kept == ThoseAt([i \in 1..f.services |-> i], {i \in 1..f.services : whole(i)})
  IN  <<Value("text", "tempPath", Token(f.tempPath))>> \o f.numbers
        \o FlattenSeq([i \in DOMAIN kept |-> f.srv[kept[i]]])

-----------------------------------------------------------------------------
(* The behaviour.                                                          *)

Init ==
  /\ route \in Routes /\ hop = 1 /\ phase = "write"
  /\ todo = Writes[route[1].from][route[1].type]
  /\ meant = <<>> /\ have = <<>>
  /\ length = 0 /\ body = <<>> /\ got = <<>>

\* The next field is appended as bytes, its value being v; then come "then".
Appends(v, bytes, then) ==
  LET item == Head(todo)
  IN  /\ length' = length + Len(bytes) /\ body' = body \o bytes
      /\ todo' = then \o Tail(todo)
      /\ IF hop = 1
         THEN /\ meant' = Append(meant, Value(item.kind, item.f, v))
              /\ UNCHANGED have
         ELSE /\ have' = Without(item.f)
              /\ UNCHANGED meant
      /\ UNCHANGED <<route, hop, phase, got>>

Writing(kind) == phase = "write" /\ todo # <<>> /\ Head(todo).kind = kind

\* The value written: the first writer's may be any of "values".
Chosen(values) == IF hop = 1 THEN values ELSE {Held(Head(todo).f)}

AppendNumber ==
  /\ Writing("number")
  /\ \E v \in Chosen({Number(Head(todo))}) : Appends(v, v, <<>>)

\* Mutant: characters are counted for the size of the packet.
AppendTextChars ==
  /\ Writing("text")
  /\ \E v \in Chosen({Text(s) : s \in Strings}) :
       /\ length' = length + 2 + Len(v)
       /\ body' = body \o Length(Len(GetBytes(v))) \o GetBytes(v)
       /\ todo' = Tail(todo)
       /\ meant' = IF hop = 1
                   THEN Append(meant, Value("text", Head(todo).f, v)) ELSE meant
       /\ have' = IF hop = 1 THEN have ELSE Without(Head(todo).f)
  /\ UNCHANGED <<route, hop, phase, got>>

AppendText ==
  /\ Writing("text")
  /\ \E v \in Chosen({Text(s) : s \in Strings}) :
       Appends(v, Length(Len(GetBytes(v))) \o GetBytes(v), <<>>)

AppendList ==
  /\ Writing("list")
  /\ \E v \in Chosen({Count(n) : n \in Lengths(Head(todo))}) :
       Appends(v, Length(v[1].at), Repeat(v[1].at, Head(todo).of))

\* sendPacket, and the reader's buffer: header.size bytes.  It is a short in
\* Java, and new byte[] of a negative one throws.
SendBody ==
  LET size == length % LenMod
  IN  /\ phase = "write" /\ todo = <<>>
      /\ phase' = IF Java(Now.to) /\ 2 * size >= LenMod THEN "dropped" ELSE "read"
      /\ todo' = ReadAs(Now) /\ got' = <<>>
      /\ body' = SubSeq(body, 1, size)
      /\ UNCHANGED <<route, hop, meant, have, length>>

Reading(kind) == phase = "read" /\ todo # <<>> /\ Head(todo).kind = kind

\* Past n bytes of the body, the next field being v; then come "then".
Fetches(n, v, then) ==
  LET item == Head(todo)
  IN  /\ got' = Append(got, Value(item.kind, item.f, v))
      /\ todo' = then \o Tail(todo)
      /\ body' = SubSeq(body, n + 1, Len(body))
      /\ UNCHANGED <<route, hop, phase, meant, have, length>>

Ends(how) ==
  /\ phase' = how
  /\ UNCHANGED <<route, hop, todo, meant, have, length, body, got>>

FetchNumber ==
  /\ Reading("number") /\ Len(body) >= Head(todo).width
  /\ Fetches(Head(todo).width, SubSeq(body, 1, Head(todo).width), <<>>)

\* The length a fetch finds at the front of the body; LenMod if the bytes
\* there are not a length.
Announced ==
  IF /\ Len(body) >= 2
     /\ \E n \in 0..LenMod - 1 : SubSeq(body, 1, 2) = Length(n)
  THEN body[1].at ELSE LenMod

FetchText ==
  /\ Reading("text") /\ Len(body) >= 2 + Announced
  /\ LET v == SubSeq(body, 3, 2 + Announced)
     IN  Fetches(2 + Announced, IF Java(Now.to) THEN FromBytes(v) ELSE v, <<>>)

\* for (short i = getShort (); i > 0; i--) in Java.
FetchList ==
  /\ Reading("list") /\ Announced < LenMod
  /\ LET n == IF Java(Now.to) /\ 2 * Announced >= LenMod THEN 0 ELSE Announced
     IN  Fetches(2, Count(n), Repeat(n, Head(todo).of))

\* ByteBuffer.get beyond the end throws, and the connection is closed.
Underflow ==
  /\ phase = "read" /\ todo # <<>> /\ Java(Now.to)
  /\ \/ Reading("number") /\ Len(body) < Head(todo).width
     \/ Reading("text") /\ Len(body) < 2 + Announced
     \/ Reading("list") /\ Announced = LenMod
  /\ Ends("dropped")

\* fetch returns false, which the handlers do not look at (the agent data's
\* sensors included): the rest of the object is indeterminate.
FetchFails ==
  /\ ~Java(Now.to)
  /\ \/ Reading("number") /\ Len(body) < Head(todo).width
     \/ Reading("list") /\ Announced = LenMod
  /\ Ends("partial")

\* fetch (string&) goes on beyond the end, and returns true.
FetchTextFails ==
  /\ ~Java(Now.to)
  /\ Reading("text") /\ Len(body) < 2 + Announced
  /\ Ends("indeterminate")

HasRead == phase = "read" /\ todo = <<>>

\* A configuration goes on to its next packet, from the server by the table.
PassOn ==
  /\ HasRead
  /\ IF hop < Len(route)
     THEN LET next == route[hop + 1]
          IN  /\ hop' = hop + 1 /\ phase' = "write"
              /\ todo' = Writes[next.from][next.type]
              /\ have' = IF next.from = "server" THEN Stored(got) ELSE got
              /\ length' = 0 /\ body' = <<>>
              /\ UNCHANGED got
     ELSE /\ phase' = "done"
          /\ UNCHANGED <<hop, todo, have, length, body, got>>
  /\ UNCHANGED <<route, meant>>

\* The agent saves the configuration, and is started again.
Restart ==
  /\ phase = "done" /\ route = ConfigRoute
  /\ phase' = "restarted" /\ have' = Loaded(Filed(got))
  /\ UNCHANGED <<route, hop, todo, meant, length, body, got>>

Next ==
  \/ AppendNumber \/ AppendText \/ AppendList \/ SendBody
  \/ FetchNumber \/ FetchText \/ FetchList
  \/ Underflow \/ FetchFails \/ FetchTextFails
  \/ PassOn \/ Restart

Spec == Init /\ [][Next]_vars
-----------------------------------------------------------------------------
(* Properties.                                                             *)

Fields == {"key", "sendConfig", "value", "interval", "id", "oldData", "name",
  "timestamp", "temp", "tempValid", "cpuUsage", "totalRam", "freeRam", "uptime",
  "disksUsage", "disk", "totalSpace", "usedSpace", "services", "watched",
  "available", "agents", "agentId", "tempPath", "tempDivider", "service", "tcp",
  "port", "startDate", "endDate", "points", "type", "diskName", "point"}

\* Every variable has its type.
TypeOK ==
  /\ route \in Routes /\ hop \in DOMAIN route
  /\ phase \in {"write", "read", "dropped", "partial", "indeterminate", "done",
               "restarted"}
  /\ \A s \in {todo, meant, have, got} : \A i \in DOMAIN s :
       /\ s[i].f \in Fields /\ s[i].kind \in {"number", "text", "list"}
  /\ length \in Nat /\ Len(body) <= length

Same(values, others) == \A f \in Fields : OfField(values, f) = OfField(others, f)

\* No text of the packet has the character c.
NoneHas(c) ==
  \A i \in DOMAIN meant : meant[i].kind # "text" \/ Byte(c, 0) \notin Range(meant[i].v)

\* What the reader of this packet ought to have, in its own characters.
Encoded(values) ==
  [i \in DOMAIN values |->
     IF values[i].kind = "text"
     THEN [values[i] EXCEPT !.v = GetBytes(@)] ELSE values[i]]

\* A program that finishes reading a packet has every field as it was written,
\* and no byte left over: the server and the agent byte for byte, the viewer if
\* the texts are ASCII.
ReadsRight ==
  /\ HasRead => body = <<>>
  /\ HasRead /\ hop = 1 =>
       \/ Same(got, Encoded(meant))
       \/ Java(Now.to) /\ ~NoneHas("e")

\* Reading fails for no other reason than a packet that its header's size
\* cannot count: 64 KB for the server and the agent, 32 KB for the viewer.
FailsOnlyIfTooLong ==
  /\ phase = "dropped" => 2 * length >= LenMod
  /\ phase \in {"partial", "indeterminate"} => length >= LenMod

\* The configuration an agent is sent after a dialog was saved, opened again
\* and saved as it is, is the one that the first save left in the table, if its
\* texts are ASCII: neither the classes nor the text columns change it further.
SavedAgainUnchanged ==
  HasRead /\ hop > 1 /\ NoneHas("e") => Same(got, Stored(meant))

\* The table gives back a configuration whose texts have none of its
\* delimiters, whatever the other texts are.
DelimitersOnly ==
  HasRead /\ hop = 4 /\ NoneHas("e") /\ NoneHas(":") /\ NoneHas(",")
    => Same(got, meant)

\* An agent that is started again has the configuration it was sent last, if
\* no text has a space; and if one has, no service that it was not sent: none
\* that its file had before comes back (agent_lin/main.cpp:62-82, 157-175,
\* common/config.cpp:32-79).
RestartKeepsConfig ==
  phase = "restarted" =>
    /\ NoneHas(" ") =>
         /\ \A f \in {"tempPath", "tempDivider", "interval"} :
              OfField(have, f) = OfField(got, f)
         /\ Served(have) = Served(got)
    /\ \A i \in 1..Served(have) : \E j \in 1..Served(got) :
         i <= j /\ Service(have, i) = Service(got, j)
=============================================================================
