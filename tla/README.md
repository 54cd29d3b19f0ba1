# AdminTools in TLA+

AdminTools watches computers: an *agent* on each of them samples its sensors
(CPU, memory, disks, temperature, services) every few seconds and sends the
samples to a *server*, which keeps them in SQLite; *viewers* (an Android
application) connect to the server to see the last values of all agents, charts
of old ones, and to change how an agent works. This directory holds TLA+ modules
of the parts with state worth checking, TLC configurations for small instances,
and proofs, checked by TLAPS, of what holds for every instance.

## 1. The system

| component | code | state | operations |
|---|---|---|---|
| event loop | `server/main.cpp` | the vector of clients, the set given to `select`, `needSettingsReload` | accept; read every readable client; `process`, `fetchConfig` and erase every client; stop on a signal |
| client session | `server/client.cpp` | receive buffer and state, `currentHeader`, two timers, `authorized`, `dbAgent`, `toDelete`, `settingsChanged`, feed timer, `oldData`, `dataToSend` | `readData`, `processPacket` (nine packet types), `process` (send, time-outs, feed, flush of old samples), `fetchConfig`, `kill` |
| tables | `server/db.cpp` | `agents` (a row with key and settings), `records` (unique on agent and time stamp) | find, insert and update agents; insert one record, or a batch in a transaction; select a range |
| last data | `server/agents.cpp` | the newest sample of each agent, sorted by name | replace and sort, list those fresh enough, drop duplicate disks |
| statistics | `client.cpp` `generateAndSendStats`, `db.cpp` `getRecords` | local | cut a range of dates into buckets and average each |
| Linux agent | `agent_lin/main.cpp`, `server.cpp` | connection state and descriptor, queue of unsent samples, configuration; the files `olddata` and `*.cfg` | connect and authenticate, read packets, take a sample and send or save it, send one saved sample, store a configuration; stop and start |
| Windows agent | `agent_win/src` | the same, and whether the process has its sockets (WSAStartup) | a port of the Linux agent |
| sensors | `agent_lin/sensors.cpp`, `agent_win/src/test.cpp`, `DiagnosticMgr.cpp` | none | read the temperature, the disks, the services one after the other |
| Android connection | `ConnectionTask.java`, `ConnectionService.java` | `state`, `host`, `isConnected`, `isStopped`, `endTask`, `packetQueue`, socket | network thread: connect, start, receive, stop, disconnect, ping; main thread: `connect`, `stop`, `disconnect`, `addPacket` |
| activities | `StatsActivity`, `ChartsActivity`, ... | views | user interface |
| common code | `common/` | none | packet codecs, timers, `recvall`, configuration text |

Everything is tied together by one TCP protocol: a three-byte header (type,
size) and a body. `AUTH` starts a session of an agent (its key) or of a viewer
(a key with a row); `REPLY` answers it and `CONFIG` may follow; `AGENTDATA` is a
sample, live or saved; `START` and `STOP` turn the viewers' feed of `AGENTSDATA`
on and off; `CONFIG_REQUEST`, `CONFIG_CHANGE_REQUEST`, `KEY_REQUEST` and
`STATS_REQUEST` are a viewer's. The server is one thread. The agent is one
thread that blocks in `connect()`. The Android application has two threads that
share fields without a common lock.

What is hard here, and what each component has to get right:

- *Server loop and sessions.* A client can be killed at any packet while its
  object stays in the vector, its descriptor is closed more than once, and the
  kernel reuses numbers; `select` fails, and the server exits, if a closed one
  is left. Every client caches its agent's row, so a change made through one has
  to reach all. Handlers differ in which test they make of `authorized`. Old
  samples wait in the object, under no agent, and are stored later. Two timers
  decide who is gone. All of it depends on the order of passes and packets.
- *The path of a sample.* It goes from the agent's queue or `olddata` over a
  connection that may be dead without anyone knowing, through an object that may
  be erased, into a transaction that may be rolled back, or be left open when its
  COMMIT fails. Both programs may be killed, also while they write a file. No copy
  may be made and none lost except where the design accepts it.
- *The Windows agent* is the same program with other calls under it: it gives up
  all sockets of the process where the original closes one, does not look at what
  `send` returned, and replaces its configuration file in two steps.
- *Sensors.* A reading has several early ways out; what it leaves unset is sent,
  sorted, joined into a column and parsed again.
- *The path of a configuration.* The server broadcasts it, also to clients in
  the middle of a handshake; the agent must end up with the last one.
- *Framing.* TCP cuts packets anywhere, and the buffer is shifted in place.
- *Codecs.* Each packet is coded twice, in C++ and in Java, with nothing shared;
  sizes wrap at 64 KB for one and turn negative at 32 KB for the other; the table
  and the agent's file keep services and sensor path as text with delimiters that
  are not escaped.
- *Statistics.* Dates are 32 bits, unsigned here and signed there; a width of 0
  or a wrap-around would never end, and the server has one thread.
- *Android connection.* Commands are writes of `state` by one thread that the
  other thread overwrites when it finishes what it was doing.

`PROJECT.json` lists these hazards one by one, each at its line, with the
properties that watch it.

## 2. The modules

| module | models | extends |
|---|---|---|
| `Server` | event loop, sessions, tables, last data | |
| `ServerProofs` | theorems about `Server` | `Server` |
| `Framing` | `Client::readData`, byte by byte | |
| `FramingProofs` | theorems about `Framing`, its refinement of `PacketStream` among them | `Framing` |
| `PacketStream` | abstract: packets are handled whole, once, in order | |
| `Codec` | every packet's fields from one program's class to the other's, and the configuration's way through the table and the agent's file | |
| `CodecProofs` | theorems about `Codec` | `Codec` |
| `Stats` | `getRecords` and `generateAndSendStats` | |
| `StatsProofs` | theorems about `Stats` | `Stats` |
| `Sensors` | reading a machine, and what the server's list and table make of it | |
| `SensorsProofs` | theorems about `Sensors` | `Sensors` |
| `Agent` | the Linux agent and its end of the network | |
| `WinAgent` | the Windows agent: what it does otherwise | `Agent` |
| `Table` | the database file as `db.cpp` uses it: what is seen, what is on disk, an open transaction | |
| `Pipeline` | either agent, the network and the server's part in it | `WinAgent`, `Table` |
| `Custody` | abstract: what the pipeline promises each sample | |
| `PipelineProofs` | types, the database file, configurations, sockets | `Pipeline` |
| `PipelineCustodyProofs` | where each sample is, that it is there once, and the refinement of `Custody` | `PipelineProofs` |
| `ConnectionTask` | both threads of the Android connection | |
| `ConnectionTaskProofs` | theorems about `ConnectionTask` | `ConnectionTask` |
| `MCServer`, `MCFraming`, `MCCodec`, `MCStats`, `MCSensors`, `MCPipeline`, `MCConnectionTask` | instances for TLC | theirs |

`Pipeline` composes the agents and the table with what `Server` has of one agent's
connections. `Pipeline` implements `Custody`, and `Framing` implements
`PacketStream`, both by `INSTANCE ... WITH` a refinement mapping that is checked as
a property, and proved (sections 3 and 4).

### Server

A client object is an element of `Conn`; the vector is the set `clients`; `pc`
is where the loop is, and a pass visits the members of `todo` once each, in any
order (the code goes by index, so every order the code has is included). `owner`
is the kernel's table of descriptors: `accept` gives the lowest free number, and
`Close` frees a number whoever holds it, so a second `close` of a stale number
would hit its next owner. The actions:

| action | code |
|---|---|
| `Select`, `SelectInterrupted`, `Shutdown` | `main.cpp` 185-206 and after the loop; `Select` goes to `failed` if a closed descriptor is in the set |
| `Accept`, `Construct` | `main.cpp` 207-223, `Client::Client`; what the constructor leaves unset keeps any value it may have |
| `ReadClosed`, `ReadData`, `ReadDone` | `readData`: end of stream; a recv that may complete up to `MaxBatch` packets; what is left incomplete |
| `ProcessPacket` = `Rejected`, `Auth`, `AgentData`, `Start`, `Stop`, `ConfigRequest`, `ConfigChangeRequest`, ... | the cases of `processPacket`, with `MustKill` for the early returns |
| `ProcessSendError`, `ProcessTimeout`, `ProcessAlive` | `process`: send, two time-outs, feed (`Feed`), flush (`FlushOld`) |
| `FetchConfig`, `Erase`, `BeginProcess`, `BeginFetch`, `BeginErase`, `EndIteration` | the passes of `main.cpp` 233-256 |
| `Tick` | time: ages of timers grow; it happens in `select` |

Peers are arbitrary: a recv delivers any packets of `Packets`, in any state of
the session. Abstractions: a configuration is its interval, the one field the
server changes; `dataToSend` is whether it is empty, plus the last `CONFIG` and
`AGENTSDATA` appended; records are pairs of agent and time stamp. `received`
and `lastCfg`, `lastFeed` are history. A batch that fails ends its transaction
(`Table` has the one that does not). `accept` never fails.

### Framing

The state is that of the object (`buffer` with `bufferPointer` as its length,
`dataToReceive`, `state`, `currentHeader`) and the peer's packets, of which `ends`
has the place of the last byte of each. A byte is its place in all that the peer
sends, so no two are alike, and reading a body as a header shows: `Header` is 0
where the front of the buffer is not the header of a packet. `Recv` brings
any number of bytes that fits; `ReadHeader` and `ReadBody` are the two states of
the loop, each with its shift of the buffer; `Returns` ends the call. The
`memcpy` of the shift overlaps; the module assumes a copy from the lowest byte
up (or `memmove`), and the mutant `ShiftDownward` shows that nothing else works.

### Codec

A *layout* is the list of fields that a class appends or fetches, in its order:
one definition for each class of `packets.h` and `sensors.h`, and one for each
Java class. `packetTypes` and `HeaderTypes` are the type numbers of the two, and
`Writes` and `Reads` say which class a program uses for which type. A behaviour is
one packet (or the four of a configuration: saved in the dialog, requested, saved
again as it is, sent to the agent), appended field by field (`AppendNumber`,
`AppendText`, `AppendList`), sent behind a header whose size is modulo `LenMod`
(`SendBody`), and fetched field by field. A byte of a number knows its field and
its place in it, so a field moved or of another width shows. At the end of a body
the programs differ: Java throws, and the connection is closed (`Underflow`); a
C++ number is not fetched and the caller does not look (`FetchFails`); a C++ text
goes on with indeterminate characters and reports success (`FetchTextFails`).
`Stored` is what `updateAgent` and then `fetchAgent` leave of a configuration: of
a service's name what follows its last comma, nothing if that has a colon; no
path, and a divider of 1, if the path has a colon. The agent then writes the
configuration to its file, over what the file had of its own (`Filed`; the keys of
services beyond the new number stay), and is started again (`Loaded`: a value ends
at a space, a service that is not of three parts is dropped). Characters outside ASCII are two
bytes, and Java reads each byte as a character of its own, which it writes as three
bytes. Left out: the 100-byte buffers in `updateAgent` and `main`; what the reader takes
for the next header when a body was longer than its header says; and that two of the Java
classes count their texts in a `short` (`PacketConfig.java:75-82`,
`PacketStatsRequest.java:60`), so that above 32767 bytes their buffer is too small and
`toByteArray` throws. Then nothing is sent, which is `ActiveFails` in `ConnectionTask`.

### Stats

One request, from the query to the reply, step by step: `getRecords` selects by
signed date, the loop makes one bucket per step, `cur` and `step` in arithmetic
modulo `W`. `rec` is the set of the dates from the code's `idx` on; the order they
are run through in is that of the signed dates, which `SkipTo` looks at. The type of a
request is a byte that nobody checks (`packets.h:558-560`), and the switch over it has no
default (`client.cpp:492-506`): of a type that is not `Known`, a bucket with records
pushes no point (`Pushes`), and only the empty ones have their -1. A point is the *set* of records it is the mean of, so
`Histogram` says which records each point covers without doing divisions of
sums. `Memory` bounds the reply, as memory does: a request with more points than
seconds has `step = 0` and ends in `died`. The server has no test against it; the
Android charts never ask for it, so `Answered` is about requests that fit
(`Fits`). A reply may have more points than asked for: `PointsBetween` gives the
bound, below twice as many. That there are no fewer, and which interval a point is
of (`Histogram`), is stated for the types the server knows. (`packets.h:517` calls the field the "Number of
points.", which is exact only if the range is a multiple of it.)

### Sensors

One agent at a time reads its machine: `ReadTemp`, then `ReadDisk` once for each
mount or drive, then one step for each service, with the ways out that the code
has (`NoMounts`, `NoTcpSocket`, and on Windows `NoUdpSocket`, which only passes
over a service). `Temps` is what the temperature may be on which platform, the
unset float included. `Send` is all the server does with a live sample: `fixPacket`
drops duplicate disks, `assignData` replaces the agent's entry and sorts the list,
`insertRecord` joins the disks into a column, or is refused; `getRecords` parses
the column. The lines of `/proc/net/udp` are taken to have the kernel's format: of one
that `sscanf` does not match, the code would compare an unset port. The name of a disk is a sequence of characters, its usage the position
at which it was read, so that it shows which of several was kept. The reading is
cut into steps because the machine changes meanwhile: a device may be mounted
twice, a service come up. A Windows agent that cannot list its disks dies, which
the module leaves out.

### Agent, WinAgent, Table and Pipeline

`pc` is the place in the agent's loop: `connect`, `reply` (inside the blocking
`connect()`), `read`, `sample`, `resend`, `apply`; `saving` while `olddata` is
written, `down` after that, and `killed`. A sample is its number; `queue` is
`oldSensorsData`, `file` is `olddata`, `cfgFile` the configuration file. `Stop` is
a signal, which truncates `olddata`, `Saved` writes it; `Crash` is a kill, which
may leave any beginning of it (`Unfinished`: packets that are not there are read
as `Junk`); `StartUp` reads it back and leaves it where it is, as the code does.

`WinAgent` takes the steps that the port does alike from `Agent` (`CommonStep`) and
has its own for the others. `winsock` says whether the process has its sockets:
`CleanUp`, the end of a connection, takes them, and only a start of the process
gives them back. With `winsock = "absent"` the agent is the Linux one.
`WinApply` and `WinRename` are the two halves of its `saveToFile`.

`Table` has the tables of one agent twice: as the server sees them, and `disk`, as
the file has them. They differ while a transaction is open (`txn`), which is only
after a COMMIT that failed (`CommitFails`); `Reopen` is a restart of the server.

A connection has two ends, two streams, and `cut`, a loss nobody was told of:
`send` into it succeeds or fails, and what was in it is gone. The server's side handles packets
in order, gathers old samples in the object of their connection, flushes them in
a transaction that fails as a whole, drops objects, restarts, and broadcasts
`CONFIG` at a `Reconfigure`, also to connections that have not sent `AUTH`.

`Custody` is what this promises for one sample: it is in one place, moves only
forward, and is lost only with a connection (or, when it is taken, with a
connection found broken), with a batch that is refused, with a transaction that
was never committed, or with an agent that is killed. What is in the file of the
database stays. Only what was in `olddata` when the agent was killed may come once
more (`repeated`; the history variable `reread`). `PlaceOf` maps the state to it.

### ConnectionTask

`net` is where the network thread is: `loop` is the reading of `state`, a state's
name is the case taken, other names are points between two writes where the main
thread gets in. `ui` is the same for the main thread, whose `connect` writes
`host` and later `state`. Each socket records its server, which ends are open,
whether access was granted and whether the feed is on. Packets in the queue are only
counted: `ProcessActive` sends one, any of which may be the `START` by which the
interval is changed (`SET_INTERVAL`), and `ActiveFails` loses one, which `poll` has
taken off the queue before `sendPacket` throws. Hosts are compared by
reference in the code, so equal hosts may count as different.

## 3. The runs

| run | instance | question |
|---|---|---|
| `server_config` | 2 clients, 2 agents (1 known at the start), 3 descriptors, recvs of up to 2 packets | descriptors, `select`, cached rows, who is sent a configuration |
| `server_data` | 2 clients, 2 agents, 1 time stamp, live and old, SELECTs may fail | which agent a record is stored under |
| `server_live` | 1 client object reused, every packet type, fair loop | time-outs, silent agents, who is sent the feed |
| `framing` | up to 4 packets of sizes 0, 1, 2, 5; header 2, buffer 5 | refinement of `PacketStream` |
| `codec` | every packet; texts of 6 kinds, up to 4 in a packet, up to 49 points, 100 for the 65536 sizes, 2 services in the agent's own file | agreement of the two languages, sizes, the configuration's round trip, and a restart of the agent |
| `stats` | dates of 3 bits, tables of up to 2 records, up to 4 points | the reply against its definition, termination |
| `sensors` | 3 agents, one of them on Windows, 2 names; 2 devices, 2 drives, up to 3 disks; 3 services | what the list, the feed and the table make of a reading |
| `pipeline_custody` | either agent, 2 samples (one refused by the table), 2 connections; any 3 of: 2 faults, 1 failing COMMIT, 1 kill, 1 stop | refinement of `Custody`, no second copy, no open transaction by mistake |
| `pipeline_live` | either agent, 1 sample, 2 configurations, 2 connections; any 2 of: 1 fault, 1 stop, 1 kill; fair | delivery, convergence, sockets |
| `task` | 2 servers, 2 sockets, 5 calls, queue of 1, fair | both threads' interleavings |
| `pipeline_windows`, `task_calls` | smallest that shows it, fair | disagreements, section 5 |

*Properties.* `TypeOK` of each module is its type invariant, with the relations
between the program counter and the data.
`DescriptorsOwned`: a client not marked for deletion owns its descriptor.
`LoopNeverFails`: `select` never sees a closed one.
`ConfigCoherent`: back at `select`, every cached row and every last `CONFIG`
agree with the table.
`StrangersSeeNothing`: no configuration and no feed for who has no key. It is checked
twice: `server_config` has the broadcasts, which take a second client, and no feed;
`server_live` has `START` and live samples, and an object that is reused for a stranger
while the data of its last owner is fresh. The feed and the broadcasts with two clients
in one run have too many states.
`RecordsAttributed`: a record is stored under the agent the connection had when
the sample arrived. It needs an assumption, `Rekey = FALSE`: a connection that
sends the key of another agent while old samples wait has them stored under the
second one. No agent does that (`agent_lin/server.cpp` sends `AUTH` once per
connection), and the other runs have `Rekey = TRUE`.
`SilentPeerReaped`, `StalledPacketReaped`, `SilentAgentLeavesFeed`: time-outs do
what they are for, though any received byte restarts one of them.
`Histogram`, `PointsBetween`, `Answered`: the reply covers each record of the
range once, in the right bucket; its length; and it is sent.
`DeliversPackets`: the packets handled are those sent, and all of them if bytes keep
arriving. (`RoomToRead`, that a recv of 0 bytes is never asked for, is proved only: the
buffer of 1 MB is far from full.)
`ReadsRight`, `FailsOnlyIfTooLong`: a packet read to its end has
the fields that were written (for the viewer, if its texts are ASCII), no byte is
left over, and reading fails only for a body that the header cannot count.
`SavedAgainUnchanged`, `DelimitersOnly`: a configuration changes at the first
save if at all, and not then if its texts have no delimiter, whatever else they
are (empty, for one).
`RestartKeepsConfig`: an agent that is started again has the configuration it was
sent, if no text has a space, and never a service of the file it had before.
`FeedSorted`, `ToldAsRead`: the feed is sorted and has each agent
once, whoever changed its name; of several mounts of a device the first is told,
and no other disk is lost; no service is told falsely, and one that is not told is
behind all that are.
`DisksReadBack`: every disk comes back from its column but those with a colon in
their name, which are all drives of Windows.
`OneCopy`, `Genuine`, `KeepsCustody`: no sample exists twice or vanishes outside the
places where it may, through stops, kills, restarts and lost connections, and what
is no sample is only stored if an agent was killed while it saved.
`DurableUnlessBusy`: only a COMMIT that fails leaves a transaction open.
`NeverUnset`, `OneSocket`, `ConfigConverges`, `SavedSamplesStored`: the agent
never takes the configuration of a stranger, holds one socket, ends up with the
last configuration, and a saved sample gets into the file of the database. The
last is stated for each number of incidents: if no more follow, nothing that is
left of them (an open transaction, a batch spoilt by `Junk`, a socket that is
dead without anyone knowing) is in the way. `OneSocket` is of Linux agents;
`ConfigConverges` and `SavedSamplesStored` except Windows agents that have given
their sockets up (section 5), and the first also those that were killed between
removing and renaming their configuration file, which never start again.
`PingGranted`, `ClosedAtEnd`, `LossNoticed`, `Settles`: PINGs only go where access
was granted; a thread that ends closes its socket; a loss is noticed without a
feed; the thread settles after the last call.

*Bounds.* Two clients are what the server's hazards need: one that does
something, another that holds the stale row or the reused number; the loop
treats all others alike, and three descriptors let a number be reused while
both live. Time-outs of 1 and 2 ticks are enough to order every pair of timers
that the code compares. Two connections let an object of the server outlive the
connection the agent has gone on to; two samples are a batch, one of which may
spoil it, or one that is sent while another is taken. Three incidents are a lost
connection, a kill and what follows, or a failing COMMIT, a lost connection and a
restart of the server. Three disks are a device mounted three times, or twice with
another in between; a TCP service before and behind a UDP one shows where a reading
ended. Three date bits have a sign bit, a last date and
ranges longer than the table. Sizes 0, 1, 2 and 5 in the framing are the empty
body, less than, equal to a header, and a full buffer. With 100 sizes, an agent's sample fits with two disks and not
always with three; one agent without disks fits a viewer's packet, two are a
negative size to it, and three wrap around. Four texts are a name, a path and two services, none of which or one replaces the two of the agent's file. Five calls are connect,
stop, connect elsewhere, stop, and disconnect. Bounds in guards are the constants
`MaxBatch`, `MaxOld`, `MaxSample`, `MaxFaults`, `MaxCrashes`, `MaxStops`,
`MaxBusy`, `MaxIncidents`, `MaxSock`, `MaxCalls`, `MaxQueue`, `MaxRecords`,
`MaxPoints`, `MaxPackets`, `MaxTexts`, `MaxMounts`; each
is commented where it is declared. Client objects and connections are symmetric
in the runs without liveness, and in `server_data` so are the agents.

*Fairness.* `Server`: the loop is an endless loop, so `WF(LoopStep)`; time passes
though the loop may always be busy, so `SF(Tick)`. No peer is fair. `Framing` and
`Stats`: the call runs. `Pipeline`: both programs run (`WF`); that a due connection
attempt, a packet under way and the end of a stream are acted on is `SF`, because
an iteration of the agent's loop may find each of them a little too early,
but not for ever. Faults are never fair. `ConnectionTask`: both threads run; a
PING into a connection that is gone fails sooner or later (`SF`), which is TCP's
retransmission limit. `Sensors` and `Codec` have no liveness.

`CHECK_DEADLOCK FALSE` is set where the system does stop: the statistics call
returns, the bytes of the peer end, a packet is read, the network thread ends or the bounds on
calls and sockets are used up, a Windows agent that has no configuration file does
not start. The server has `Exited` for its stop.

Every property of a passing run has a mutant: an operator of the module, marked
`Mutant` in its comment, with a plausible bug, under which TLC finds the property
violated.

## 4. The proofs

`ServerProofs` proves, for every set of clients, agents, descriptors and packets
and every value of the time-outs and bounds (`ServerAssumption` states what is
assumed of them):

- `SessionCorrect`: `Spec => []SessInv`. `SessInv` is `TypeOK` and `SessionOK`.
  The type invariant is not inductive alone: that a record or an entry of the
  feed is about an agent, and not about the id -1 of a client that never
  authenticated, rests on `MustKill`, i.e. on a client that is not authorized
  having no agent, no old samples and no feed, and on one that is authorized
  having an agent with a row. `SessionOK` says that, and each of the two needs
  the other.
- `TypeCorrect` (`[]TypeOK`) and `StrangersCorrect` (`[]StrangersSeeNothing`)
  follow.
- `FdCorrect`: `Spec => []FdInv`. `DescriptorsOwned` alone is not inductive:
  the erase pass closes the number of a dead client again. `FdInv` adds that the
  numbers of the clients in the vector differ, also those that are closed and
  about to be erased; that a closed number in the vector has no owner; and that
  no dead client is in the vector at `select` and `accept`, the only place where
  numbers are given out. `DescriptorsCorrect` and `LoopCorrect` follow.
- `RecordsCorrect` (`[]RecordsAttributed`, if `~Rekey`). `AttrInv`: every old
  sample an object holds came in under the agent the object still has. The step
  that needs the assumption is `Auth`; the one that needs `SessInv` is a first
  `AUTH`, before which an object holds no samples.
- `CoherenceCorrect` (`[]ConfigCoherent`, if `~ReadsFail`). `CohInv` says for each
  pass of the loop why the objects that differ from the table will be brought up
  to date: in the reads, some client is marked as having made a change; in the
  process pass, the marked ones are still to be visited or `needReload` is set; in
  the fetch pass, those visited are coherent. The assumption is the code's: a
  SELECT that fails leaves a row as it was, and nothing tries again.

`PipelineProofs`, for every set of connections and configurations, any number of
samples, either agent, and every budget of incidents:

- `TypeCorrect` (`[]TypeOK`), as a conjunction of types by component, with frame
  lemmas for what the kinds of steps leave alone.
- `DurableCorrect` (`[]DurableUnlessBusy`) from `TxnInv`, that the file and what the
  server sees are the same outside a transaction, and `BusyInv`, that one is only
  open after a refused COMMIT.
- `ConfigCorrect` (`[]NeverUnset`). What the agent takes was on its way before, so
  the invariant is about the stream: behind a `REPLY` that says the key is known
  there is only the agent's own configuration, since the server authorized the
  connection when it sent that `REPLY` (`Channel`); and an agent past its handshake
  has nothing else in front of it (`Session`).
- `SocketCorrect` (`[]OneSocket`): every way a connection ends closes the descriptor
  `connect()` is about to overwrite, but the refusal of the key; that an agent whose
  key is known reads no refusal is `Channel`.

`PipelineCustodyProofs` first proves what any step of the composed system does with a
sample (`Moves`: it is taken, saved, sent, resent, arrives, is inserted, or is lost,
and every other place stays or loses), and from that, by the flow of one sample at a
time:

- `GenuineCorrect` (`[]Genuine`): before the first kill `Junk` is nowhere but,
  half-way through the writing, in `olddata`.
- `OneCorrect` (`[]OneCopy`) from `CopyInv`: a sample not taken yet is nowhere
  (`FreshInv`), and one that was not read twice is in memory, on one connection, in
  one object or in the table, and in no two of them (`Alone`), and once there
  (`Single`).
- `CustodyCorrect`: `Spec => KeepsCustody`, the whole
  refinement, initial states and every step. `PlaceRule` says where `PlaceOf` puts a
  sample in each situation that `CopyInv` leaves, and each move of a sample is then
  shown to be a step of `Custody` or none, with the link and the transactions that
  `Custody` looks at.

`FramingProofs`, for every size of header and buffer and every stream of packets
whose bodies fit the buffer: `Inv` says that the buffer is the stream from the first
byte that was not handled up to the last that arrived, that this byte begins the
header or the body that `state` says, and that `dataToReceive` is its size.
`TypeCorrect`, `RoomCorrect` (`[]RoomToRead`) and `StreamCorrect` (`Spec =>
Promised!Safe`, the refinement of `PacketStream` without its fairness) follow. The
header at the front of the buffer is that of only one packet because packets begin
at different bytes, which is an induction over the packets; it is done with a least
counterexample, since the induction theorems cannot be used.

`StatsProofs`, for dates of any width, any table, any request: `TypeCorrect`,
`HistogramCorrect` and `PointsCorrect`. `BucketInv` says that some number `n` of
buckets is done (`Done`: `cur` is the first date of the next, there are at most `n`
points, and if the type is known there are `n`, those of the histogram), and that what
is left to read are the records of the range from `cur` on. That `cur` does not
wrap around and that the signed dates are in the order of the dates is what `Fits`
is for (`EdgeFits`, `FitsOrder`). `FitsLives` is the safety half of `Answered`: where
memory holds twice the points one may ask for, a request that fits does not end the
server. `OnceCorrect` is about the others too: whatever is asked for, more points than
dates, an empty range or a bucket that wraps around the last date, a reply counts
no record twice and none from outside of the range that was queried, because the
positions in the records only move forward (`OnceInv`). What a request that does
not fit covers, and whether its loop ends, nothing says.

`SensorsProofs`, for any agents, names, mounts and services:

- `FeedCorrect` (`[]FeedSorted`), which rests on sorting neither losing nor repeating
  an element (a pigeonhole over `Sorted`).
- `ServicesCorrect`, the part of `ToldAsRead` about services, with the invariant that
  all services over TCP up to `next` were told.
- `TypeCorrect` (`[]TypeOK`) and `ToldCorrect` (`[]ToldAsRead`). The loop of
  `fixPacket` is a recursive function whose arguments are its rounds; after each
  of them the first disk of every name is still in the list, the list is in the
  order of the reading, and the places the loop has passed hold only first ones
  (a least counterexample over the rounds). `ToldAsRead` says that the disks told
  are the first of each name, in their order.

`CodecProofs`, for texts and lists of any length, any number of services in the
packet and in the agent's file, and whatever `LenMod`, the number of lengths a header
can tell apart:

- `InvAlways`: `Spec => []Inv0`. In the middle of a packet an invariant about the
  fields must speak of a value that is in no variable: what the writer has put into
  the packet. `Inv` says that there is such a list, `written`; that its
  values are those a packet of the *reader's* layout has (`Parses(vals, from, to)`:
  they take the layout `from` to what is left of it, `to`); that
  the body is the bytes of what is unread (`Coded`); and that each value that was read is
  the written one as the reader's language has it (`Told`). That it starts to hold
  when the writer begins, with the writer's layout, is `RouteLayouts`: on every hop of
  every route, the class written and the class that the type number selects in the other program
  flatten to the same fields. That is where the two languages are compared.
- `TypeCorrect`, `FailsCorrect` (`[]FailsOnlyIfTooLong`) and `ReadsCorrect`
  (`[](length < LenMod => ReadsRight)`) follow. The hypothesis of the last is about
  the code: a text of 65536 bytes is written behind a length of 0, the header's size
  wraps with it, and the packet is read to its end with an empty text.
- `InvCounted`: `Spec /\ [](length < LenMod) => []Inv1`, the same invariant with what
  becomes of a configuration: at each of its packets behind the table the values written
  are `Stored(meant)` and have no colon in a service's name, and no space if nothing that was
  typed in had one. It needs that no *earlier* packet was too long, hence the
  hypothesis about the whole behaviour. `SavedAgainCorrect`, `DelimitersCorrect` and
  `RestartCorrect` follow, from the shape of a configuration with `n` services
  (`IsConfig`, which gives every value its place) and what the table (`StoredAs`) and the
  agent's file (`LoadedAs`) make of it: the services that are kept are numbered by
  an increasing function (`Numbers`), and storing twice is storing once.

`Inv` quantifies over all lists of values, so TLC cannot evaluate it; it checks
all that follows from it in the run `codec`.

`ConnectionTaskProofs`, for any number of servers, sockets and calls: `TypeCorrect`;
`LinkInv`, what `isConnected` and `endTask` say of the socket at each place of the
network thread, whatever the main thread writes in between; and from it
`PingCorrect` (`[]PingGranted`) and `EndCorrect` (`[]ClosedAtEnd`).

The proofs have one lemma for each group of actions under each invariant, frame
lemmas for what an action leaves alone, and one temporal step per theorem.

The proofs changed the models in a few places, none of which changes what TLC
explores but for their variables' values: `PlaceOf` was a `CASE` with overlapping
arms, of which TLC takes the first and TLA+ any, and is now a chain of conditions;
`TypeOK` of `Pipeline` says which messages go in which direction; `AgentCrash`
counts only samples, not `Junk`, among those that may be read again; the bytes of
`Framing` are places in the stream; `Stats` keeps what is left to read as a set.
`fixPacket` of `Sensors` and the selections of `Codec` (`ThoseAt`) are recursive
functions, which the provers can be told exist, where they were folds.

Assumptions on constants are those named `...Assumption` in each module (bounds are
numbers; sizes and widths are positive; the buffer holds a header, and any body; a
text of `Codec` has at most one colon, and a chart less than half as many points as a
header counts bytes),
the two named above, and the hypothesis of `InvCounted` about the packets' lengths,
which is of behaviours, not of constants.

Model-checked only:

- Liveness: `SilentPeerReaped`, `StalledPacketReaped`, `SilentAgentLeavesFeed`,
  `SavedSamplesStored`, `ConfigConverges`, `LossNoticed`, `Settles`, `Answered`, and
  the fairness of `DeliversPackets`. These provers have no rule for fairness.
- `DisksReadBack` of `Sensors`: `diskUsages` writes a number as text, and that its
  digits are none of the column's delimiters is a fact of `ToString`, which has no
  definition the provers could use.
- What `ReadsRight`, `SavedAgainUnchanged`, `DelimitersOnly` and `RestartKeepsConfig`
  say of a packet that is too long for its header. On the instance they hold of those
  packets as well: its texts are short, so only the header's size wraps, and such a
  packet is never read to its end. The theorems do not claim it, since with a text
  whose own length wraps it is false.

## 5. Where code and words differ

- `pipeline_windows`: the Windows agent calls `WSACleanup` wherever a connection
  ends (`serverWin.cpp:71` and four more), and `WSAStartup` only at its start. After
  the first lost connection it never connects again, and the samples it saved "in
  order to send [them] to server when connected" (`test.cpp:412`) stay with it.
- `task_calls`: `disconnect()` writes `state` while the network thread is inside
  a handshake, or handles an error; the thread writes its next state over it and
  stays for ever. `connect(h2)` during the handshake with `h1` is overwritten in
  the same way, and the next `connect(h2)` finds the host unchanged and connected,
  and reports `CONNECTED`, to `h1`.

A live sample whose send finds the connection broken is neither sent nor saved: it
is only saved if the connection was known to be down. `Custody` has this as
`Take` with a dead `link`.

Not stated as properties, since nothing says what should happen: a request for
statistics of a type that the server has no case for is answered with the points of the
empty intervals alone (no viewer sends one). The viewer
does not decode UTF-8, so a name outside ASCII grows with every save of the dialog
(`ReadsRight` and `SavedAgainUnchanged` are stated for ASCII); a service whose name
has a colon is dropped at the first save, and one with a space at the agent's next
start, without a word. An agent that
is killed after it read `olddata` sends those samples again; the duplicates roll
back their whole batch, good samples included. After a COMMIT that fails every
batch is dropped until the server restarts, and then what came live is lost as well.
No drive of Windows comes back from the table. On Windows a service over UDP is
never available. A temperature of NaN refuses a sample, or its whole batch. A viewer's queued requests go to
the next server it connects to. A key refused by the server leaves the agent's
descriptor open at every attempt (`OneSocket` is stated for a known key).

## 6. What is not modelled

- The graphical interface of the Android application: its activities are views and
  event handlers of one thread; the calls they make on the service are in
  `ConnectionTask`, what the configuration dialog does with its packets in `Codec`.
- Start-up of the server, with the creation of its tables, is the initial state.
- Deletion of records older than 30 days: no record of the models has an age.
- Memory, load and uptime, which are numbers that nothing looks at; the queries
  of `DiagnosticMgr` that nobody calls; `sendall`, which nobody calls either.
- Inside `recvall`: which part of a packet has arrived. Its outcomes are modelled.
- Partial sends of the server (a packet's size is in `Codec`, what follows a wrapped
  one on the stream is not). Sockets of the Android client that a reconnect replaces
  without closing stay open in the model as in the code, but nothing is said about
  them.
- Third-party code in the tree: SQLite (`sqlite3.h`, `sqlite3ext.h`, the command line
  tool `shell.c`), SIGAR, MD5, googletest. SQLite and SIGAR are modelled by what the
  code uses of them. These headers and the tool are two thirds of the lines of C
  and C++ in the tree, so the mapped lines are a small share of all and most of
  what the project's own authors wrote with a state or a format.

## 7. Plan

Done, in this order: `Server` and its proofs; `Agent`, `Pipeline`, `Custody`;
`Stats`; `Framing`; `ConnectionTask`; `Codec`; `WinAgent`, `Table` and kills of both
programs under `Pipeline`; the configuration file in `Codec`; `Sensors`.

The proofs named in section 4 came after these, in the order they are listed there.

Next, most important first:

1. Proofs: in `Server`, as an action property, that a client killed in an
   iteration is handled no packet in a later one; in `Sensors`, `DisksReadBack` over
   an abstract `ToString`.
2. The sending side: `dataToSend`, partial sends, what a reader makes of the
   stream behind a packet whose size wrapped.
3. The activities' life cycle over `ConnectionTask`.
