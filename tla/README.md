# chirouter: a TLA+ model of the router, its server, its protocol and its controller

chirouter is an IP router in user space. A mininet network is run by a POX
controller; the controller passes every Ethernet frame that reaches a router's
interface to the `chirouter` process over one TCP connection, and puts the
frames that chirouter sends back on the wire. One process plays any number of
routers. The repository holds the process (`src/src/c`), the controller
(`src/src/python`) and the POX it runs in (`src/lib/pox`).

This directory holds TLA+ modules that model the parts of the program that keep
state, the TLC configurations that check them on small instances, and TLAPS
proofs that hold for every instance. `PROJECT.json` lists the runs, maps every
definition to the lines it models, and lists the hazards.

    tlc -workers 2 -config MCRouter_safety.cfg MCRouter     # one of the runs
    tlapm RouterProofs.tla                                  # one of the proofs

## 1. Inventory

| Part | Source | State it keeps | Operations | Interacts with |
|---|---|---|---|---|
| Frame handler | `router.c` | none across calls; locals across unlocks | one call per inbound frame | ARP tables under `lock_arp`, routing table, `chirouter_send_frame` |
| ARP tables and thread | `arp.c` | cache of 100 slots, pending requests, each with its withheld frames | lookup, add, purge, resend, give up | the frame handler, through the tables |
| Routing table | `router.c` | entries, fixed after configuration | longest-prefix lookup | frame handler |
| Server | `server.c`, `ctx.c` | connection, protocol state, router contexts, one ARP thread each | accept, one handler per message type, reset | controller, routers |
| Reassembly | `server.c`, `client.py` | `msg_buffer`, `bufpos`, `len`, `reading_header` | recv, copy a byte | TCP |
| Client and controller | `client.py`, `pox_controller.py`, `topology.py` | topology, ids of routers and interfaces, the socket, reader threads | switch up and down, packet in, `connect`, reader loop | server, POX events, switches |
| POX core | `core.py`, `boot.py`, `revent.py` | components, waiters, listeners, whether POX runs | launch, register, call when ready, raise, listen, quit | every component, several threads |
| recoco | `recoco.py` | ready queue, hub queue, sleeping tasks, pingers | schedule, select, timers, deferred calls | every thread |
| OpenFlow connections | `of_01.py`, `openflow/__init__.py` | connections, nexus, deferred data | accept, read, handlers, send, disconnect | switches, components, DeferredSender's thread |
| OpenFlow and Nicira messages | `libopenflow_01.py`, `nicira.py` | none; the read buffer of a connection | pack, unpack, read | TCP |
| Packet library, addresses | `lib/packet/*.py`, `addresses.py` | none | parse, hdr, conversions | packet-in handler, flow matches |
| Software switch | `switch.py`, `flow_table.py` | flow table, buffers, ports, connection | frames, messages, timer, port changes | controller, hosts |
| Send path, packet capture | `server.c`, `pcap.c` | the socket, the file | write in pieces | main and ARP threads share them |
| Checksums, logs, start-up, simulator | `utils.c`, `log.c`, `main.c`, `simulator.py` | none of their own | | |

What is hard in it:

* Two threads per router share the ARP tables. The frame handler takes the mutex
  for each table access on its own, so between "is there an entry?" and acting
  on the answer the ARP thread may purge the cache, resend, or free a pending
  request. A datagram whose next hop is unknown changes hands, and must be
  answered by exactly one of handler and ARP thread.
* Timeouts: cache entries expire after 15 seconds, requests are given up after
  five sends, and a reply may race either; flow entries, select timeouts and
  timers expire in POX.
* The TCP streams, of chirouter's protocol and of OpenFlow, cut messages
  anywhere.
* The controller may disconnect at any time and come back; so may a switch.
* POX is cooperative, but its scheduler, its select thread, the DeferredSender
  and the client's reader threads are real threads that share queues, pipes and
  attributes without locks.
* Handlers re-enter: a callback registers components, a listener adds and removes
  listeners, while lists are being iterated over.
* Bounded tables and fixed-width integers: the full cache, the time to live,
  packet buffers, masks compared as integers in the machine's byte order, length
  fields computed in one place and bytes written in another.

## 2. Modules

| Module | Models | Checked by | Proved in |
|---|---|---|---|
| `Router` | one router: frame handler and ARP thread | `MCRouter` | `RouterProofs` |
| `Routing` | `chirouter_get_matching_entry` | `MCRouting` | `RoutingProofs` |
| `Framing` | reassembly of messages | `MCFraming` | `FramingProofs` |
| `Server` | the server's sessions and configuration | `Server_any.cfg` | `ServerProofs` |
| `TopologyFile`, `Session` | topology file, controller and client, composed with `Server` | `MCSession` | |
| `Struct`, `LibOpenFlow`, `Nicira`, `Codec` | layout of all OpenFlow 1.0 and Nicira classes; pack, unpack, `Connection.read` | `MCCodec`, `MCWire` | |
| `Packet`, `PacketLib` | the packet library, and the packet-in handler that relays frames with it | `MCPacket`, `MCWire` | |
| `Addresses` | `IPAddr`, `IPAddr6` and networks | `MCPacket`, `MCWire` | |
| `OFMatch`, `Datapath` | matches, flow table and software switch | `MCDatapath` | `DatapathProofs` |
| `ConnectionEvents` | abstract: which connection events a component may see | | |
| `OpenFlow` | connections, nexus, DeferredSender; implements `ConnectionEvents` | `MCOpenFlow` | `OpenFlowProofs` |
| `Recoco` | scheduler, select hub, timers, deferred calls | `MCRecoco` | `RecocoProofs` |
| `Revent`, `Boot`, `Core` | events, command line and core object of POX | `MCCore` | `CoreProofs` |

Definitions keep the names of the source. A definition marked "Fault" is a
plausible mistake in the definition that follows it; `PROJECT.json` names for
every property the faults that break it.

### Router

A step of the main thread is one critical section of
`chirouter_process_ethernet_frame` or the code between two of them: `pc` names
the place, `cur`, `entry`, `preq` and `reply` are the locals `frame`,
`arpcache_entry`, `pending_req` and the ARP packet. `RecvDatagram` is the code
up to the first lock (destination tests and route lookup), then `CacheLookup`,
`Forward`, `PendingLookup`, `NewRequest` and `AddFrame` follow the code's
branches; `RecvArpReply`, `CacheAdd` and `Drain` are the ARP reply. The ARP
thread holds the mutex during a whole round (`ArpLock`, one `ArpResend` or
`ArpGiveUp` per request, `ArpUnlock`); the round is cut up so that the main
thread's unlocked code, which reads a cache entry's MAC in `Forward`, can run
inside it. `Tick` moves the clock that both `sleep(1.0)` and `time(NULL)` read.

A pending request is a cell of the heap `req` with an address from `ReqId`;
`pending` is the list. `AddFrameFreed` is `AddFrame` on a request that the ARP
thread has freed meanwhile: the code's behaviour is undefined, and the model
takes the two outcomes it can have for the datagram, lost or process crashed.
`NoneLost` says that it is never lost, and is violated. `Conservation` counts
"lost" as a place of its own, so it shows that this race is the only way to lose
a datagram, and `EveryDatagramAnswered` does not count it as an answer: it
excepts only the datagram that the handler holds while its request is freed.

A datagram is a number in order of arrival. `hdr`, `fate`, `asked` and
`announced` are history: its header, what was sent in answer, how often the
address was asked for since the pending request was created, and what ARP
replies announced. Frame contents are left out; an ICMP answer is its kind.
`fate` is set where the code calls `chirouter_send_frame`, whose result the
code ignores. ARP requests and other ethertypes touch no state and are not
actions. For other ethertypes the handler ends without a `return`; in the
repository's Debug build (`CMakeLists.txt`) the caller then sees the ethertype,
which is never -1, so such frames are ignored. IPv6 frames take the IPv4 path
in the code and are not distinguished.

### Routing

The loop over the routing table, at the real width of four octets. The code
compares masks as `uint32_t` read from network order, so the comparison starts
at the last octet (`mask_less`). Masks are contiguous, because the controller
makes them with Python's `ipaddress`. Destinations have zero bits behind the
prefix in all topologies of the repository, but nothing demands it:
`topology.py` (line 68) accepts an entry with host bits and `client.py` (244)
sends it. Such an entry never matches, and `MatchIsPrefix` says so; `MCRouting`
has two of them.

### Framing

The reassembly loop over a stream of messages. Client and server have the same
loop up to one line, `len = 0` after every `recv` (`server.c` line 306):
`ClientSpec` and `ServerSpec` are the two. The properties hold for the client's
and are proved for it; for the server's, `Prompt` is violated at the first
payload that is split. `out` records
the offset and length of every message handed on. Streams are shorter than the
4096 bytes of `msg_buffer`.

### Server

One action per message type with the handler's tests in their order, plus
accept, disconnect and socket errors; the controller may send any message at
any time. Every array of router contexts gets an identity (`block`), so that
ARP threads that outlive it show. `Fail` is any handler's `return -1`, after
which `main` frees the contexts (`Destroy`) and returns (`Exit`). END CONFIG
creates the ARP threads router by router and fails at the first router that
lacks interfaces (`incomplete`), so the threads of the routers before it
(`passed`) are then running, and `Destroy` frees the contexts under them. `Overrun` is the use of memory outside an array or of a freed
array; behaviour is undefined after it and the model stops there. Interfaces
and routers are counted, routing table entries keep the interface they point
at; names, addresses and metrics are left out.

### Session and TopologyFile

`TopologyFile` reads a document as `topology.py` does: which fields it needs,
what it refuses, which interfaces get a link and so a port. `Session` instantiates
`Server` and runs it against the controller: switches come up, go and come up
again (`StartSwitch`, `StopSwitch`), the last one triggers `connect`, whose
HELLO blocks the POX thread (`pc`), `Configure` sends the configuration and
starts a reader thread; `HandlePacketIn` and `ProcessMessages` carry frames. The
threads share the attribute `client.conn` as in Python: a reader keeps the
socket it is blocked on. A second `connect` while the first socket is served
waits for ever; the liveness properties say so (`Reconnected`). TCP may cut any
message that has a payload: the server then never finds its end (`ServerCut`),
and `ServerSwallows` takes in all that follows. `SessionEstablished` excepts
these two cases, and `EndConfigReached` and `HelloAnswered` are the
properties without the exceptions, which are violated.

### Codec

A class is a list of fields with names and widths (`LibOpenFlow`, `Nicira`, in
the vocabulary of `Struct`), and `Pack`, `Unpack` and `Length` interpret it; a
byte is a symbol, so that a field written in the wrong place, cut or left out
shows, and numbers that steer parsing (types, lengths) are real. `Send` puts one
or two messages on the wire, `Receive` is `Connection.read` on a piece of it.
The reader tests the version of each header: the controller lets only a HELLO of
another version pass, the switch none. Classes that the code cannot read or
write are listed with the reason.

### Packet, PacketLib, Addresses

`Packet` has the headers that contain no other headers, `PacketLib` the ones
that do, `pack` and the relaying of a frame: packet-in, `parse()`, `pack()`,
and once more at the next controller. A frame is a sequence of symbolic bytes
as in `Codec`; a checksum is a symbol for what it was computed over. A node
that raises in `parse` or `hdr` loses the frame, as the exception in the
handler does. `Addresses` has the conversions; a byte of an IPv4 address has
`ByteBits` bits there (the code's 8), so that all addresses can be enumerated.
`MCWire` runs these and `Codec`: a behaviour relays one frame, asks one question
or sends messages over one stream. Each
frame of `MCPacket` says of itself whether it is `canonical` (it must come out
as it went in) and whether it is `misplaced` (the code writes other bytes than
its header promises, so a second relay need not keep it); `Normalises` lists the
kinds of frame that are, and says nothing of them. For IPv4 options
`OptionsPacked` does, and is violated. `NetworkMembership` leaves out two cases
that have properties of their own, both violated: addresses of class E, for
which no mask is inferred (`ClassEInferred`), and networks with host bits,
which hold no address (`ParsedNetworkHolds`).

### OFMatch and Datapath

A match is a function from the twelve fields to values or prefixes; `fix` and
`unwire` are the changes it undergoes at the sender, on the wire and at the
receiver. `Datapath` has one action per frame, message, timer tick and port
change; handlers run to their end. The flow table is kept by the binary search
of `add_entry`. Lists that the code filters are built from the places that stay
(`keep`, `in_order`), which keeps recursion out of a module that is proved about.
The switch greets once per connection (`send_hello`). A packet is an object with
an identity, and the buffer keeps the object: a set action behind the output to
the controller changes the buffered frame too (`arrived`). So `BufferHonest`
says which frame a slot holds and from which port, and `BufferUnchanged`, that it
has not been written to, is violated. An action that raises leaves its buffer
in use (`BufferReleased` is violated). History: `announced` (what
the last packet-in said of a buffer), `view` (what the controller knows of the ports).

### OpenFlow and ConnectionEvents

`Read` handles one message of one connection: HELLO, features reply, barrier,
error, port status, statistics. `send` fails or is put off when the switch has
gone or the DeferredSender is busy; `CloseConnection` and `HandleDownEvent` are the
ends. The DeferredSender is a thread of its own: it sends, drops or disconnects
(`DeferredSend`), and it ends when it selects on a socket that the task has
closed (`SelectFails`, `sender_alive`), since `kill` is commented out and
nothing catches the exception; `sending` then stays set, every later send is put
off, and `DeferredSent` is violated. `Established` holds while the thread lives.
`NexusHonest` speaks of switches that greet once, and of a connection only while its
switch has made no other; `StaysRegistered` is about all of them: what is in the
nexus stays until it, or another connection of the same switch, is disconnected.
`getNexus` always finds a nexus (`openflow/__init__.py` 260-278), so the branch
for none (`of_01.py` 103) is left out. `ConnectionEvents` says what listeners may rely on: at most one
ConnectionUp, at most one ConnectionDown, no Up after Down. `OpenFlow` implements
it under the mapping in `Events`, which leaves out two cases in which the code
breaks the promise: a switch that greets twice (`Polite`), and a connection that
the DeferredSender's thread disconnects while a barrier reply is in the buffer
(`cut_off`).

### Recoco

Each access to a shared deque, `Event` or pipe is a step: `SchedLoop` to
`SchedIdle` and `Exec*` are the scheduler's thread, `HubScan` to `HubDrain` the
select hub's, `CallLater` and `DeferCall` any other thread's, `SetEvent` the last
step of waking the scheduler. The two second timeout of the Event may end a
wait and is never relied on by the liveness properties. A task that raises is
dropped (`ExecRaises`), a timer may stop itself by returning False, and a
listener that raises cuts `_quit` short before it stops the scheduler
(`QuitFails`): `Stops` speaks of the quits that come past the listeners. Numbers
that a task may yield in place of `Sleep` are left out, as no task of the
controller yields one.

### Core, Revent, Boot

Every thread has a stack of frames (`fn` and place), since launch functions,
callbacks, listeners and `quit` call each other. The applications' code is free:
a `Program` says which calls it may make, what it may return and whether it may
raise. `Revent` has the list operations, with the aliasing of Python lists made
explicit (`live`): a listener of higher priority that is added during a
dispatch moves the list under the iterator, so a listener may be called twice
(`CalledOnce` is violated) but none is skipped; `Boot` the way from the command line to launch calls. Programs
in which two threads use the registry at the same time are left out
(`OpsAssumption`): `_try_waiter` tests an entry and takes it in two steps, and
`_waiters.remove` raises when another thread was faster.

## 3. Runs

| Run | Question | States |
|---|---|---|
| `router_safety` | Do the tables stay consistent and every datagram accounted for, in order, under all interleavings? | 1.2 million |
| `router_live` | Is every datagram answered in the end, and does every entry expire? | 254 thousand |
| `routing` | Is the lookup longest-prefix matching? | 258 thousand |
| `framing_client` | Does the client cut the stream correctly, however it arrives? | 8 thousand |
| `server_any` | Does the server keep its configuration sound under any controller? | 41 thousand |
| `session` | Do controller and server get to a session on the loaded topology, and does it work? | 168 thousand |
| `wire` | Is every message read as it was sent, wherever the stream is cut? What does relaying keep of a frame? Do all notations of an address agree? | 34 thousand |
| `datapath` | Does the switch obey its flow table, and tell its controller the truth? | 270 thousand |
| `openflow` | Are switches announced and withdrawn as promised, whatever fails? | 46 thousand |
| `recoco` | Is a wakeup ever lost, a task ever in two places? | 167 thousand |
| `core` | Is a waiter forgotten, a listener skipped, a quit without effect? | 210 thousand |
| `router_lost` | Is a datagram ever lost? It is: violated, see below | 18 thousand |

Properties of a module that belong together are checked as one conjunction of
named parts (`TableSound`, `ViewRight`, `AllWoken`, ...); the parts and their
comments stand in front of it.

### Where the code does not do what it says

These properties state what a document, a comment or a docstring of the
repository says, and TLC finds a counterexample to each: `NoneLost` in the run
`router_lost`, the others when they are put in place of the properties of the
configuration named here. The properties of the passing runs are stated up to
these cases.

| Configuration | Property | What happens | What is said |
|---|---|---|---|
| `MCRouter_lost` | `NoneLost` | a datagram is added to a pending request that the ARP thread freed in between, and lost (`router.c` 413) | `arp.h` 158: the copy is added to the withheld frames; 12-14: all are answered |
| `MCFraming_client`, with `SPECIFICATION ServerSpec` | `Prompt` | the server does not complete a payload that is split between two `recv` (`server.c` 306) | `server.c` 321: "We have a complete message" |
| `MCSession` | `EndConfigReached` | so a configuration that TCP cuts never gets it to run | `server.h` 231: after END CONFIG the server runs |
| `Server_any` | `BadFrameDropped` | a frame for an unknown router or interface ends the process (562) | `server.h` 234: "log this occurrence and drop that frame" |
| `Server_any` | `TablesComplete` | END CONFIG does not count the routing table entries (531) | `server.h` 134, 228: the entries must follow; on errors the server exits |
| `Server_any` | `NoThreadLeft` | ARP threads go on with freed contexts after a disconnect (757) | `server.h` 238: "must reset the chirouter data structures" |
| `MCSession` | `HelloAnswered` | a switch that reconnects blocks the controller (`pox_controller.py` 154) | `server.h` 97: "chirouter will respond with a HELLO message" |
| `MCSession` | `EveryFrameRead` | a frame for an interface without a link ends the reader (141) | `server.h` 201: the frame "must be sent out" |
| `MCWire` | `ClassEInferred` | no netmask is inferred for class E (`addresses.py` 772) | `addresses.py` 771: "Must be a Class E (Experimental)" |
| `MCWire` | `ParsedNetworkHolds` | a parsed network with host bits holds no address (319) | `addresses.py` 303: takes tuples "like that returned by parse_cidr()" |
| `MCWire` | `OptionsPacked` | a relayed header promises options that are not written (`ipv4.py` 172) | `packet_base.py` 193: "Convert header and payload to bytes" |
| `MCDatapath` | `BufferUnchanged` | set actions change the frame in the buffer (`switch.py` 701) | `switch.py` 687: "Buffer packet and return buffer ID" |
| `MCDatapath` | `BufferReleased` | a buffer whose actions raise stays in use (720) | `switch.py` 707: "output and release a packet from the buffer" |
| `MCOpenFlow` | `DeferredSent` | the DeferredSender ends on a closed socket (`of_01.py` 333) | `of_01.py` 277: "Class that handles sending when a socket write didn't complete" |
| `MCOpenFlow` | `ConnectionFound` | closing a switch's old connection removes the new one (`openflow/__init__.py` 371) | `openflow/__init__.py` 344: "Get the Connection object associated with a DPID" |
| `MCOpenFlow` | `FoundIsOpen` | a second HELLO leaves a closed connection in the nexus (`of_01.py` 118) | `openflow/__init__.py` 358: "because we're not connected to it!" |
| `MCOpenFlow` | `LostIsLost` | ConnectionUp after ConnectionDown (360) | `openflow/__init__.py` 66: "has been lost" |
| `MCOpenFlow` | `PortsForgotten` | deleted ports stay (168) | `of_01.py` 465: "Keeps track of lists of ports" |
| `MCCore` | `CalledOnce` | a listener is called twice in one dispatch (`revent.py` 275) | `revent.py` 273: "Create a copy so that it can be modified freely" |
| `MCCore` | `RunningWhenUp` | UpEvent after a quit (`core.py` 333) | `core.py` 137: "Fired when system is up." |
| `MCCore` | `DownBeforeExit` | the process exits without DownEvent (284) | `core.py` 141: "Fired when system is down." |

Other places where the code stops short, which no document contradicts: a full
ARP cache ends the process (`router.c` 470); time to live 0 leaves as 255 (150);
ids in a configuration are not compared with the sizes announced (`Overrun`);
besides IPv4 options, `pack` does not write unknown TCP options, EAP data and
IPv6 extension headers; several classes cannot be packed or read
(`Unreadable` in `Codec`), and the length of a Nicira load spec is wrong.

### Bounds

* `MaxFrames` 2: two datagrams are enough for one to wait and one to find the
  request, for two queues, and for one to overtake the other.
* `ARPCACHE_SIZE` 2, timeout 1 second, 2 sends: the full cache, the expiry and
  the last send are all reached; the code has 100, 15 and 5. The proofs hold for
  all values.
* Two request addresses: as many as there are next hops to ask for; a freed one
  is taken again, which is how a dangling pointer could meet a new request.
  `ReqIdSymmetry` permutes them, which no property tells apart.
* `Routing`: three entries give a better match before, after and between
  others; prefix lengths lie on and beside every octet boundary.
* `Framing`: payloads of 0 to 3 bytes and `recv` of 1 to 9 bytes put cuts in the
  header, between header and payload, in the payload and between messages, and
  several messages into one `recv`.
* `Server`: two routers with two interfaces and two entries each, two arrays
  (so a second session, or a repeated ROUTERS), two END CONFIGs for one array.
* `Session`: nine topology files, valid and invalid; a switch comes up at most
  twice and the client connects at most three times, enough for a second and a
  stale reader; two packet-ins and two frames.
* `Codec`: every class, alone and followed by a second message; actions in ones
  and twos; the stream cut at one place, where it matters (in the header
  of either message, just before the end of the first and at its end).
* `Packet`: one frame for every branch of the parsers. `Addresses`: all 256
  addresses of four two-bit bytes with every prefix; IPv6 addresses with every
  pattern of zero segments.
* `Datapath`: two ports, three entries, two buffers; a full table, full buffers,
  and matches that cover or cross each other are reached.
* `OpenFlow`: two connections of one switch or of two. `Recoco`: up to three
  threads and two tasks in a behaviour, time 0 to 2. `Core`: up to six calls of
  the applications, in every nesting.

### Fairness

`router_live` assumes weak fairness of the ARP thread and of the clock, and
strong fairness of the main thread's step: the ARP thread holds `lock_arp` for a
moment in each second and sleeps without it, so a thread waiting for the mutex
gets it, but it can find it taken again and again. Nothing is assumed of the
network: no frame and no ARP reply ever has to come. `framing_client` assumes
that the reading thread runs and that TCP delivers what was sent. `session`
assumes that both processes run and the network delivers; nothing of the
switches. `openflow` assumes that the task, which selects on every socket, reads
every connection, that the DeferredSender's thread runs until an exception ends it, and that a switch that is
there greets and answers. `recoco` and `core` assume that every thread that can
go on does, that blocking functions and the applications' code return, and that
the clock moves; all are weak fairness, which an operating system gives every
runnable thread. Where a behaviour may end (POX has quit, a frame is relayed, a
message is read) the configuration turns the deadlock check off.

## 4. Proofs

| Theorem | Says |
|---|---|
| **`RouterProofs`** | |
| `TypeCorrect` | types and ranges of `Router` |
| `NothingMislaid` | every datagram is in one place |
| `OneRequestPerAddress` | one pending request per address |
| `ResolvedOrPending` | no waiting for a resolved address |
| `ForwardedToAnnouncedMac` | MACs used were announced for the next hop |
| `CarriedStateHolds` | what a lookup found still holds when it is used |
| `GivesUpAfterFive` | Host Unreachable only after `MAX_TIMES_SENT` requests |
| `DatagramsKeepOrder` | datagrams for one address leave in the order they came |
| **`RoutingProofs`** | |
| `RoutingType`, `LongestPrefixMatch` | longest-prefix matching for tables of any length |
| `MatchingTestsThePrefix` | masking octet by octet tests the bits of the prefix, for all addresses, entries and lengths |
| **`FramingProofs`** | |
| `FramingType`, `FramingInOrder`, `FramingPrompt` | the client's reassembly for any stream and any split |
| **`ServerProofs`** | |
| `ServerInvariant` | the inductive invariant of the server |
| `ConfigurationIsSound` | a configuration that runs was received whole, and its routes use interfaces that exist |
| `ResetIsClean` | nothing of a session outlives its disconnect |
| `ThreadsAreTheRouters` | ARP threads run only for routers with all interfaces, also when END CONFIG fails half way; while the server serves, every router of a running configuration has as many as any other, at least one, and a router that is being configured none |
| **`OpenFlowProofs`** | |
| `ControllerInvariant` | the inductive invariant of connections, nexus and DeferredSender |
| `ViewIsRight` | ports (up to deleted ones) and statistics are those the switches sent; if switches greet once, the nexus has no closed connection, and has each connection that is up unless its switch made another (`ViewRight`) |
| `RegisteredStays` | for switches that come back and greet as often as they like: a registered connection stays until it, or another one of the same switch, interferes (`StaysRegistered`) |
| `EventsInOrder` | `OpenFlow` implements `ConnectionEvents`, step by step |
| **`RecocoProofs`** | |
| `SchedulerInvariant` | the inductive invariant of scheduler and hub |
| `TasksStayInPlace` | a task is in exactly one place |
| `TimersKeepTime` | no timer fires before it is due (`TimerOnTime`) |
| **`DatapathProofs`** | |
| `TableAlwaysSound` | the flow table stays sorted by effective priority, without duplicates and within its timeouts, so a lookup finds an entry of the highest priority that matches (`TableSound`) |
| `ToldTrue` | a buffer holds the very frame, from the port, last announced under its number and not one that came later, and the controller knows the ports (`ControllerToldTrue`); that the frame's fields are untouched does not hold |
| `RemovalsReported` | while a controller is connected, an entry that asks for it is reported exactly once when it goes and never while it stays (`RemovalReported`) |
| **`CoreProofs`** | |
| `CoreInvariant` | the inductive invariant of core, events and start |
| `WaitersAreServed` | whoever waits for components is called once, when they are there, and not forgotten |
| `ListenersAreCalled` | listeners stay in order of priority and none is passed over (one may be called twice) |
| `StartsAsTheCommandLineAsks` | components are launched with the options of their own place in the command line, instances are numbered as they come, and nobody is told that POX goes down before all are launched (`StartsAsAsked`) |

Each is proved for every value of the constants under the assumptions below,
and every inductive invariant was checked by TLC on the instance of the run
before it was proved.

### Assumptions

TLC evaluates all of them in the runs.

* `BoundsAssumption`, `AddressAssumption`, `TableAssumption`, `ServerBounds`,
  `DelayAssumption`: types of the constants.
* `StreamAssumption`: the offsets of a stream are the sums of the lengths.
* `MaskAssumption`: comparing masks as integers is comparing prefix lengths, a
  finite statement about the 33 masks, which TLC evaluates in full.
* `SwitchesAssumption` of `OpenFlow`: types, and `InTurn` of the statistics a
  switch sends. A reply of several parts is not mixed with another of several
  parts; a reply of one part may come in between. The code relies on it and says
  so in a comment of `_incoming_stats_reply`: it keeps the parts of one reply and
  drops them when parts of another arrive.
* `TasksAssumption`, `ProgramsAssumption` of `Recoco`: kinds of tasks are
  disjoint, since a task is an object of one class; the fields of a program.
* `ListenersAssumption`, `SinksAssumption`, `OpsAssumption`, `ArgvAssumption` (a
  command line is a list of words), `ReturnsAssumption` of `Core`. A waiter stands for one call of `call_when_ready` or
  `listen_to_dependencies`, which makes an entry of its own in `_waiters`; a
  listener of a sink is one of its bound methods, so sinks share none, and the
  programs bind none of them by hand as well; each quit that gets a
  thread gets a new one; what handlers return is one of the values of
  `revent.py`. One thread of a program uses the registry (see section 2); the
  other calls come from any thread.
* `SizesAssumption`, `PeersAssumption` of `Datapath`, `AddrBitsAssumption` of
  `OFMatch`: types; a switch has finitely many port numbers; a frame
  has an identity; an address of which no bit counts reads as none, as in
  `get_nw_src`; `OFPP_TABLE` is an output of packet-outs only, as OpenFlow 1.0
  has it (the code does not test it, and a table entry that sends frames to the
  table would call itself without end); a set action names a field it can set.

### Arguments

**Router.** None of the invariants is inductive. `ControlOK` says what the
main thread's locals are at each place in the code; `LookupsHold` says that
what a lookup found is still so at the next lock: only the main thread adds to
the tables, and the ARP thread only removes. With `KnownMacs` (cached pairs
were announced, and the slot a late reader looks at keeps its contents because
purging clears the flag only) and `QueuesMatch` (a queue holds datagrams for
its own address, and the counter counts broadcasts) the conjunction `SafeInv`
is inductive; the proof has one lemma per action.
`GivesUpAfterFive` follows from `QueuesMatch` at the one action that gives up.
`NoOvertaking` is about steps and needs `OrderInv` beside `SafeInv`: the datagram
in the main thread's hand is the newest, queues are sorted, and at `Forward`
nothing waits for the same next hop. The last part rests on `CachedXorPending`
at the lookup.

**Routing.** `BestMatch` is the loop invariant itself; `MaskAssumption` turns the
code's comparison into one of lengths. `MatchIsPrefix` comes down to one octet:
`and_octet` with the mask of n bits leaves the first n bits (`OctetMatch`, by
moving one bit at a time from the back to the front), and bit b of an
address is a bit of one octet (`BitPosition`).

**Framing.** `InStep`: `msg_buffer` holds what has been read of the message after
the last one handed on, and `len` is its length once the header is in. For the
server's loop `InStep` fails at the first split payload.

**Server.** `ThreadsMatch` says nothing of arrays that are not allocated, and of
places behind the end of one that is being filled, so a later END CONFIG could
find threads there. `SInv` adds that the array has the announced length and is
filled from the front (`ArrayFilled`), that array numbers are fresh
(`FreshUntouched`), and that while the server serves no thread belongs to an
array before END CONFIG has succeeded (`NoThreadYet`): one that fails leaves
threads behind, and the server ends.

**OpenFlow.** The properties speak of states in which everything has been read,
so `OInv` speaks of the messages on their way. `PortsInv`: the last
message about a port that is still to be read, or else what is known already,
agrees with the switch. `StatsInv`: numbering the parts on the wire shows that
those kept belong to the one unfinished reply. `PoliteInv`: a switch that greets
once has one message of the greeting under way at a time, on the wire,
deferred or not yet sent, so dpid, nexus and barriers are as new until the
features reply is read. `RegisteredStays` needs of all this only the types and who
takes entries out of the nexus (`NexusByOwner`), so it holds for switches that
greet often as well. `EventsInOrder` is the refinement under the mapping `Events`: `InOrder`
gives for every step of `OpenFlow` an event that `ConnectionEvents` allows, or none.

**Recoco.** `OnePlace` counts a task's occurrences in five places, and the hub
moves tasks by local sets: `Watched` says that these sets hold tasks that the
hub has. `OnTime` follows a timer's wake-up time from the `Select` it yields
through the queue into the hub's table and from there to the ready queue.

**Datapath.** `IInv` is the types, `TableInv`, `BufferHonest` and
`ControllerKnowsPorts`. Two parts of `TableInv` strengthen what is claimed: the table
is sorted by `effective_priority` throughout, and an entry is over its time by no
more than the timer has run since it last looked (`InTime`), so that the sweep at
the end of a period finds all that are due. The loop of `add_entry` halves an
interval (`Halves`) and stops (`Stops`) at the place before the first entry of no
higher priority (`SearchPlace`), where inserting keeps the order. A match that
comes off the wire is the one the sender meant, with its prerequisites enforced
(`MatchArrives`); hence keys of the table are compared as the controller would.
A handler may run a list of actions, send a frame to the table and run another
list, and fill buffers on the way: `Handles` says that it does so for one frame
and one port, that the slots it filled hold that frame and were announced if
anyone listens, and that it leaves the others alone. It is carried along a list of
actions by taking the first place where it fails (`FirstPlace`), in place of
an induction over the list. For removals, `TellsAt` pairs each message with the
place of the entry it is about.

**Core.** What matters is on the stacks. `Sound` says of each frame what its
code relies on: a dispatch in progress goes over the list of its source or over
a copy that lists every listener still to be called (`Reached`), a `done()`
belongs to a sink that was served, a `_quit` beyond its test finds POX started.
`Watched` is the argument for `NothingReadyWaits`: an entry that is ready has,
somewhere below, a `_try_waiters` that holds it in its copy or will make a new
copy since something changed. This is why the loop goes on until a pass
changes nothing. `Waiting` says that an entry is asked for, listed and called in
this order, each once. Sorting by priority is stable (`AddedInserts`: a list
with a new entry has one sorted order, in which the others keep theirs), and
ids are given out once, so `Sorted` is kept. An exception unwinds to the frame
that catches it, and no `_try_waiters` is lost with the frames it leaves
(`AfterExceptionNow`). For the start, `LInv` says which component of the command line
each launch belongs to: they are taken in order, and while boot goes on only those
are passed over that have nothing to launch. The function of a word is there or
not, whichever instance asks, so before an instance is launched all earlier ones of its
word were, and the number counted by `inst` is the number launched. What
`_do_launch` collects under a name and what stands in the command line are
compared by counting places (`SameCount`, `Rank`, `InstanceAsked`).

### Checked by TLC only

* Liveness and everything under fairness, which is out of the prover's reach:
  `EveryDatagramAnswered`, `EntriesExpire`, `AllDelivered`, `SessionEstablished`,
  `FramesRead`, `Announced`, the part `TimersFire` of `TimersRight`, `AllWoken`,
  `QuitEndsPox`.
* What recursive definitions compute: `Codec`, `Packet` and `PacketLib`.
* `Session`, whose configuration is a list put together from lists of any length
  (`FlattenSeq`), and `Addresses`, which computes with powers of two: the first needs
  induction over data, the second arithmetic that the backends do not have.

## 5. Not modelled, and the plan

Not modelled because there is no state or only output: logging, start-up and
signals, the mininet driver, packet capture, vendored C libraries. Not modelled
because chirouter's controller does not launch them: the other applications that
ship with POX (forwarding, messenger, web, topology, host tracker, DHCP server,
telnet server, samples, tools). Parts left out of modelled components: text
formatting and comparison of messages, counters of the switch, `EthAddr`,
`Synchronizer` (its task always raises), convenience constructors of the
Nicira matches.

In order:

1. Proofs: the composition in `Session`, once its configuration is described by
   places, as the command line in `Boot` is; `AddressesKept`.
2. `SendPath`: partial sends of the main thread and several ARP threads on one
   socket, and capture blocks in one file; an abstract channel of whole messages
   that it should implement.
3. `Forwarding`: an abstract specification of a router (a datagram is answered
   once, to an announced address) that `Router` implements.
