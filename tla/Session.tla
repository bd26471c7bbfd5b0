------------------------------ MODULE Session ------------------------------
(***************************************************************************)
(* The controller process and the chirouter server: pox_controller.py and  *)
(* client.py composed with Server.                                         *)
(*                                                                         *)
(* The controller's POX thread handles switch events one at a time.  When  *)
(* the last router's switch has come up it connects to chirouter, blocks   *)
(* until HELLO is answered, sends the configuration, and starts a reader   *)
(* thread.  A switch that comes up again makes it connect again.  The      *)
(* threads share the attribute client.conn: a reader blocked in recv keeps *)
(* its own socket open and looks at client.conn only before the next recv. *)
(*                                                                         *)
(* A socket is a pair of queues of messages (Framing is about their        *)
(* bytes).  TCP may deliver a message in two pieces, which the server does *)
(* not survive if the cut is in the payload.  The server serves one        *)
(* socket; later ones wait in its backlog.                                 *)
(***************************************************************************)
EXTENDS TopologyFile, FiniteSetsExt

CONSTANTS
  Documents,  \* topology files the controller may be launched with
  MaxUps,     \* bound: how often the switch of one router comes up
  MaxSock,    \* bound: how often the client connects
  MaxPackets, \* bound: packet-ins handled, and frames routers send
  MaxRouters, MaxIfaces, MaxRtable, MaxBlocks, MaxThreads   \* of Server

VARIABLES
  \* The server process: the variables of Server, and
  proc, state, max_routers, num_routers, routers, block, blocks, freed, threads,
  serving,    \* socket it serves, 0 for none
  cut,        \* process_messages has lost count: it was in the middle of a
              \* payload when recv returned
  backlog,    \* sockets not accepted yet
  \* The controller process
  topology,   \* its routers in order: [interfaces, rtable, found, ports]
  pc,         \* POX thread: "idle" or "hello", blocked in connect
  router_controllers, \* router -> which connection of its switch, 0 for none
  up,         \* routers whose switch is connected
  ups,        \* router -> how often its switch has come up
  conn,       \* client.conn, 0 for None
  iface_ids,  \* client.iface_ids: the <<rid, iface_id>> it holds
  reader,     \* reader thread -> socket it is blocked on, 0 if not running
  \* The network
  c2s, s2c,   \* messages under way on each socket
  packets, frames   \* counters for the bounds

srv == <<proc, state, max_routers, num_routers, routers, block, blocks, freed,
         threads>>
ctl == <<topology, pc, router_controllers, up, ups, conn, iface_ids, reader>>
vars == <<srv, serving, cut, backlog, ctl, c2s, s2c, packets, frames>>

Srv == INSTANCE Server

Node == DOMAIN topology
Sock == 1..MaxSock
num_nodes == Len(topology)

ASSUME SessionBounds == MaxUps \in Nat /\ MaxSock \in Nat /\ MaxPackets \in Nat

-----------------------------------------------------------------------------
(* The messages of ChirouterClient.connect, in the order it sends them.    *)
(* Routers are numbered in the order of the topology, interfaces in the    *)
(* order of their sorted names; both from zero.                            *)

iface_id(n, name) == Cardinality({x \in topology[n].interfaces : x < name})
(* The interface with a number, and whether it has a port on the switch.   *)
iface_name(n, f) == CHOOSE x \in topology[n].interfaces : iface_id(n, x) = f
iface_port(n, f) == iface_name(n, f) \in topology[n].ports

Hello == [type |-> "hello"]
num_interfaces(n) == Cardinality(topology[n].interfaces)

RouterMsg(n) == [type |-> "router", r |-> n - 1, ifaces |-> num_interfaces(n),
                 entries |-> Len(topology[n].rtable)]
InterfaceMsgs(n) == [k \in 1..num_interfaces(n) |->
                       [type |-> "interface", r |-> n - 1, f |-> k - 1]]
RTableMsgs(n) == [k \in DOMAIN topology[n].rtable |->
                    [type |-> "rtable", r |-> n - 1,
                     f |-> iface_id(n, topology[n].rtable[k])]]

(* Fault: the routing table goes before the interfaces it names.           *)
config_rtable_first ==
  <<[type |-> "routers", n |-> num_nodes]>>
  \o FlattenSeq([n \in Node |-> <<RouterMsg(n)>> \o RTableMsgs(n) \o InterfaceMsgs(n)])
  \o <<[type |-> "end"]>>
(* Fault: routing table entries carry the place of the entry.              *)
config_wrong_ids ==
  <<[type |-> "routers", n |-> num_nodes]>>
  \o FlattenSeq([n \in Node |-> <<RouterMsg(n)>> \o InterfaceMsgs(n)
       \o [k \in DOMAIN topology[n].rtable |->
             [type |-> "rtable", r |-> n - 1, f |-> 0]]])
  \o <<[type |-> "end"]>>

(* Fault: END CONFIG is not sent.                                          *)
config_without_end ==
  <<[type |-> "routers", n |-> num_nodes]>>
  \o FlattenSeq([n \in Node |-> <<RouterMsg(n)>> \o InterfaceMsgs(n) \o RTableMsgs(n)])

configuration ==
  <<[type |-> "routers", n |-> num_nodes]>>
  \o FlattenSeq([n \in Node |-> <<RouterMsg(n)>> \o InterfaceMsgs(n) \o RTableMsgs(n)])
  \o <<[type |-> "end"]>>

(* Fault: routers are numbered from one.                                   *)
numbered_from_one(k) ==
  {<<m.r + 1, m.f>> : m \in {x \in ToSet(SubSeq(configuration, 1, k)) : x.type = "interface"}}

(* The interfaces numbered once k of the messages have been sent.          *)
numbered(k) ==
  {<<m.r, m.f>> : m \in {x \in ToSet(SubSeq(configuration, 1, k)) : x.type = "interface"}}

-----------------------------------------------------------------------------
Init ==
  /\ Srv!Init
  /\ \E doc \in Documents : topology = load(doc)
  /\ serving = 0 /\ cut = FALSE /\ backlog = <<>>
  /\ pc = "idle"
  /\ router_controllers = [n \in Node |-> 0]
  /\ up = {} /\ ups = [n \in Node |-> 0]
  /\ conn = 0 /\ iface_ids = {} /\ reader = [s \in Sock |-> 0]
  /\ c2s = [s \in Sock |-> <<>>] /\ s2c = [s \in Sock |-> <<>>]
  /\ packets = 0 /\ frames = 0

alive == proc \in {"accept", "serving"}

(* The server still has its end of socket s.                               *)
server_open(s) == alive /\ (s = serving \/ s \in ToSet(backlog))

(* The client still has its end: some variable or blocked call refers to   *)
(* the socket object.                                                      *)
client_open(s) == s = conn \/ \E t \in Sock : reader[t] = s

-----------------------------------------------------------------------------
(* The POX thread.                                                         *)

(* start_switch for a router's switch: a new RouterController, and connect *)
(* when every router has one, which includes a switch that comes again.    *)
(* If nobody listens, connect raises and POX logs the exception.           *)
StartSwitch(n) ==
  /\ pc = "idle" /\ ups[n] < MaxUps /\ topology[n].found
  /\ ups' = [ups EXCEPT ![n] = @ + 1]
  /\ router_controllers' = [router_controllers EXCEPT ![n] = ups'[n]]
  /\ up' = up \cup {n}
  /\ \/ /\ (\E k \in Node : router_controllers'[k] = 0) \/ ~alive
        /\ UNCHANGED <<pc, conn, c2s, backlog>>
     \/ /\ alive /\ \A k \in Node : router_controllers'[k] # 0
        /\ conn < MaxSock
        /\ conn' = conn + 1
        /\ backlog' = Append(backlog, conn')
        /\ c2s' = [c2s EXCEPT ![conn'] = <<Hello>>]
        /\ pc' = "hello"
  /\ UNCHANGED <<srv, serving, cut, topology, iface_ids, reader, s2c, packets, frames>>

(* stop_switch looks the connection up among the routers, does not find    *)
(* it, and does nothing: the controller of the router stays.               *)
StopSwitch(n) ==
  /\ n \in up
  /\ up' = up \ {n}
  /\ UNCHANGED <<srv, serving, cut, backlog, topology, pc, router_controllers, ups, conn,
                 iface_ids, reader, c2s, s2c, packets, frames>>

(* Whatever message comes first is taken for the answer to HELLO; then the *)
(* configuration is sent and a reader thread started.  EPIPE is ignored.   *)
Configure ==
  /\ pc = "hello" /\ s2c[conn] # <<>>
  /\ s2c' = [s2c EXCEPT ![conn] = Tail(@)]
  /\ c2s' = IF server_open(conn)
            THEN [c2s EXCEPT ![conn] = @ \o configuration] ELSE c2s
  /\ iface_ids' = iface_ids \cup numbered(Len(configuration))
  /\ reader' = [reader EXCEPT ![conn] = conn]
  /\ pc' = "idle"
  /\ UNCHANGED <<srv, serving, cut, backlog, topology, router_controllers, up, ups, conn,
                 packets, frames>>

(* The server closed the socket: connect raises before the configuration,  *)
(* or with ECONNRESET at some message of it, and no reader is started.     *)
ConnectFails ==
  /\ pc = "hello" /\ ~server_open(conn)
  /\ \/ s2c[conn] = <<>> /\ UNCHANGED <<iface_ids, s2c>>
     \/ /\ s2c[conn] # <<>>
        /\ s2c' = [s2c EXCEPT ![conn] = Tail(@)]
        /\ \E k \in DOMAIN configuration : iface_ids' = iface_ids \cup numbered(k)
  /\ pc' = "idle"
  /\ UNCHANGED <<srv, serving, cut, backlog, topology, router_controllers, up, ups, conn,
                 reader, c2s, packets, frames>>

(* RouterController._handle_PacketIn.  An interface without a number makes *)
(* it raise, which POX logs; a closed socket drops the message.            *)
HandlePacketIn(n, f) ==
  /\ pc = "idle" /\ n \in up /\ router_controllers[n] # 0
  /\ packets < MaxPackets
  /\ iface_port(n, f) /\ <<n - 1, f>> \in iface_ids
  /\ packets' = packets + 1
  /\ c2s' = IF server_open(conn)
            THEN [c2s EXCEPT ![conn] =
                    Append(@, [type |-> "frame", r |-> n - 1, f |-> f])]
            ELSE c2s
  /\ UNCHANGED <<srv, serving, cut, backlog, ctl, s2c, frames>>

-----------------------------------------------------------------------------
(* The reader threads.                                                     *)

(* Fault: the reader ends after the first chunk.                           *)
process_once(t) ==
  /\ reader[t] # 0 /\ s2c[reader[t]] # <<>>
  /\ s2c' = [s2c EXCEPT ![reader[t]] = Tail(@)]
  /\ reader' = [reader EXCEPT ![t] = 0]
  /\ UNCHANGED <<srv, serving, cut, backlog, topology, pc, router_controllers, up, ups, conn,
                 iface_ids, c2s, packets, frames>>

(* recv returns some of the messages; frames go to the switch of their     *)
(* router.  A HELLO has no rid, and a frame for an interface without a     *)
(* port finds none: either kills the thread.  The next recv is on whatever *)
(* socket client.conn is by then.                                          *)
Kills(m) == m = Hello \/ (m.type = "frame" /\ ~iface_port(m.r + 1, m.f))
ProcessMessages(t) ==
  /\ reader[t] # 0 /\ s2c[reader[t]] # <<>>
  /\ \E k \in DOMAIN s2c[reader[t]] :
       LET taken == SubSeq(s2c[reader[t]], 1, k)
       IN /\ s2c' = [s2c EXCEPT ![reader[t]] = SubSeq(@, k + 1, Len(@))]
          /\ reader' = [reader EXCEPT ![t] = IF \E m \in ToSet(taken) : Kills(m) THEN 0 ELSE conn]
  /\ UNCHANGED <<srv, serving, cut, backlog, topology, pc, router_controllers, up, ups, conn,
                 iface_ids, c2s, packets, frames>>

(* "chirouter has closed connection"                                       *)
ReaderEnds(t) ==
  /\ reader[t] # 0 /\ s2c[reader[t]] = <<>> /\ ~server_open(reader[t])
  /\ reader' = [reader EXCEPT ![t] = 0]
  /\ UNCHANGED <<srv, serving, cut, backlog, topology, pc, router_controllers, up, ups, conn,
                 iface_ids, c2s, s2c, packets, frames>>

-----------------------------------------------------------------------------
(* The server process, driven by what the client really sends.             *)

ServerAccept ==
  /\ backlog # <<>>
  /\ Srv!Accept
  /\ serving' = Head(backlog) /\ backlog' = Tail(backlog) /\ cut' = FALSE
  /\ UNCHANGED <<ctl, c2s, s2c, packets, frames>>

Handle(m) ==
  \/ m.type = "hello" /\ Srv!Hello
  \/ m.type = "routers" /\ Srv!Routers(m.n)
  \/ m.type = "router" /\ Srv!Router(m.r, m.ifaces, m.entries)
  \/ m.type = "interface" /\ Srv!Interface(m.r, m.f)
  \/ m.type = "rtable" /\ Srv!RTableEntry(m.r, m.f)
  \/ m.type = "end" /\ Srv!EndConfig
  \/ m.type = "frame" /\ Srv!EthernetFrame(m.r, m.f, "normal", "own")

ServerHandle ==
  /\ proc = "serving" /\ c2s[serving] # <<>> /\ ~cut
  /\ LET m == Head(c2s[serving])
     IN /\ Handle(m)
        /\ s2c' = IF m = Hello /\ state' = "CONFIG"
                  THEN [s2c EXCEPT ![serving] = Append(@, Hello)] ELSE s2c
  /\ c2s' = [c2s EXCEPT ![serving] = Tail(@)]
  /\ UNCHANGED <<serving, cut, backlog, ctl, packets, frames>>

(* recv returns with the header of a message and not all of its payload.   *)
(* The next recv sets len to zero, and no number of bytes is the end of    *)
(* this message any more.                                                  *)
ServerCut ==
  /\ proc = "serving" /\ c2s[serving] # <<>> /\ ~cut
  /\ Head(c2s[serving]).type \notin {"hello", "end"}
  /\ cut' = TRUE
  /\ c2s' = [c2s EXCEPT ![serving] = Tail(@)]
  /\ UNCHANGED <<srv, serving, backlog, ctl, s2c, packets, frames>>

(* From then on what arrives is added to msg_buffer, in the end behind its *)
(* last byte.                                                              *)
ServerSwallows ==
  /\ proc = "serving" /\ c2s[serving] # <<>> /\ cut
  /\ c2s' = [c2s EXCEPT ![serving] = <<>>]
  /\ UNCHANGED srv \/ Srv!Overrun
  /\ UNCHANGED <<serving, cut, backlog, ctl, s2c, packets, frames>>

(* The client's end is gone: recv returns 0, or fails if the client left   *)
(* something unread.                                                       *)
ServerSeesClose ==
  /\ proc = "serving" /\ c2s[serving] = <<>> /\ ~client_open(serving)
  /\ \/ s2c[serving] = <<>> /\ Srv!Disconnect
     \/ s2c[serving] # <<>> /\ Srv!SocketError
  /\ serving' = 0
  /\ UNCHANGED <<cut, backlog, ctl, c2s, s2c, packets, frames>>

(* A router or its ARP thread sends a frame.                               *)
RouterSends(r, f) ==
  /\ proc = "serving" /\ state = "RUNNING" /\ frames < MaxPackets
  /\ r < num_routers /\ f < routers[r + 1].num_interfaces
  /\ s2c' = [s2c EXCEPT ![serving] = Append(@, [type |-> "frame", r |-> r, f |-> f])]
  /\ frames' = frames + 1
  /\ UNCHANGED <<srv, serving, cut, backlog, ctl, c2s, packets>>

(* main frees the routers and returns.                                     *)
ServerEnds ==
  /\ Srv!Destroy \/ Srv!Exit
  /\ UNCHANGED <<serving, cut, backlog, ctl, c2s, s2c, packets, frames>>

(* An ARP thread of an earlier session touches its freed router.           *)
StaleArpThread ==
  /\ Srv!ArpRound
  /\ UNCHANGED <<serving, cut, backlog, ctl, c2s, s2c, packets, frames>>

-----------------------------------------------------------------------------
Controller ==
  \/ Configure \/ ConnectFails
  \/ \E t \in Sock : ProcessMessages(t) \/ ReaderEnds(t)
ServerStep == \/ ServerAccept \/ ServerHandle \/ ServerCut \/ ServerSwallows
              \/ ServerSeesClose \/ ServerEnds

Next ==
  \/ \E n \in Node : StartSwitch(n) \/ StopSwitch(n)
  \/ \E n \in Node : \E f \in 0..(num_interfaces(n) - 1) :
       HandlePacketIn(n, f) \/ RouterSends(n - 1, f)
  \/ Controller \/ ServerStep \/ StaleArpThread

Spec == Init /\ [][Next]_vars

(* Both processes run; the network delivers.  Nothing is assumed of the    *)
(* switches.                                                               *)
FairSpec ==
  /\ Spec
  /\ WF_vars(Configure \/ ConnectFails)
  /\ \A t \in Sock : WF_vars(ProcessMessages(t) \/ ReaderEnds(t))
  /\ WF_vars(ServerStep)

-----------------------------------------------------------------------------
(* What the server has been told, compared with the topology.              *)
Matches(n) ==
  /\ routers[n].num_interfaces = num_interfaces(n)
  /\ routers[n].max_rtable_entries = Len(topology[n].rtable)
  /\ routers[n].rtable = [k \in DOMAIN topology[n].rtable |->
                            iface_id(n, topology[n].rtable[k])]

Expected(m) ==
  CASE m.type = "hello" -> state = "HELLO_WAIT"
    [] m.type = "routers" -> state = "CONFIG"
    [] m.type = "router" -> state = "CONFIG" /\ m.r = num_routers /\ m.r < Len(routers)
    [] m.type = "interface" -> /\ state = "CONFIG" /\ m.r < num_routers
                               /\ m.f = routers[m.r + 1].num_interfaces
                               /\ m.f < routers[m.r + 1].max_interfaces
    [] m.type = "rtable" -> /\ state = "CONFIG" /\ m.r < num_routers
                            /\ m.f < routers[m.r + 1].num_interfaces
                            /\ Len(routers[m.r + 1].rtable) < routers[m.r + 1].max_rtable_entries
    [] m.type = "end" -> num_routers = max_routers /\ Srv!incomplete = {}
    [] m.type = "frame" -> /\ state = "RUNNING" /\ m.r < num_routers
                           /\ m.f < routers[m.r + 1].num_interfaces

(* Ranges of the controller's variables and of the sockets.                *)
TypeOK ==
  /\ serving \in Sock \cup {0} /\ cut \in BOOLEAN /\ ToSet(backlog) \subseteq Sock
  /\ pc \in {"idle", "hello"} /\ up \subseteq Node
  /\ ups \in [Node -> 0..MaxUps] /\ router_controllers \in [Node -> 0..MaxUps]
  /\ conn \in Sock \cup {0} /\ reader \in [Sock -> Sock \cup {0}]
  /\ iface_ids \subseteq {<<n - 1, f>> : n \in Node, f \in 0..(MaxIfaces - 1)}
  /\ packets \in 0..MaxPackets /\ frames \in 0..MaxPackets

(* The server never gets a message from this client that it rejects by     *)
(* ending the process: not in the order of the configuration, not a frame  *)
(* before END CONFIG, however packet-ins, reconnecting switches and the    *)
(* second connection fall between.                                         *)
NeverRejected ==
  proc = "serving" /\ c2s[serving] # <<>> /\ ~cut => Expected(Head(c2s[serving]))

(* The routers the server runs are those of the topology, with their       *)
(* interfaces and routing tables and one ARP thread each, in every         *)
(* session.                                                                *)
RunningIsTopology ==
  proc = "serving" /\ state = "RUNNING" =>
    /\ num_routers = num_nodes
    /\ \A n \in Node : Matches(n) /\ threads[block][n] = 1

(* Once all routers' switches have come up the server gets to run, unless  *)
(* it ends, or TCP cuts a payload in two (the configuration is then never  *)
(* read to its end), or a switch comes up again (then the new connection   *)
(* may never be answered: the server still serves the old socket, which    *)
(* the old reader keeps open).                                             *)
AllUp == num_nodes > 0 /\ \A n \in Node : router_controllers[n] # 0
Reconnected == \E n \in Node : ups[n] > 1
SessionEstablished == AllUp ~> (state = "RUNNING" \/ ~alive \/ cut \/ Reconnected)

(* A configuration sent to its END CONFIG brings the server to run, unless *)
(* it ends, however TCP cuts the messages of a single session.             *)
EndConfigReached == AllUp ~> (state = "RUNNING" \/ ~alive \/ Reconnected)

(* A frame a router sends is read by the controller, unless a switch comes *)
(* up again, or an interface of the topology has no link: a frame for it   *)
(* ends the reading for all routers.                                       *)
Plugged == \A n \in Node : topology[n].interfaces = topology[n].ports
FramesRead ==
  \A s \in Sock : (s2c[s] # <<>> /\ Plugged) ~> (s2c[s] = <<>> \/ Reconnected)

(* The same with any interface: the frames of the others are still read.   *)
EveryFrameRead ==
  \A s \in Sock : (s2c[s] # <<>>) ~> (s2c[s] = <<>> \/ Reconnected)

(* A HELLO from the controller is taken and answered, or the server ends   *)
(* or has lost count of the bytes.                                         *)
greeting(s) == c2s[s] # <<>> /\ Head(c2s[s]) = Hello
HelloAnswered == \A s \in Sock : greeting(s) ~> (~greeting(s) \/ ~alive \/ cut)

(* Safety of a session: the server is never given what it rejects, and     *)
(* runs what the controller loaded.                                        *)
SessionSound == TypeOK /\ NeverRejected /\ RunningIsTopology
=============================================================================
