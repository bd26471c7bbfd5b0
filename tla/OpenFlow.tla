------------------------------ MODULE OpenFlow ------------------------------
(***************************************************************************)
(* The OpenFlow controller of POX: Connection, the message handlers,       *)
(* OpenFlow_01_Task and DeferredSender of pox/openflow/of_01.py, with      *)
(* OpenFlowNexus and the arbiter of pox/openflow/__init__.py.              *)
(*                                                                         *)
(* The task reads one message of one connection at a time.  Sends may fail *)
(* once the switch has gone; what is not sent is left to the thread of     *)
(* DeferredSender, and while it has anything to send, all is left to it.   *)
(* A switch answers in order, and may leave and come back on another       *)
(* connection while the old one is still open.                             *)
(***************************************************************************)
EXTENDS Integers, Sequences

CONSTANTS
  Connections,   \* each accepted at most once
  Switches,      \* what may happen in one behaviour: a set of
                 \* [dpid, ports, hellos, changes, stats], with dpid: the
                 \* switch behind each connection that is made, ports: port -> BOOLEAN,
                 \* hellos: how often a switch may greet, changes: how many
                 \* port status messages it sends, stats: the parts of its
                 \* statistics replies, [t, xid, part, last], in order
  Dpids

NoConnection == "none"
NoDpid == 0

StatsPart == [t: {"STATS_REPLY"}, xid: Nat, part: Nat, last: BOOLEAN]

(* Of the parts 1..n of s, the reply that part j belongs to is not         *)
(* complete, and only replies of one part have come since.                 *)
Unfinished(s, j, n) == ~s[j].last /\ \A k \in (j + 1)..n : s[k].last /\ s[k].part = 1

(* The parts of a reply come in order, and no other reply of several parts *)
(* starts between them: _incoming_stats_reply assumes as much.             *)
InTurn(s) ==
  \A i \in DOMAIN s :
    /\ (\A j \in 1..(i - 1) : ~Unfinished(s, j, i - 1)) => s[i].part = 1
    /\ \A j \in 1..(i - 1) : Unfinished(s, j, i - 1) =>
         IF s[i].xid = s[j].xid THEN s[i].part = s[j].part + 1
                                ELSE s[i].last /\ s[i].part = 1

ASSUME SwitchesAssumption ==
  /\ NoConnection \notin Connections /\ NoDpid \notin Dpids
  /\ \A s \in Switches :
       /\ \A c \in DOMAIN s.dpid : s.dpid[c] \in Dpids
       /\ s.ports \in [DOMAIN s.ports -> BOOLEAN]
       /\ s.hellos \in Nat /\ s.changes \in Nat
       /\ s.stats \in Seq(StatsPart) /\ InTurn(s.stats)

VARIABLES
  switches,      \* an element of Switches
  link,          \* connection -> new, open, or gone (the switch has left)
  to_ctl,        \* connection -> messages on the way to POX
  to_switch,     \* connection -> messages on the way to the switch
  sw,            \* connection -> [ports, hellos, changes, stats]
  con,           \* connection -> Connection
  nexus,         \* OpenFlowNexus._connections
  raised,        \* connection -> last of ConnectionUp and ConnectionDown
  deferred,      \* DeferredSender._dataForConnection
  sending,       \* DeferredSender.sending
  sender_alive,  \* the thread of the DeferredSender runs
  cut_off,       \* connections the DeferredSender has disconnected
  received,      \* connection -> the parts of the last statistics event
  running        \* core.running

controller == <<con, nexus, raised, deferred, sending, sender_alive, cut_off, received,
                running>>
vars == <<switches, link, to_ctl, to_switch, sw, controller>>

(* Connection.__init__; sockets holds it while it is open.                 *)
NewConnection ==
  [open |-> FALSE, disconnected |-> FALSE, disconnection_raised |-> FALSE, dpid |-> NoDpid,
   connected |-> FALSE, has_nexus |-> FALSE, barriers |-> 0, waiting |-> {}, ports |-> <<>>,
   previous_stats |-> <<>>]

-----------------------------------------------------------------------------
(* The controller while a handler runs is [con, nexus, raised] for one     *)
(* connection c, plus the messages it sends.                               *)
Now(c) == [con |-> con[c], nexus |-> nexus, raised |-> raised[c], out |-> <<>>]

(* One of ConnectionUp and ConnectionDown is raised.                       *)
Raise(last, event) == IF last = event THEN "again" ELSE event

(* Fault: an event that is put off counts as raised.                       *)
disconnect_put_off(c, w, defer_event) ==
  LET known == w.con.dpid # NoDpid
      first == known /\ ~w.con.disconnection_raised
  IN [w EXCEPT !.con.disconnected = TRUE,
               !.con.disconnection_raised = @ \/ first,
               !.nexus = IF w.con.has_nexus /\ known THEN [@ EXCEPT ![w.con.dpid] = NoConnection] ELSE @,
               !.raised = IF first /\ ~defer_event THEN Raise(@, "down") ELSE @]

(* Fault: the nexus is not told.                                           *)
disconnect_registered(c, w, defer_event) ==
  LET known == w.con.dpid # NoDpid
      raises == known /\ ~w.con.disconnection_raised /\ ~defer_event
  IN [w EXCEPT !.con.disconnected = TRUE,
               !.con.disconnection_raised = @ \/ raises,
               !.raised = IF raises THEN Raise(@, "down") ELSE @]

(* Fault: the nexus forgets every datapath.                                *)
disconnect_all(c, w, defer_event) ==
  [disconnect_registered(c, w, defer_event) EXCEPT !.nexus = [d \in Dpids |-> NoConnection]]

(* Connection.disconnect: the nexus forgets the datapath, whoever is       *)
(* registered for it, and ConnectionDown is raised once, unless deferred.  *)
disconnect(c, w, defer_event) ==
  LET known == w.con.dpid # NoDpid
      raises == known /\ ~w.con.disconnection_raised /\ ~defer_event
  IN [w EXCEPT !.con.disconnected = TRUE,
               !.con.disconnection_raised = @ \/ raises,
               !.nexus = IF w.con.has_nexus /\ known THEN [@ EXCEPT ![w.con.dpid] = NoConnection] ELSE @,
               !.raised = IF raises THEN Raise(@, "down") ELSE @]

(* Fault: ConnectionDown is not put off.                                   *)
send_and_raise(c, w, ms, fails) ==
  IF w.con.disconnected THEN w
  ELSE IF fails THEN disconnect(c, w, FALSE)
  ELSE [w EXCEPT !.out = @ \o ms]

(* Connection.send of the messages ms; fails is a socket error.            *)
send(c, w, ms, fails) ==
  IF w.con.disconnected THEN w
  ELSE IF fails THEN disconnect(c, w, TRUE)
  ELSE [w EXCEPT !.out = @ \o ms]

handle_HELLO(c, w, fails) == send(c, w, <<[t |-> "FEATURES_REQUEST"]>>, fails)
handle_ECHO_REQUEST(c, w, fails) == send(c, w, <<[t |-> "ECHO_REPLY"]>>, fails)

(* handle_FEATURES_REPLY: the first ones register the connection and ask   *)
(* for a barrier; each leaves a listener for its barrier.  getNexus of the *)
(* arbiter always finds core.openflow, as no listener chooses another one. *)
handle_FEATURES_REPLY(c, w, msg, fails) ==
  LET n == w.con.barriers + 1
      known == [w EXCEPT !.con.ports = msg.ports, !.con.dpid = msg.dpid, !.con.has_nexus = TRUE,
                         !.nexus = [@ EXCEPT ![msg.dpid] = c]]
  IN IF w.con.connected THEN known
     ELSE send(c, [known EXCEPT !.con.barriers = n, !.con.waiting = @ \cup {n}],
               <<[t |-> "SET_CONFIG"], [t |-> "FLOW_MOD"], [t |-> "BARRIER_REQUEST", xid |-> n]>>, fails)

(* finish_connecting with the right xid, and with another one.             *)
finish_connecting(c, w, xid) ==
  [w EXCEPT !.con.connected = TRUE, !.con.waiting = @ \ {xid}, !.raised = Raise(@, "up")]
fail_connecting(c, w) == disconnect(c, [w EXCEPT !.con.dpid = NoDpid, !.con.waiting = {}], FALSE)

(* Fault: the listeners do not look at the xid.                            *)
handle_BARRIER_any(c, w, msg) ==
  IF w.con.waiting = {} THEN w
  ELSE [w EXCEPT !.con.waiting = {}]

(* handle_BARRIER: every listener that waits is called.                    *)
handle_BARRIER(c, w, msg) ==
  LET up == IF msg.xid \in w.con.waiting THEN finish_connecting(c, w, msg.xid) ELSE w
  IN IF up.con.waiting = {} THEN up ELSE fail_connecting(c, up)

(* also_finish_connecting: a switch without barriers answers with an error;*)
(* only the listener for its xid minds.                                    *)
handle_ERROR_MSG(c, w, msg) ==
  IF msg.xid \in w.con.waiting THEN finish_connecting(c, w, msg.xid) ELSE w

(* A PortCollection, as con.ports shows it: its own ports, then those of   *)
(* the features reply (_chain) that it has none of.  _update puts a port   *)
(* in the place of the one of its number.                                  *)
_update(ports, p, up) == [q \in DOMAIN ports \cup {p} |-> IF q = p THEN up ELSE ports[q]]

(* Fault: a change to a known port is ignored.                             *)
handle_PORT_STATUS_new_only(c, w, msg) ==
  IF msg.deleted \/ msg.port \in DOMAIN w.con.ports THEN w
  ELSE [w EXCEPT !.con.ports = _update(@, msg.port, msg.up)]

(* handle_PORT_STATUS: _update replaces the port.  _forget is given the    *)
(* description instead of the number, so nothing is forgotten.             *)
handle_PORT_STATUS(c, w, msg) ==
  IF msg.deleted THEN w ELSE [w EXCEPT !.con.ports = _update(@, msg.port, msg.up)]

(* Fault: the parts are kept when they have been delivered.                *)
incoming_stats_reply_kept(prev, msg) ==
  LET parts == IF prev = <<>> \/ prev[1].xid = msg.xid THEN Append(prev, msg) ELSE <<msg>>
  IN [previous |-> parts, event |-> IF msg.last THEN parts ELSE <<>>]

(* _incoming_stats_reply.  A part of another reply raises AttributeError   *)
(* before the list is replaced.                                            *)
incoming_stats_reply(prev, msg) ==
  LET parts == Append(prev, msg)
  IN IF prev # <<>> /\ prev[1].xid # msg.xid THEN [previous |-> prev, event |-> <<>>]
     ELSE IF msg.last THEN [previous |-> <<>>, event |-> parts]
     ELSE [previous |-> parts, event |-> <<>>]

-----------------------------------------------------------------------------
Init ==
  /\ switches \in Switches
  /\ link = [c \in Connections |-> "new"]
  /\ to_ctl = [c \in Connections |-> <<>>] /\ to_switch = [c \in Connections |-> <<>>]
  /\ sw = [c \in Connections |-> [ports |-> switches.ports, hellos |-> switches.hellos,
                                  changes |-> switches.changes, stats |-> switches.stats]]
  /\ con = [c \in Connections |-> NewConnection]
  /\ nexus = [d \in Dpids |-> NoConnection]
  /\ raised = [c \in Connections |-> "quiet"]
  /\ deferred = [c \in Connections |-> <<>>] /\ sending = FALSE /\ sender_alive = TRUE /\ cut_off = {}
  /\ received = [c \in Connections |-> <<>>]
  /\ running = TRUE

(* Messages reach a switch that is still there.                            *)
Deliver(c, ms) ==
  to_switch' = IF link[c] = "open" THEN [to_switch EXCEPT ![c] = @ \o ms] ELSE to_switch

(* Fault: sending is not set.                                              *)
Transmit_unnoted(c, ms, later) ==
  IF ms # <<>> /\ (sending \/ later)
  THEN deferred' = [deferred EXCEPT ![c] = @ \o ms] /\ UNCHANGED <<sending, to_switch>>
  ELSE Deliver(c, ms) /\ UNCHANGED <<deferred, sending>>

(* The rest of Connection.send: later is a send that was not complete.     *)
Transmit(c, ms, later) ==
  IF ms # <<>> /\ (sending \/ later)
  THEN /\ deferred' = [deferred EXCEPT ![c] = @ \o ms] /\ sending' = TRUE /\ UNCHANGED to_switch
  ELSE Deliver(c, ms) /\ UNCHANGED <<deferred, sending>>
Apply(c, w) ==
  /\ con' = [con EXCEPT ![c] = w.con] /\ nexus' = w.nexus
  /\ raised' = [raised EXCEPT ![c] = w.raised]
Write(c, ms) == to_ctl' = [to_ctl EXCEPT ![c] = @ \o ms]

(* The task accepts a connection; Connection.__init__ sends a HELLO.       *)
Accept(c) ==
  /\ running /\ c \in DOMAIN switches.dpid /\ link[c] = "new" /\ link' = [link EXCEPT ![c] = "open"]
  /\ con' = [con EXCEPT ![c].open = TRUE]
  /\ IF sending THEN deferred' = [deferred EXCEPT ![c] = <<[t |-> "HELLO"]>>] /\ UNCHANGED to_switch
                ELSE to_switch' = [to_switch EXCEPT ![c] = <<[t |-> "HELLO"]>>] /\ UNCHANGED deferred
  /\ UNCHANGED <<switches, to_ctl, sw, nexus, raised, sending, sender_alive, cut_off, received, running>>

(* The switch (external): it greets, answers, reports its ports and        *)
(* statistics, and leaves.                                                 *)
Greet(c) ==
  /\ link[c] = "open" /\ sw[c].hellos > 0
  /\ sw' = [sw EXCEPT ![c].hellos = @ - 1]
  /\ Write(c, <<[t |-> "HELLO"]>>)
  /\ UNCHANGED <<switches, link, to_switch, controller>>

answer(c, m) ==
  CASE m.t = "FEATURES_REQUEST" ->
         {<<[t |-> "FEATURES_REPLY", dpid |-> switches.dpid[c], ports |-> sw[c].ports]>>}
    [] m.t = "BARRIER_REQUEST" ->
         {<<[t |-> "BARRIER_REPLY", xid |-> m.xid]>>, <<[t |-> "ERROR", xid |-> m.xid]>>}
    [] OTHER -> {<<>>}

Answer(c) ==
  /\ link[c] = "open" /\ to_switch[c] # <<>>
  /\ \E ms \in answer(c, Head(to_switch[c])) : Write(c, ms)
  /\ to_switch' = [to_switch EXCEPT ![c] = Tail(@)]
  /\ UNCHANGED <<switches, link, sw, controller>>

port_status(p, deleted, up) == <<[t |-> "PORT_STATUS", port |-> p, deleted |-> deleted, up |-> up]>>

(* A port changes its state, goes, or comes (back).                        *)
ReportPort(c) ==
  /\ link[c] = "open" /\ sw[c].hellos = 0 /\ sw[c].changes > 0
  /\ \E p \in DOMAIN switches.ports \cup {0}, deleted \in BOOLEAN :
       LET now == sw[c].ports
           up == p \notin DOMAIN now \/ ~now[p]
           rest == [q \in DOMAIN now \ {p} |-> now[q]]
       IN /\ deleted => p \in DOMAIN now
          /\ sw' = [sw EXCEPT ![c].changes = @ - 1,
                              ![c].ports = IF deleted THEN rest ELSE _update(now, p, up)]
          /\ Write(c, port_status(p, deleted, up))
  /\ UNCHANGED <<switches, link, to_switch, controller>>

SendStats(c) ==
  /\ link[c] = "open" /\ sw[c].stats # <<>>
  /\ sw' = [sw EXCEPT ![c].stats = Tail(@)]
  /\ Write(c, <<[t |-> "ECHO_REQUEST"], Head(sw[c].stats)>>)
  /\ UNCHANGED <<switches, link, to_switch, controller>>

Leave(c) ==
  /\ link[c] = "open" /\ link' = [link EXCEPT ![c] = "gone"]
  /\ to_switch' = [to_switch EXCEPT ![c] = <<>>]
  /\ UNCHANGED <<switches, to_ctl, sw, controller>>

(* The handler of a message, from the handlers' table.                     *)
handled(c, w, m, fails) ==
  CASE m.t = "HELLO" -> handle_HELLO(c, w, fails)
    [] m.t = "ECHO_REQUEST" -> handle_ECHO_REQUEST(c, w, fails)
    [] m.t = "FEATURES_REPLY" -> handle_FEATURES_REPLY(c, w, m, fails)
    [] m.t = "BARRIER_REPLY" -> handle_BARRIER(c, w, m)
    [] m.t = "ERROR" -> handle_ERROR_MSG(c, w, m)
    [] m.t = "PORT_STATUS" -> handle_PORT_STATUS(c, w, m)
    [] m.t = "STATS_REPLY" ->
         [w EXCEPT !.con.previous_stats = incoming_stats_reply(@, m).previous]

(* Connection.read, for one message.  What was in the socket is read after *)
(* a disconnect too.                                                       *)
Read(c) ==
  /\ running /\ con[c].open /\ to_ctl[c] # <<>>
  /\ LET m == Head(to_ctl[c])
     IN /\ \E fails \in {FALSE, (link[c] = "gone" /\ ~sending)}, later \in BOOLEAN :
             LET w == handled(c, Now(c), m, fails)
             IN Apply(c, w) /\ Transmit(c, w.out, later)
        /\ received' = IF m.t = "STATS_REPLY"
                       THEN [received EXCEPT ![c] = incoming_stats_reply(con[c].previous_stats, m).event]
                       ELSE received
  /\ to_ctl' = [to_ctl EXCEPT ![c] = Tail(@)]
  /\ UNCHANGED <<switches, link, sw, sender_alive, cut_off, running>>

(* read returns False at the end of the stream or after a reset, which     *)
(* loses what is in the socket; the task closes the connection.            *)
CloseConnection(c) ==
  /\ running /\ con[c].open
  /\ link[c] = "gone" \/ (con[c].disconnected /\ to_ctl[c] = <<>>)
  /\ LET w == disconnect(c, Now(c), FALSE)
     IN Apply(c, [w EXCEPT !.con.open = FALSE])
  /\ link' = [link EXCEPT ![c] = "gone"] /\ to_ctl' = [to_ctl EXCEPT ![c] = <<>>]
  /\ to_switch' = [to_switch EXCEPT ![c] = <<>>]
  /\ UNCHANGED <<switches, sw, deferred, sending, sender_alive, cut_off, received, running>>

(* DeferredSender.run: a message is sent, and when all are, sending ends;  *)
(* or the socket fails, and the thread disconnects and drops the data, but *)
(* goes on sending for the others; or select has the connection in elist,  *)
(* and its data is dropped without a word.                                 *)
DeferredSend(c) ==
  /\ running /\ sender_alive /\ deferred[c] # <<>>
  /\ \/ /\ con[c].open /\ ~con[c].disconnected
        /\ deferred' = [deferred EXCEPT ![c] = Tail(@)]
        /\ sending' = \E d \in Connections : deferred'[d] # <<>>
        /\ Deliver(c, <<Head(deferred[c])>>)
        /\ UNCHANGED <<con, nexus, raised, cut_off>>
     \/ /\ link[c] = "gone" \/ con[c].disconnected
        /\ Apply(c, disconnect(c, Now(c), FALSE))
        /\ deferred' = [deferred EXCEPT ![c] = <<>>]
        /\ cut_off' = cut_off \cup {c}
        /\ UNCHANGED <<sending, to_switch>>
     \/ /\ link[c] = "gone"
        /\ deferred' = [deferred EXCEPT ![c] = <<>>]
        /\ UNCHANGED <<con, nexus, raised, cut_off, sending, to_switch>>
  /\ UNCHANGED <<switches, link, to_ctl, sw, sender_alive, received, running>>

(* The task closes a connection without telling the DeferredSender, whose  *)
(* kill is commented out.  select raises on the closed socket, nothing     *)
(* catches that, and the thread ends with sending as it was.               *)
SelectFails(c) ==
  /\ running /\ sender_alive /\ deferred[c] # <<>> /\ ~con[c].open
  /\ sender_alive' = FALSE
  /\ UNCHANGED <<switches, link, to_ctl, to_switch, sw, con, nexus, raised, deferred, sending, cut_off,
                 received, running>>

(* Another thread (the client of chirouter) sends to the switch it knows,  *)
(* which is gone.                                                          *)
SendFromThread(c) ==
  /\ running /\ con[c].connected /\ link[c] = "gone" /\ ~con[c].disconnected /\ ~sending
  /\ Apply(c, send(c, Now(c), <<>>, TRUE))
  /\ UNCHANGED <<switches, link, to_ctl, to_switch, sw, deferred, sending, sender_alive, cut_off, received,
                 running>>

(* OpenFlowNexus._handle_DownEvent, after the task and the threads ended.  *)
HandleDownEvent ==
  LET closed == {c \in Connections : \E d \in Dpids : nexus[d] = c}
      w(c) == disconnect(c, Now(c), FALSE)
  IN /\ running /\ running' = FALSE
     /\ con' = [c \in Connections |-> IF c \in closed THEN w(c).con ELSE con[c]]
     /\ raised' = [c \in Connections |-> IF c \in closed THEN w(c).raised ELSE raised[c]]
     /\ nexus' = [d \in Dpids |-> IF \E c \in closed : con[c].dpid = d THEN NoConnection ELSE nexus[d]]
     /\ UNCHANGED <<switches, link, to_ctl, to_switch, sw, deferred, sending, sender_alive, cut_off, received>>

Next ==
  \/ \E c \in Connections :
       \/ Accept(c) \/ Greet(c) \/ Answer(c) \/ ReportPort(c) \/ SendStats(c) \/ Leave(c)
       \/ Read(c) \/ CloseConnection(c) \/ DeferredSend(c) \/ SelectFails(c) \/ SendFromThread(c)
  \/ HandleDownEvent

(* The task selects on every socket, the thread on every socket with data  *)
(* as long as it lives, and a switch that is there greets and answers.     *)
Fairness ==
  \A c \in Connections :
    /\ WF_vars(Read(c)) /\ WF_vars(CloseConnection(c)) /\ WF_vars(DeferredSend(c))
    /\ WF_vars(Answer(c)) /\ WF_vars(Greet(c))

Spec == Init /\ [][Next]_vars /\ Fairness

-----------------------------------------------------------------------------
(* Each variable has its type, and nothing waits for a barrier that was    *)
(* not asked for.                                                          *)
TypeOK ==
  /\ \A c \in Connections :
       /\ link[c] \in {"new", "open", "gone"} /\ raised[c] \in {"quiet", "up", "down", "again"}
       /\ con[c].dpid \in Dpids \cup {NoDpid}
       /\ con[c].waiting \subseteq 1..con[c].barriers
       /\ con[c].disconnection_raised => con[c].disconnected
       /\ deferred[c] # <<>> => sending
  /\ nexus \in [Dpids -> Connections \cup {NoConnection}]

(* The switches that greet once, as the protocol asks.                     *)
Polite == switches.hellos = 1

(* finish_connecting, disconnect and close raise the events as             *)
(* ConnectionEvents promises.  The two cases the code gets wrong are left  *)
(* out: a switch that greets twice, and a connection the DeferredSender    *)
(* disconnects while a barrier reply may be in the socket.                 *)
Events == INSTANCE ConnectionEvents WITH
  status <- [c \in Connections |->
               IF ~Polite THEN "quiet" ELSE IF c \in cut_off THEN "down" ELSE raised[c]]
Lifecycle == Events!Spec

(* core.openflow.connections, which sendToDPID and the components use, has *)
(* no connection that is closed, and has every connection that is up, as   *)
(* long as its switch has not come back on another one.                    *)
NexusHonest ==
  Polite =>
    /\ \A d \in Dpids : nexus[d] # NoConnection => con[nexus[d]].open /\ con[nexus[d]].dpid = d
    /\ \A c \in Connections :
         (raised[c] = "up" /\ ~con[c].disconnected
            /\ \A b \in Connections \ {c} : con[b].dpid # con[c].dpid)
         => nexus[con[c].dpid] = c

(* The connection is closed, and the DeferredSender has nothing for it.    *)
Done(b) == con[b].disconnected /\ ~con[b].open /\ deferred[b] = <<>>

(* A switch may come back as often as it likes: a connection in the nexus  *)
(* stays there until it is disconnected itself, or until another one of    *)
(* the same switch interferes that disconnect may still be called for.     *)
StaysRegistered ==
  [][\A c \in Connections, d \in Dpids :
       nexus[d] = c => \/ nexus'[d] = c \/ con'[c].disconnected
                       \/ \E b \in Connections \ {c} : con'[b].dpid = d /\ ~Done(b)]_vars

(* Once handle_FEATURES_REPLY and handle_PORT_STATUS have seen what the    *)
(* switch sent, con.ports has each of its ports in its present state.      *)
(* Ports that the switch has no more may be left in it.                    *)
PortsKnown ==
  \A c \in Connections :
    (con[c].connected /\ to_ctl[c] = <<>> /\ link[c] = "open") =>
      \A p \in DOMAIN sw[c].ports : p \in DOMAIN con[c].ports /\ con[c].ports[p] = sw[c].ports[p]

(* A statistics event has all the parts of one reply, in order, also when  *)
(* a reply of one part came between them.                                  *)
StatsWhole ==
  \A c \in Connections : received[c] # <<>> =>
    LET parts == received[c]
    IN /\ parts[Len(parts)].last
       /\ \A i \in DOMAIN parts : parts[i].xid = parts[1].xid /\ parts[i].part = i

(* A switch that greets and stays is announced with ConnectionUp, with or  *)
(* without barriers, and whatever the DeferredSender has to do, as long as *)
(* its thread lives.                                                       *)
Established ==
  \A c \in Connections :
    (link[c] = "open" /\ Polite) ~> (raised[c] # "quiet" \/ link[c] = "gone" \/ ~running \/ ~sender_alive)

(* "Class that handles sending when a socket write didn't complete": what  *)
(* is left to the DeferredSender is sent sooner or later to a switch that  *)
(* stays.                                                                  *)
DeferredSent ==
  \A c \in Connections : deferred[c] # <<>> ~> (deferred[c] = <<>> \/ link[c] = "gone" \/ ~running)

(* A switch that was announced and has left is announced as down, also     *)
(* when a failed send was the first to notice, unless the DeferredSender   *)
(* had announced that before the switch was announced.                     *)
DownFollows ==
  \A c \in Connections :
    (raised[c] = "up" /\ link[c] = "gone" /\ Polite) ~> (raised[c] = "down" \/ c \in cut_off \/ ~running)

(* "Get the Connection object associated with a DPID": getConnection finds *)
(* one for every switch that is up, also for one that has come back while  *)
(* its old connection was open.                                            *)
ConnectionFound ==
  \A c \in Connections :
    (Polite /\ raised[c] = "up" /\ ~con[c].disconnected) => nexus[con[c].dpid] # NoConnection

(* "Send data to a specific DPID": sendToDPID returns True for a switch it *)
(* finds, and warns that "we're not connected to it" otherwise, so what it *)
(* finds has not been closed, also when the switch has greeted twice.      *)
FoundIsOpen == \A d \in Dpids : nexus[d] # NoConnection => con[nexus[d]].open

(* "Event raised when the connection to an OpenFlow switch has been lost": *)
(* no connection is announced as up after it was announced as lost, also   *)
(* when the DeferredSender was the one to lose it.                         *)
LostIsLost == [][\A c \in Connections : Polite /\ raised[c] = "down" => raised'[c] = "down"]_vars

(* "Keeps track of lists of ports": when handle_PORT_STATUS has seen all   *)
(* that the switch sent, con.ports has no port that the switch has not.    *)
PortsForgotten ==
  \A c \in Connections :
    (con[c].connected /\ to_ctl[c] = <<>> /\ link[c] = "open") =>
      DOMAIN con[c].ports \subseteq DOMAIN sw[c].ports

(* What components find in core.openflow and in a connection is right.     *)
ViewRight == TypeOK /\ NexusHonest /\ PortsKnown /\ StatsWhole

(* Switches are announced when they come and when they go.                 *)
Announced == Established /\ DownFollows
=============================================================================
