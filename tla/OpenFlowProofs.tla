--------------------------- MODULE OpenFlowProofs ---------------------------
(***************************************************************************)
(* The controller's view of its switches is right, and components hear of  *)
(* a connection as ConnectionEvents promises: for any set of connections,  *)
(* datapaths and switches.                                                 *)
(***************************************************************************)
EXTENDS OpenFlow, TLAPS

-----------------------------------------------------------------------------
(* The messages in each direction, and the records that are kept.          *)
Port == (UNION {DOMAIN s.ports : s \in Switches}) \cup {0}
PortMap == UNION {[S -> BOOLEAN] : S \in SUBSET Port}

ToCtl ==
  [t: {"HELLO", "ECHO_REQUEST"}]
    \cup [t: {"FEATURES_REPLY"}, dpid: Dpids, ports: PortMap]
    \cup [t: {"BARRIER_REPLY", "ERROR"}, xid: Nat]
    \cup [t: {"PORT_STATUS"}, port: Port, deleted: BOOLEAN, up: BOOLEAN]
    \cup StatsPart
ToSwitch ==
  [t: {"HELLO", "ECHO_REPLY", "SET_CONFIG", "FLOW_MOD", "FEATURES_REQUEST"}]
    \cup [t: {"BARRIER_REQUEST"}, xid: Nat]

Connection ==
  [open: BOOLEAN, disconnected: BOOLEAN, disconnection_raised: BOOLEAN,
   dpid: Dpids \cup {NoDpid}, connected: BOOLEAN, has_nexus: BOOLEAN, barriers: Nat,
   waiting: SUBSET Nat, ports: PortMap, previous_stats: Seq(StatsPart)]
Nexus == [Dpids -> Connections \cup {NoConnection}]
Event == {"quiet", "up", "down", "again"}
Switch == [ports: PortMap, hellos: Nat, changes: Nat, stats: Seq(StatsPart)]

Types ==
  /\ switches \in Switches
  /\ link \in [Connections -> {"new", "open", "gone"}]
  /\ to_ctl \in [Connections -> Seq(ToCtl)]
  /\ to_switch \in [Connections -> Seq(ToSwitch)]
  /\ sw \in [Connections -> Switch]
  /\ con \in [Connections -> Connection]
  /\ nexus \in Nexus
  /\ raised \in [Connections -> Event]
  /\ deferred \in [Connections -> Seq(ToSwitch)]
  /\ sending \in BOOLEAN /\ running \in BOOLEAN
  /\ received \in [Connections -> Seq(StatsPart)]

(* A connection not yet accepted is as new.                                *)
Fresh(c) ==
  link[c] = "new" =>
    /\ con[c] = NewConnection /\ to_ctl[c] = <<>> /\ to_switch[c] = <<>>
    /\ deferred[c] = <<>>
    /\ sw[c].stats = switches.stats

(* What a connection holds of the datapath, the nexus and the barriers.    *)
Kept(c) ==
  /\ con[c].waiting \subseteq 1..con[c].barriers
  /\ con[c].disconnection_raised => con[c].disconnected
  /\ deferred[c] # <<>> => sending
  /\ con[c].dpid # NoDpid \/ con[c].waiting # {} \/ con[c].connected => con[c].has_nexus
  /\ \A d \in Dpids : nexus[d] = c => con[c].has_nexus
  /\ link[c] # "new" => c \in DOMAIN switches.dpid

(* The messages about port p, and what the last of them says.              *)
About(m, p) == m.t = "FEATURES_REPLY" \/ (m.t = "PORT_STATUS" /\ m.port = p)
Says(m, p, up) ==
  IF m.t = "FEATURES_REPLY" THEN p \in DOMAIN m.ports /\ m.ports[p] = up
                            ELSE ~m.deleted /\ m.up = up
LastAbout(s, i, p) ==
  About(s[i], p) /\ \A k \in DOMAIN s : k > i => ~About(s[k], p)

(* The ports that POX knows of will be those of the switch, when it has    *)
(* read the messages s.                                                    *)
Follows(s, known, has_nexus, ports) ==
  \A p \in DOMAIN ports :
    /\ \A i \in DOMAIN s : LastAbout(s, i, p) => Says(s[i], p, ports[p])
    /\ (has_nexus /\ \A i \in DOMAIN s : ~About(s[i], p))
         => p \in DOMAIN known /\ known[p] = ports[p]
PortsFollow(c) ==
  link[c] = "open" => Follows(to_ctl[c], con[c].ports, con[c].has_nexus, sw[c].ports)

(* The parts left to send are the last ones of all.                        *)
Rest(all, left) ==
  /\ Len(left) <= Len(all)
  /\ \A k \in 1..Len(left) : left[k] = all[Len(all) - Len(left) + k]

(* The statistics in s are those before the ones left to send: with the    *)
(* first i messages of s, at[i] parts have gone.                           *)
Numbered(s, all, left, at) ==
  /\ at[Len(s)] = Len(all) - Len(left)
  /\ \A i \in 1..Len(s) :
       IF s[i].t = "STATS_REPLY" THEN at[i] = at[i - 1] + 1 /\ s[i] = all[at[i]]
                                 ELSE at[i] = at[i - 1]

(* The parts that are kept are those of the one unfinished reply.          *)
Collected(prev, all, n) ==
  /\ prev = <<>> => \A j \in 1..n : ~Unfinished(all, j, n)
  /\ prev # <<>> =>
       \E j \in 1..n : /\ Unfinished(all, j, n) /\ all[j].part = Len(prev)
                       /\ \A i \in DOMAIN prev : prev[i].xid = all[j].xid /\ prev[i].part = i

Whole(parts) ==
  parts # <<>> =>
    /\ parts[Len(parts)].last
    /\ \A i \in DOMAIN parts : parts[i].xid = parts[1].xid /\ parts[i].part = i

Awaits(s, all, left, prev) ==
  \E at \in [0..Len(s) -> 0..Len(all)] :
    Numbered(s, all, left, at) /\ Collected(prev, all, at[0])

StatsFollow(c) ==
  /\ Rest(switches.stats, sw[c].stats)
  /\ con[c].open \/ link[c] = "new" =>
       Awaits(to_ctl[c], switches.stats, sw[c].stats, con[c].previous_stats)
  /\ link[c] = "open" => con[c].open
  /\ Whole(received[c])

-----------------------------------------------------------------------------
(* The messages that lead up to the features reply: of a polite switch     *)
(* there is one at a time.                                                 *)
First == {"HELLO", "FEATURES_REPLY"}
Request == {"FEATURES_REQUEST"}
Holds(s, T) == \E i \in DOMAIN s : s[i].t \in T
Single(s, T) == \A i, j \in DOMAIN s : s[i].t \in T /\ s[j].t \in T => i = j
Early(c) ==
  \/ sw[c].hellos # 0 \/ Holds(to_ctl[c], First)
  \/ Holds(to_switch[c], Request) \/ Holds(deferred[c], Request)

OneEarly(c) ==
  /\ sw[c].hellos \in {0, 1}
  /\ Single(to_ctl[c], First) /\ Single(to_switch[c], Request) /\ Single(deferred[c], Request)
  /\ sw[c].hellos = 1 => ~Holds(to_ctl[c], First)
  /\ sw[c].hellos = 1 \/ Holds(to_ctl[c], First) => ~Holds(to_switch[c], Request)
  /\ sw[c].hellos = 1 \/ Holds(to_ctl[c], First) \/ Holds(to_switch[c], Request)
       => ~Holds(deferred[c], Request)

Unknown(c) ==
  /\ con[c].dpid = NoDpid /\ con[c].barriers = 0 /\ raised[c] = "quiet"
  /\ ~con[c].has_nexus /\ ~con[c].disconnection_raised

(* Every barrier of a polite switch is the first one.                      *)
FirstXid(s) == \A i \in DOMAIN s : s[i].t \in {"BARRIER_REQUEST", "BARRIER_REPLY", "ERROR"} => s[i].xid = 1
OneBarrier(c) ==
  /\ con[c].barriers \in {0, 1}
  /\ FirstXid(to_ctl[c]) /\ FirstXid(to_switch[c]) /\ FirstXid(deferred[c])

(* The events of a connection that the DeferredSender has not cut off.     *)
InOrder(c) ==
  c \notin cut_off =>
    /\ raised[c] # "again"
    /\ raised[c] = "down" => con[c].disconnection_raised
    /\ con[c].waiting # {} /\ con[c].open /\ running => raised[c] = "quiet"

(* The nexus has the connections that are registered, and only those.      *)
Registered(c) ==
  /\ \A d \in Dpids : nexus[d] = c => con[c].open /\ con[c].dpid = d
  /\ con[c].has_nexus \/ raised[c] = "up" => con[c].dpid # NoDpid
  /\ (/\ con[c].dpid # NoDpid /\ ~con[c].disconnected
      /\ \A b \in Connections \ {c} : con[b].dpid # con[c].dpid) => nexus[con[c].dpid] = c

Courteous(c) ==
  /\ OneEarly(c) /\ (Early(c) => Unknown(c)) /\ OneBarrier(c) /\ InOrder(c)
  /\ Registered(c)

Basics == Types /\ \A c \in Connections : Fresh(c) /\ Kept(c)
PortsInv == \A c \in Connections : PortsFollow(c)
StatsInv == \A c \in Connections : StatsFollow(c)
PoliteInv == Polite => \A c \in Connections : Courteous(c)
OInv == Basics /\ PortsInv /\ StatsInv /\ PoliteInv
-----------------------------------------------------------------------------
(* The world of a handler: Now(c) and what the handlers make of it.        *)
World == [con: Connection, nexus: Nexus, raised: Event, out: Seq(ToSwitch)]

(* Two states of a connection that differ at most in its being closed.     *)
Alike(p, q) ==
  /\ p.open = q.open /\ p.dpid = q.dpid /\ p.connected = q.connected
  /\ p.has_nexus = q.has_nexus /\ p.barriers = q.barriers /\ p.waiting = q.waiting
  /\ p.ports = q.ports /\ p.previous_stats = q.previous_stats

(* What is left of the nexus when x's connection has disconnected.         *)
Without(x) ==
  IF x.con.has_nexus /\ x.con.dpid # NoDpid
  THEN [x.nexus EXCEPT ![x.con.dpid] = NoConnection] ELSE x.nexus

(* A new connection is one.                                                *)
LEMMA NewType == NewConnection \in Connection
<1>1. <<>> \in PortMap
  <2>1. <<>> \in [{} -> BOOLEAN]
    OBVIOUS
  <2> QED
    BY <2>1 DEF PortMap
<1> QED
  BY <1>1 DEF NewConnection, Connection, NoDpid

(* A handler starts from a world.                                          *)
LEMMA NowType ==
  ASSUME Types, NEW c \in Connections
  PROVE  Now(c) \in World
  BY DEF Types, Now, World

(* From x to y: Connection.disconnect, with its event or without.          *)
Closed(x, y, defer) ==
  /\ y \in World /\ Alike(y.con, x.con) /\ y.out = x.out
  /\ y.con.disconnected /\ y.nexus = Without(x)
  /\ y.con.disconnection_raised
       <=> x.con.disconnection_raised \/ (x.con.dpid # NoDpid /\ ~defer)
  /\ y.raised = IF x.con.dpid # NoDpid /\ ~x.con.disconnection_raised /\ ~defer
                THEN Raise(x.raised, "down") ELSE x.raised

LEMMA DisconnectResult ==
  ASSUME NEW c, NEW x \in World, NEW defer \in BOOLEAN
  PROVE  Closed(x, disconnect(c, x, defer), defer)
<1> DEFINE y == disconnect(c, x, defer)
           known == x.con.dpid # NoDpid
           raises == known /\ ~x.con.disconnection_raised /\ ~defer
           k == [x.con EXCEPT !.disconnected = TRUE, !.disconnection_raised = @ \/ raises]
           n == IF x.con.has_nexus /\ known THEN [x.nexus EXCEPT ![x.con.dpid] = NoConnection]
                                           ELSE x.nexus
           r == IF raises THEN Raise(x.raised, "down") ELSE x.raised
<1>1. x.con \in Connection /\ x.nexus \in Nexus /\ x.raised \in Event /\ x.out \in Seq(ToSwitch)
  BY DEF World
<1>2. k \in Connection /\ Alike(k, x.con) /\ k.disconnected
      /\ (k.disconnection_raised <=> (x.con.disconnection_raised \/ raises))
  BY <1>1 DEF Connection, Alike
<1>3. n \in Nexus
  BY <1>1 DEF Nexus
<1>4. r \in Event
  BY <1>1 DEF Raise, Event
<1>5. y = [x EXCEPT !.con = k, !.nexus = n, !.raised = r]
  BY DEF disconnect, World
<1> HIDE DEF y, k, n, r
<1>6. y \in World /\ y.con = k /\ y.nexus = n /\ y.raised = r /\ y.out = x.out
  BY <1>1, <1>2, <1>3, <1>4, <1>5 DEF World
<1>7. Closed(x, y, defer)
  BY <1>2, <1>6 DEF n, r, Without, Closed
<1> QED
  BY <1>7 DEF y

(* From x to y: Connection.send of ms.  They are sent, or the connection   *)
(* is or was disconnected, with no event either way.                       *)
Sent(x, y, ms) ==
  /\ y \in World /\ Alike(y.con, x.con) /\ y.raised = x.raised
  /\ y.con.disconnection_raised <=> x.con.disconnection_raised
  /\ x.con.disconnected => y.con.disconnected
  /\ \/ y.con.disconnected /\ y.out = x.out /\ y.nexus \in {x.nexus, Without(x)}
     \/ y.con = x.con /\ y.out = x.out \o ms /\ y.nexus = x.nexus

LEMMA SendResult ==
  ASSUME NEW c, NEW x \in World, NEW ms \in Seq(ToSwitch), NEW fails \in BOOLEAN
  PROVE  Sent(x, send(c, x, ms, fails), ms)
<1> DEFINE y == send(c, x, ms, fails)
<1>1. CASE x.con.disconnected
  BY <1>1 DEF send, Alike, Sent
<1>2. CASE ~x.con.disconnected /\ fails
  <2>1. y = disconnect(c, x, TRUE)
    BY <1>2 DEF send
  <2>2. Closed(x, y, TRUE)
    BY <2>1, DisconnectResult
  <2> HIDE DEF y
  <2>3. Sent(x, y, ms)
    BY <2>2 DEF Closed, Sent
  <2> QED
    BY <2>3 DEF y
<1>3. CASE ~x.con.disconnected /\ ~fails
  <2>1. y = [x EXCEPT !.out = @ \o ms]
    BY <1>3 DEF send
  <2>2. x.out \o ms \in Seq(ToSwitch)
    BY DEF World
  <2> HIDE DEF y
  <2>3. y \in World /\ y.con = x.con /\ y.nexus = x.nexus /\ y.raised = x.raised
        /\ y.out = x.out \o ms
    BY <2>1, <2>2 DEF World
  <2>4. Sent(x, y, ms)
    BY <2>3, <1>3 DEF Alike, Sent
  <2> QED
    BY <2>4 DEF y
<1> QED
  BY <1>1, <1>2, <1>3

-----------------------------------------------------------------------------
(* The handlers, one lemma each, from Now(c) to the world w they leave.    *)

(* handle_HELLO and handle_ECHO_REQUEST send one message.                  *)
Reply(m) == IF m.t = "HELLO" THEN <<[t |-> "FEATURES_REQUEST"]>> ELSE <<[t |-> "ECHO_REPLY"]>>

LEMMA GreetingHandled ==
  ASSUME Types, NEW c \in Connections, NEW m, NEW fails \in BOOLEAN,
         m.t \in {"HELLO", "ECHO_REQUEST"}
  PROVE  Sent(Now(c), handled(c, Now(c), m, fails), Reply(m))
<1>1. Reply(m) \in Seq(ToSwitch)
  <2>1. [t |-> "FEATURES_REQUEST"] \in ToSwitch /\ [t |-> "ECHO_REPLY"] \in ToSwitch
    BY DEF ToSwitch
  <2> QED
    BY <2>1 DEF Reply
<1>2. handled(c, Now(c), m, fails) = send(c, Now(c), Reply(m), fails)
  BY DEF handled, handle_HELLO, handle_ECHO_REQUEST, Reply
<1> QED
  BY <1>1, <1>2, NowType, SendResult

(* handle_FEATURES_REPLY registers the connection, and before the first    *)
(* barrier reply also asks for a barrier.                                  *)
Featured(c, m, w) ==
  LET n == con[c].barriers + 1
      registered == [nexus EXCEPT ![m.dpid] = c]
  IN /\ w \in World /\ w.raised = raised[c]
     /\ w.con.open = con[c].open /\ w.con.dpid = m.dpid
     /\ w.con.connected = con[c].connected
     /\ w.con.has_nexus /\ w.con.ports = m.ports
     /\ w.con.previous_stats = con[c].previous_stats
     /\ IF con[c].connected
        THEN w.con.barriers = con[c].barriers /\ w.con.waiting = con[c].waiting
        ELSE w.con.barriers = n /\ w.con.waiting = con[c].waiting \cup {n}
     /\ w.con.disconnection_raised <=> con[c].disconnection_raised
     /\ con[c].disconnected => w.con.disconnected
     /\ w.out \in {<<>>, <<[t |-> "SET_CONFIG"], [t |-> "FLOW_MOD"],
                           [t |-> "BARRIER_REQUEST", xid |-> n]>>}
     /\ w.nexus \in {registered, [nexus EXCEPT ![m.dpid] = NoConnection]}
     /\ ~w.con.disconnected => w.nexus = registered

LEMMA FeaturesHandled ==
  ASSUME Types, NEW c \in Connections, NEW m \in ToCtl, NEW fails \in BOOLEAN,
         m.t = "FEATURES_REPLY"
  PROVE  Featured(c, m, handled(c, Now(c), m, fails)) /\ m.dpid \in Dpids
<1> DEFINE w == handled(c, Now(c), m, fails)
           n == con[c].barriers + 1
           registered == [nexus EXCEPT ![m.dpid] = c]
           k == [con[c] EXCEPT !.ports = m.ports, !.dpid = m.dpid, !.has_nexus = TRUE]
           k2 == [k EXCEPT !.barriers = n, !.waiting = @ \cup {n}]
           x == [Now(c) EXCEPT !.con.ports = m.ports, !.con.dpid = m.dpid,
                               !.con.has_nexus = TRUE, !.nexus = [@ EXCEPT ![m.dpid] = c]]
           x2 == [x EXCEPT !.con.barriers = n, !.con.waiting = @ \cup {n}]
           ms == <<[t |-> "SET_CONFIG"], [t |-> "FLOW_MOD"],
                   [t |-> "BARRIER_REQUEST", xid |-> n]>>
<1>1. m.dpid \in Dpids /\ m.ports \in PortMap /\ m.dpid # NoDpid
  BY SwitchesAssumption DEF ToCtl, StatsPart
<1>2. con[c] \in Connection /\ nexus \in Nexus /\ raised[c] \in Event
      /\ con[c].barriers \in Nat /\ n \in Nat /\ con[c].waiting \in SUBSET Nat
  BY DEF Types, Connection
<1>3. registered \in Nexus
  BY <1>1, <1>2 DEF Nexus
<1>4. /\ k \in Connection /\ k.open = con[c].open /\ k.dpid = m.dpid
      /\ k.connected = con[c].connected /\ k.has_nexus /\ k.ports = m.ports
      /\ k.previous_stats = con[c].previous_stats
      /\ k.barriers = con[c].barriers /\ k.waiting = con[c].waiting
      /\ k.disconnection_raised <=> con[c].disconnection_raised
      /\ k.disconnected <=> con[c].disconnected
  BY <1>1, <1>2 DEF Connection
<1>0. /\ Now(c) \in World /\ Now(c).con = con[c] /\ Now(c).nexus = nexus
      /\ Now(c).raised = raised[c] /\ Now(c).out = <<>>
  BY NowType DEF Now
<1>5. x = [Now(c) EXCEPT !.con = k, !.nexus = registered]
  BY <1>0 DEF World
<1> HIDE DEF k, registered, n, x
<1>6. x \in World /\ x.con = k /\ x.nexus = registered /\ x.raised = raised[c] /\ x.out = <<>>
  BY <1>0, <1>2, <1>3, <1>4, <1>5 DEF World
<1>7. /\ k2 \in Connection /\ k2.open = k.open /\ k2.dpid = k.dpid
      /\ k2.connected = k.connected /\ k2.has_nexus = k.has_nexus /\ k2.ports = k.ports
      /\ k2.previous_stats = k.previous_stats
      /\ k2.barriers = n /\ k2.waiting = k.waiting \cup {n}
      /\ k2.disconnection_raised <=> k.disconnection_raised
      /\ k2.disconnected <=> k.disconnected
  BY <1>2, <1>4 DEF Connection
<1>8. x2 = [x EXCEPT !.con = k2]
  BY <1>6 DEF World
<1> HIDE DEF k2
<1>9. x2 \in World /\ x2.con = k2 /\ x2.nexus = registered /\ x2.raised = raised[c]
      /\ x2.out = <<>>
  BY <1>6, <1>7, <1>8 DEF World
<1>10. ms \in Seq(ToSwitch) /\ <<>> \o ms = ms
  BY <1>2 DEF ToSwitch
<1>11. w = IF con[c].connected THEN x ELSE send(c, x2, ms, fails)
  BY <1>0 DEF handled, handle_FEATURES_REPLY, x, n
<1> HIDE DEF w, x2, ms
<1>12. CASE con[c].connected
  <2>1. w = x
    BY <1>11, <1>12
  <2>2. Featured(c, m, w)
    BY <1>1, <1>4, <1>6, <1>12, <2>1 DEF registered, Featured
  <2> QED
    BY <2>2, <1>1 DEF w
<1>13. CASE ~con[c].connected
  <2>1. Sent(x2, w, ms)
    BY <1>9, <1>10, <1>11, <1>13, SendResult
  <2>2. /\ w \in World /\ Alike(w.con, k2) /\ w.raised = raised[c]
        /\ w.con.disconnection_raised <=> k2.disconnection_raised
        /\ k2.disconnected => w.con.disconnected
        /\ w.nexus \in {registered, Without(x2)}
        /\ ~w.con.disconnected => w.nexus = registered
    BY <2>1, <1>9 DEF Sent
  <2>3. w.out \in {<<>>, ms}
    BY <2>1, <1>9, <1>10 DEF Sent
  <2>4. Without(x2) = [nexus EXCEPT ![m.dpid] = NoConnection]
    <3>1. Without(x2) = [registered EXCEPT ![m.dpid] = NoConnection]
      BY <1>9, <1>1, <1>4, <1>7 DEF Without
    <3> QED
      BY <3>1, <1>1, <1>2 DEF registered, Nexus
  <2>5. Featured(c, m, w)
    BY <1>1, <1>4, <1>7, <1>13, <2>2, <2>3, <2>4 DEF Alike, registered, ms, n, Featured
  <2> QED
    BY <2>5, <1>1 DEF w
<1> QED
  BY <1>12, <1>13

(* handle_BARRIER and handle_ERROR_MSG: a listener that waits for the xid  *)
(* finishes connecting; others that see a barrier give the connection up.  *)
Left(c, m) == con[c].waiting \ {m.xid}
Barriered(c, m, w) ==
  /\ w \in World /\ w.out = <<>> /\ w.nexus = nexus
  /\ w.con.open = con[c].open /\ w.con.has_nexus = con[c].has_nexus
  /\ w.con.barriers = con[c].barriers /\ w.con.ports = con[c].ports
  /\ w.con.previous_stats = con[c].previous_stats
  /\ w.con.connected => con[c].connected \/ con[c].waiting # {}
  /\ w.con.disconnection_raised <=> con[c].disconnection_raised
  /\ w.raised = IF m.xid \in con[c].waiting THEN Raise(raised[c], "up") ELSE raised[c]
  /\ \/ /\ w.con.dpid = con[c].dpid /\ w.con.waiting = Left(c, m)
        /\ w.con.disconnected <=> con[c].disconnected
     \/ /\ Left(c, m) # {} /\ w.con.dpid = NoDpid /\ w.con.waiting = {}
        /\ w.con.disconnected

LEMMA BarrierHandled ==
  ASSUME Types, NEW c \in Connections, NEW m \in ToCtl, NEW fails \in BOOLEAN,
         m.t \in {"BARRIER_REPLY", "ERROR"}
  PROVE  Barriered(c, m, handled(c, Now(c), m, fails)) /\ m.xid \in Nat
<1> DEFINE w == handled(c, Now(c), m, fails)
           x == Now(c)
           k == [con[c] EXCEPT !.connected = TRUE, !.waiting = @ \ {m.xid}]
           r == Raise(raised[c], "up")
           y == finish_connecting(c, x, m.xid)
           up == IF m.xid \in con[c].waiting THEN y ELSE x
           z == [up EXCEPT !.con.dpid = NoDpid, !.con.waiting = {}]
           kz == [up.con EXCEPT !.dpid = NoDpid, !.waiting = {}]
<1>1. m.xid \in Nat
  BY DEF ToCtl, StatsPart
<1>2. con[c] \in Connection /\ raised[c] \in Event /\ con[c].waiting \in SUBSET Nat
  BY DEF Types, Connection
<1>3. x \in World /\ x.con = con[c] /\ x.nexus = nexus /\ x.raised = raised[c] /\ x.out = <<>>
  BY NowType DEF Now
<1> HIDE DEF x
<1>4. /\ k \in Connection /\ k.open = con[c].open /\ k.dpid = con[c].dpid
      /\ k.connected /\ k.has_nexus = con[c].has_nexus /\ k.ports = con[c].ports
      /\ k.previous_stats = con[c].previous_stats /\ k.barriers = con[c].barriers
      /\ k.waiting = Left(c, m)
      /\ k.disconnection_raised <=> con[c].disconnection_raised
      /\ k.disconnected <=> con[c].disconnected
  BY <1>2 DEF Connection, Left
<1>5. r \in Event
  BY <1>2 DEF Raise, Event
<1>6. y = [x EXCEPT !.con = k, !.raised = r]
  BY <1>3 DEF finish_connecting, World
<1> HIDE DEF y, k, r
<1>7. y \in World /\ y.con = k /\ y.nexus = nexus /\ y.raised = r /\ y.out = <<>>
  BY <1>3, <1>4, <1>5, <1>6 DEF World
<1>8. /\ up \in World /\ up.nexus = nexus /\ up.out = <<>> /\ up.con \in Connection
      /\ up.raised = IF m.xid \in con[c].waiting THEN Raise(raised[c], "up") ELSE raised[c]
  BY <1>3, <1>7, <1>2, <1>4 DEF r
<1>9. /\ up.con.open = con[c].open /\ up.con.dpid = con[c].dpid
      /\ up.con.has_nexus = con[c].has_nexus /\ up.con.ports = con[c].ports
      /\ up.con.previous_stats = con[c].previous_stats /\ up.con.barriers = con[c].barriers
      /\ up.con.waiting = Left(c, m)
      /\ up.con.connected => con[c].connected \/ con[c].waiting # {}
      /\ up.con.disconnection_raised <=> con[c].disconnection_raised
      /\ up.con.disconnected <=> con[c].disconnected
  <2>1. CASE m.xid \in con[c].waiting
    BY <2>1, <1>4, <1>7
  <2>2. CASE m.xid \notin con[c].waiting
    BY <2>2, <1>3 DEF Left
  <2> QED
    BY <2>1, <2>2
<1>10. w = IF m.t = "ERROR" \/ up.con.waiting = {} THEN up ELSE disconnect(c, z, FALSE)
  <2>1. CASE m.t = "ERROR"
    BY <2>1, <1>3 DEF handled, handle_ERROR_MSG, x, y
  <2>2. CASE m.t = "BARRIER_REPLY"
    BY <2>2, <1>3 DEF handled, handle_BARRIER, fail_connecting, x, y
  <2> QED
    BY <2>1, <2>2
<1>11. Barriered(c, m, up)
  BY <1>8, <1>9 DEF Barriered
<1> HIDE DEF up
<1>12. CASE up.con.waiting # {} /\ w = disconnect(c, z, FALSE)
  <2>1. /\ kz \in Connection /\ kz.open = up.con.open /\ kz.dpid = NoDpid
        /\ kz.connected = up.con.connected /\ kz.has_nexus = up.con.has_nexus
        /\ kz.ports = up.con.ports /\ kz.previous_stats = up.con.previous_stats
        /\ kz.barriers = up.con.barriers /\ kz.waiting = {}
        /\ kz.disconnection_raised <=> up.con.disconnection_raised
    BY <1>8 DEF Connection
  <2>2. z = [up EXCEPT !.con = kz]
    BY <1>8 DEF World
  <2> HIDE DEF z, kz
  <2>3. z \in World /\ z.con = kz /\ z.nexus = up.nexus /\ z.raised = up.raised
        /\ z.out = up.out
    BY <2>1, <2>2, <1>8 DEF World
  <2> HIDE DEF w
  <2>4. Closed(z, w, FALSE)
    BY <2>3, <1>12, DisconnectResult
  <2>5. /\ w \in World /\ Alike(w.con, kz) /\ w.out = <<>> /\ w.nexus = nexus
        /\ w.raised = up.raised /\ w.con.disconnected
        /\ w.con.disconnection_raised <=> kz.disconnection_raised
    BY <2>1, <2>3, <2>4, <1>8 DEF Closed, Without
  <2>6. Barriered(c, m, w)
    BY <2>1, <2>5, <1>8, <1>9, <1>12 DEF Barriered, Alike
  <2> QED
    BY <2>6, <1>1 DEF w
<1> QED
  BY <1>1, <1>10, <1>11, <1>12

(* handle_PORT_STATUS and _incoming_stats_reply change one field each.     *)
Stays(c, w) ==
  /\ w \in World /\ w.out = <<>> /\ w.nexus = nexus /\ w.raised = raised[c]
  /\ w.con.open = con[c].open /\ w.con.dpid = con[c].dpid
  /\ w.con.connected = con[c].connected /\ w.con.has_nexus = con[c].has_nexus
  /\ w.con.barriers = con[c].barriers /\ w.con.waiting = con[c].waiting
  /\ w.con.disconnection_raised <=> con[c].disconnection_raised
  /\ w.con.disconnected <=> con[c].disconnected

LEMMA UpdateType ==
  ASSUME NEW ports \in PortMap, NEW p \in Port, NEW up \in BOOLEAN
  PROVE  /\ _update(ports, p, up) \in PortMap
         /\ DOMAIN _update(ports, p, up) = DOMAIN ports \cup {p}
         /\ \A q \in DOMAIN ports \cup {p} :
              _update(ports, p, up)[q] = IF q = p THEN up ELSE ports[q]
<1>1. PICK S \in SUBSET Port : ports \in [S -> BOOLEAN]
  BY DEF PortMap
<1>2. _update(ports, p, up) = [q \in S \cup {p} |-> IF q = p THEN up ELSE ports[q]]
  BY <1>1 DEF _update
<1>3. _update(ports, p, up) \in [S \cup {p} -> BOOLEAN] /\ S \cup {p} \in SUBSET Port
  BY <1>1, <1>2
<1> QED
  BY <1>1, <1>2, <1>3 DEF PortMap

LEMMA PortStatusHandled ==
  ASSUME Types, NEW c \in Connections, NEW m \in ToCtl, NEW fails \in BOOLEAN,
         m.t = "PORT_STATUS"
  PROVE  LET w == handled(c, Now(c), m, fails)
         IN /\ Stays(c, w) /\ w.con.previous_stats = con[c].previous_stats
            /\ w.con.ports = IF m.deleted THEN con[c].ports
                                          ELSE _update(con[c].ports, m.port, m.up)
<1> DEFINE w == handled(c, Now(c), m, fails)
           x == Now(c)
           ports == IF m.deleted THEN con[c].ports ELSE _update(con[c].ports, m.port, m.up)
           k == [con[c] EXCEPT !.ports = ports]
<1>1. m.port \in Port /\ m.up \in BOOLEAN /\ m.deleted \in BOOLEAN
  BY DEF ToCtl, StatsPart
<1>2. con[c] \in Connection /\ con[c].ports \in PortMap
  BY DEF Types, Connection
<1>3. x \in World /\ x.con = con[c] /\ x.nexus = nexus /\ x.raised = raised[c] /\ x.out = <<>>
  BY NowType DEF Now
<1> HIDE DEF x
<1>4. ports \in PortMap
  BY <1>1, <1>2, UpdateType
<1> HIDE DEF ports
<1>5. /\ k \in Connection /\ k.open = con[c].open /\ k.dpid = con[c].dpid
      /\ k.connected = con[c].connected /\ k.has_nexus = con[c].has_nexus /\ k.ports = ports
      /\ k.previous_stats = con[c].previous_stats /\ k.barriers = con[c].barriers
      /\ k.waiting = con[c].waiting
      /\ k.disconnection_raised <=> con[c].disconnection_raised
      /\ k.disconnected <=> con[c].disconnected
  BY <1>2, <1>4 DEF Connection
<1>6. w = [x EXCEPT !.con = k]
  <2>1. w = IF m.deleted THEN x
            ELSE [x EXCEPT !.con.ports = _update(@, m.port, m.up)]
    BY DEF handled, handle_PORT_STATUS, x
  <2>2. CASE m.deleted
    <3>1. k = con[c]
      BY <2>2, <1>2 DEF ports, Connection
    <3> HIDE DEF k
    <3> QED
      BY <3>1, <2>1, <2>2, <1>3 DEF World
  <2>3. CASE ~m.deleted
    BY <2>1, <2>3, <1>3 DEF ports, World
  <2> QED
    BY <2>2, <2>3
<1> HIDE DEF w, k
<1>7. w \in World /\ w.con = k /\ w.nexus = nexus /\ w.raised = raised[c] /\ w.out = <<>>
  BY <1>3, <1>5, <1>6 DEF World
<1>8. Stays(c, w) /\ w.con.previous_stats = con[c].previous_stats /\ w.con.ports = ports
  BY <1>5, <1>7 DEF Stays
<1> QED
  BY <1>8 DEF w, ports

LEMMA StatsHandled ==
  ASSUME Types, NEW c \in Connections, NEW m \in ToCtl, NEW fails \in BOOLEAN,
         m.t = "STATS_REPLY"
  PROVE  LET w == handled(c, Now(c), m, fails)
             reply == incoming_stats_reply(con[c].previous_stats, m)
         IN /\ Stays(c, w) /\ w.con.ports = con[c].ports /\ m \in StatsPart
            /\ w.con.previous_stats = reply.previous
            /\ reply.event \in Seq(StatsPart)
<1> DEFINE w == handled(c, Now(c), m, fails)
           x == Now(c)
           reply == incoming_stats_reply(con[c].previous_stats, m)
           k == [con[c] EXCEPT !.previous_stats = reply.previous]
<1>1. m \in StatsPart
  BY DEF ToCtl
<1>2. con[c] \in Connection /\ con[c].previous_stats \in Seq(StatsPart)
  BY DEF Types, Connection
<1>3. x \in World /\ x.con = con[c] /\ x.nexus = nexus /\ x.raised = raised[c] /\ x.out = <<>>
  BY NowType DEF Now
<1> HIDE DEF x
<1>4. reply.previous \in Seq(StatsPart) /\ reply.event \in Seq(StatsPart)
  BY <1>1, <1>2 DEF incoming_stats_reply
<1>5. w = [x EXCEPT !.con = k]
  BY <1>3 DEF handled, x, World
<1> HIDE DEF reply
<1>6. /\ k \in Connection /\ k.open = con[c].open /\ k.dpid = con[c].dpid
      /\ k.connected = con[c].connected /\ k.has_nexus = con[c].has_nexus
      /\ k.ports = con[c].ports /\ k.previous_stats = reply.previous
      /\ k.barriers = con[c].barriers /\ k.waiting = con[c].waiting
      /\ k.disconnection_raised <=> con[c].disconnection_raised
      /\ k.disconnected <=> con[c].disconnected
  BY <1>2, <1>4 DEF Connection
<1> HIDE DEF w, k
<1>7. w \in World /\ w.con = k /\ w.nexus = nexus /\ w.raised = raised[c] /\ w.out = <<>>
  BY <1>3, <1>5, <1>6 DEF World
<1>8. Stays(c, w) /\ w.con.previous_stats = reply.previous /\ w.con.ports = con[c].ports
  BY <1>6, <1>7 DEF Stays
<1> QED
  BY <1>1, <1>4, <1>8 DEF w, reply

-----------------------------------------------------------------------------
(* What the handler of m makes of Now(c).                                  *)
ByHandler(c, m, w) ==
  \/ m.t \in {"HELLO", "ECHO_REQUEST"} /\ Sent(Now(c), w, Reply(m))
  \/ m.t = "FEATURES_REPLY" /\ Featured(c, m, w) /\ m.dpid \in Dpids
  \/ m.t \in {"BARRIER_REPLY", "ERROR"} /\ Barriered(c, m, w) /\ m.xid \in Nat
  \/ /\ m.t = "PORT_STATUS" /\ Stays(c, w)
     /\ w.con.previous_stats = con[c].previous_stats
     /\ w.con.ports = IF m.deleted THEN con[c].ports ELSE _update(con[c].ports, m.port, m.up)
  \/ /\ m.t = "STATS_REPLY" /\ Stays(c, w) /\ w.con.ports = con[c].ports
     /\ m \in StatsPart
     /\ w.con.previous_stats = incoming_stats_reply(con[c].previous_stats, m).previous
     /\ incoming_stats_reply(con[c].previous_stats, m).event \in Seq(StatsPart)

(* A handler's messages go to the switch, to the DeferredSender or nowhere.*)
Passed(c, ms) ==
  \/ deferred' = [deferred EXCEPT ![c] = @ \o ms] /\ sending' = TRUE /\ UNCHANGED to_switch
  \/ /\ to_switch' = [to_switch EXCEPT ![c] = @ \o ms] /\ link[c] = "open"
     /\ UNCHANGED <<deferred, sending>>
  \/ UNCHANGED <<to_switch, deferred, sending>>

ReadTo(c, m, w) ==
  /\ m = to_ctl[c][1] /\ m \in ToCtl /\ w \in World /\ ByHandler(c, m, w)
  /\ con[c].open /\ running /\ to_ctl[c] # <<>> /\ w.con.open
  /\ con' = [con EXCEPT ![c] = w.con] /\ nexus' = w.nexus
  /\ raised' = [raised EXCEPT ![c] = w.raised]
  /\ Passed(c, w.out)
  /\ to_ctl' = [to_ctl EXCEPT ![c] = Tail(@)]
  /\ received' = IF m.t = "STATS_REPLY"
                 THEN [received EXCEPT ![c] = incoming_stats_reply(con[c].previous_stats, m).event]
                 ELSE received
  /\ UNCHANGED <<switches, link, sw, cut_off, running>>

(* Whatever is read, one of the handlers has it.                           *)
LEMMA ReadStep ==
  ASSUME Types, NEW c \in Connections, Read(c)
  PROVE  \E m \in ToCtl, w \in World : ReadTo(c, m, w)
<1> DEFINE m == Head(to_ctl[c])
<1>1. m \in ToCtl /\ m = to_ctl[c][1] /\ to_ctl[c] # <<>>
  BY DEF Types, Read
<1>2. PICK fails \in BOOLEAN, later \in BOOLEAN :
        Apply(c, handled(c, Now(c), m, fails))
        /\ Transmit(c, handled(c, Now(c), m, fails).out, later)
  BY DEF Read
<1> DEFINE w == handled(c, Now(c), m, fails)
<1>3. m.t \in {"HELLO", "ECHO_REQUEST", "FEATURES_REPLY", "BARRIER_REPLY", "ERROR",
              "PORT_STATUS", "STATS_REPLY"}
  BY <1>1 DEF ToCtl, StatsPart
<1> HIDE DEF m
<1>4. ByHandler(c, m, w)
  BY <1>1, <1>3, GreetingHandled, FeaturesHandled, BarrierHandled, PortStatusHandled,
     StatsHandled DEF ByHandler
<1>5. Apply(c, w) /\ Transmit(c, w.out, later)
  BY <1>2
<1> HIDE DEF w
<1>6. w \in World
  BY <1>4 DEF ByHandler, Sent, Featured, Barriered, Stays
<1>7. w.con.open = con[c].open
  <2>1. Now(c).con = con[c]
    BY DEF Now
  <2> QED
    BY <1>4, <2>1 DEF ByHandler, Sent, Featured, Barriered, Stays, Alike
<1>8. Passed(c, w.out)
  BY <1>5 DEF Transmit, Deliver, Passed
<1>9. ReadTo(c, m, w)
  BY <1>1, <1>4, <1>5, <1>6, <1>7, <1>8 DEF Read, ReadTo, Apply, m
<1> QED
  BY <1>1, <1>6, <1>9

-----------------------------------------------------------------------------
(* A disconnect from outside a handler.                                    *)
LEMMA CloseStep ==
  ASSUME Types, NEW c \in Connections, NEW defer \in BOOLEAN
  PROVE  LET w == disconnect(c, Now(c), defer) IN
         w \in World /\ Closed(Now(c), w, defer)
  BY NowType, DisconnectResult DEF Closed

(* The messages of the switch are of the types that POX reads.             *)
LEMMA AnswerType ==
  ASSUME Types, NEW c \in Connections, c \in DOMAIN switches.dpid,
         NEW m \in ToSwitch, NEW ms \in answer(c, m)
  PROVE  ms \in Seq(ToCtl)
<1>1. CASE m.t = "FEATURES_REQUEST"
  <2>1. ms = <<[t |-> "FEATURES_REPLY", dpid |-> switches.dpid[c], ports |-> sw[c].ports]>>
    BY <1>1 DEF answer
  <2>2. switches.dpid[c] \in Dpids /\ sw[c].ports \in PortMap
    BY SwitchesAssumption DEF Types, Switch
  <2>3. [t |-> "FEATURES_REPLY", dpid |-> switches.dpid[c], ports |-> sw[c].ports] \in ToCtl
    BY <2>2 DEF ToCtl
  <2> QED
    BY <2>1, <2>3
<1>2. CASE m.t = "BARRIER_REQUEST"
  <2>1. m.xid \in Nat
    BY <1>2 DEF ToSwitch
  <2>2. [t |-> "BARRIER_REPLY", xid |-> m.xid] \in ToCtl
        /\ [t |-> "ERROR", xid |-> m.xid] \in ToCtl
    BY <2>1 DEF ToCtl
  <2>3. ms \in {<<[t |-> "BARRIER_REPLY", xid |-> m.xid]>>, <<[t |-> "ERROR", xid |-> m.xid]>>}
    BY <1>2 DEF answer
  <2>4. \A a \in ToCtl : <<a>> \in Seq(ToCtl)
    OBVIOUS
  <2> QED
    BY <2>2, <2>3, <2>4
<1>3. CASE m.t \notin {"FEATURES_REQUEST", "BARRIER_REQUEST"}
  <2>1. ms = <<>>
    BY <1>3 DEF answer
  <2> QED
    BY <2>1
<1> QED
  BY <1>1, <1>2, <1>3

-----------------------------------------------------------------------------
(* Types and the basic facts of each connection.                           *)
LEMMA SwitchType ==
  ASSUME Types, NEW c \in Connections
  PROVE  /\ sw[c] \in Switch /\ sw[c].ports \in PortMap /\ sw[c].hellos \in Nat
         /\ sw[c].changes \in Nat /\ sw[c].stats \in Seq(StatsPart)
         /\ \A p \in PortMap, n \in Nat : [sw[c] EXCEPT !.changes = n, !.ports = p] \in Switch
         /\ \A n \in Nat : [sw[c] EXCEPT !.hellos = n] \in Switch
         /\ \A s \in Seq(StatsPart) : [sw[c] EXCEPT !.stats = s] \in Switch
  BY DEF Types, Switch

(* A write of the switch.                                                  *)
LEMMA WriteType ==
  ASSUME Types, NEW c \in Connections, NEW ms \in Seq(ToCtl), Write(c, ms)
  PROVE  to_ctl' \in [Connections -> Seq(ToCtl)]
<1>1. to_ctl[c] \o ms \in Seq(ToCtl)
  BY DEF Types
<1> QED
  BY <1>1 DEF Types, Write

(* What the ports of a switch become, and what it says of that.            *)
LEMMA ReportType ==
  ASSUME Types, NEW c \in Connections, NEW p \in DOMAIN switches.ports \cup {0},
         NEW deleted \in BOOLEAN, NEW up \in BOOLEAN
  PROVE  /\ p \in Port
         /\ [q \in DOMAIN sw[c].ports \ {p} |-> sw[c].ports[q]] \in PortMap
         /\ _update(sw[c].ports, p, up) \in PortMap
         /\ port_status(p, deleted, up) \in Seq(ToCtl)
<1>0. switches \in Switches
  BY DEF Types
<1>1. p \in Port
  <2>1. DOMAIN switches.ports \in {DOMAIN s.ports : s \in Switches}
    BY <1>0
  <2>2. DOMAIN switches.ports \subseteq UNION {DOMAIN s.ports : s \in Switches}
    BY <2>1, Zenon
  <2> QED
    BY <2>2 DEF Port
<1>2. PICK S \in SUBSET Port : sw[c].ports \in [S -> BOOLEAN]
  BY SwitchType DEF PortMap
<1>3. [q \in S \ {p} |-> sw[c].ports[q]] \in [S \ {p} -> BOOLEAN] /\ S \ {p} \in SUBSET Port
  BY <1>2
<1>4. [q \in DOMAIN sw[c].ports \ {p} |-> sw[c].ports[q]] \in PortMap
  BY <1>2, <1>3 DEF PortMap
<1>5. _update(sw[c].ports, p, up) \in PortMap
  BY <1>1, SwitchType, UpdateType
<1>6. [t |-> "PORT_STATUS", port |-> p, deleted |-> deleted, up |-> up] \in ToCtl
  BY <1>1 DEF ToCtl
<1> QED
  BY <1>1, <1>4, <1>5, <1>6 DEF port_status

(* ReportPort in detail: what was the port, what is it now.                *)
Reported(c, p, deleted, up) ==
  /\ p \in DOMAIN switches.ports \cup {0} /\ deleted \in BOOLEAN /\ up \in BOOLEAN
  /\ sw' = [sw EXCEPT ![c].changes = @ - 1,
                      ![c].ports = IF deleted
                                   THEN [q \in DOMAIN sw[c].ports \ {p} |-> sw[c].ports[q]]
                                   ELSE _update(sw[c].ports, p, up)]
  /\ Write(c, port_status(p, deleted, up))

LEMMA ReportStep ==
  ASSUME Types, NEW c \in Connections, ReportPort(c)
  PROVE  \E p \in DOMAIN switches.ports \cup {0}, deleted \in BOOLEAN, up \in BOOLEAN :
           Reported(c, p, deleted, up)
<1>1. PICK p \in DOMAIN switches.ports \cup {0}, deleted \in BOOLEAN :
        LET now == sw[c].ports
            up == p \notin DOMAIN now \/ ~now[p]
            rest == [q \in DOMAIN now \ {p} |-> now[q]]
        IN /\ sw' = [sw EXCEPT ![c].changes = @ - 1,
                               ![c].ports = IF deleted THEN rest ELSE _update(now, p, up)]
           /\ Write(c, port_status(p, deleted, up))
  BY DEF ReportPort
<1> DEFINE up == p \notin DOMAIN sw[c].ports \/ ~sw[c].ports[p]
<1>3. up \in {TRUE, FALSE}
  OBVIOUS
<1>4. Reported(c, p, deleted, up)
  BY <1>1, <1>3 DEF Reported
<1> HIDE DEF up
<1> QED
  BY <1>3, <1>4

LEMMA TypesInit == Init => Types
<1> SUFFICES ASSUME Init PROVE Types
  OBVIOUS
<1>1. switches \in Switches
  BY DEF Init
<1>2. /\ switches.ports \in PortMap /\ switches.hellos \in Nat /\ switches.changes \in Nat
      /\ switches.stats \in Seq(StatsPart)
  <2>1. switches.ports \in [DOMAIN switches.ports -> BOOLEAN]
        /\ DOMAIN switches.ports \in SUBSET Port
    BY <1>1, SwitchesAssumption DEF Port
  <2> QED
    BY <1>1, <2>1, SwitchesAssumption DEF PortMap
<1>3. [ports |-> switches.ports, hellos |-> switches.hellos, changes |-> switches.changes,
       stats |-> switches.stats] \in Switch
  BY <1>2 DEF Switch
<1> QED
  <2>1. con \in [Connections -> Connection] /\ sw \in [Connections -> Switch]
    BY <1>3, NewType DEF Init
  <2>2. nexus \in Nexus /\ raised \in [Connections -> Event]
    BY DEF Init, Nexus, Event
  <2>3. to_ctl \in [Connections -> Seq(ToCtl)] /\ to_switch \in [Connections -> Seq(ToSwitch)]
        /\ deferred \in [Connections -> Seq(ToSwitch)]
        /\ received \in [Connections -> Seq(StatsPart)]
    BY DEF Init
  <2>4. link \in [Connections -> {"new", "open", "gone"}] /\ sending \in BOOLEAN /\ running \in BOOLEAN
    BY DEF Init
  <2> QED
    BY <1>1, <2>1, <2>2, <2>3, <2>4 DEF Types

LEMMA TypesNext ==
  ASSUME Basics, Next
  PROVE  Types'
<1> Types
  BY DEF Basics
<1>1. ASSUME NEW c \in Connections, Accept(c) PROVE Types'
  <2>1. [con[c] EXCEPT !.open = TRUE] \in Connection
    BY DEF Types, Connection
  <2>2. <<[t |-> "HELLO"]>> \in Seq(ToSwitch)
    BY DEF ToSwitch
  <2>3. con' = [con EXCEPT ![c] = [con[c] EXCEPT !.open = TRUE]]
    BY <1>1 DEF Accept
  <2>4. deferred' \in [Connections -> Seq(ToSwitch)] /\ to_switch' \in [Connections -> Seq(ToSwitch)]
    BY <1>1, <2>2 DEF Accept, Types
  <2>5. link' \in [Connections -> {"new", "open", "gone"}]
    BY <1>1 DEF Accept, Types
  <2> QED
    BY <1>1, <2>1, <2>3, <2>4, <2>5 DEF Accept, Types
<1>2. ASSUME NEW c \in Connections, Greet(c) PROVE Types'
  <2>0. sw[c].hellos - 1 \in Nat
    <3>1. sw[c].hellos \in Nat /\ sw[c].hellos > 0
      BY <1>2, SwitchType DEF Greet
    <3> QED
      BY <3>1
  <2>1. sw' = [sw EXCEPT ![c] = [sw[c] EXCEPT !.hellos = sw[c].hellos - 1]]
    BY <1>2 DEF Greet
  <2>2. sw' \in [Connections -> Switch]
    BY <2>0, <2>1, SwitchType DEF Types
  <2>3. <<[t |-> "HELLO"]>> \in Seq(ToCtl)
    BY DEF ToCtl
  <2> QED
    BY <1>2, <2>2, <2>3, WriteType DEF Greet, Types, controller
<1>3. ASSUME NEW c \in Connections, Answer(c) PROVE Types'
  <2>1. to_switch[c] \in Seq(ToSwitch) /\ to_switch[c] # <<>>
    BY <1>3 DEF Answer, Types
  <2>2. Head(to_switch[c]) \in ToSwitch /\ Tail(to_switch[c]) \in Seq(ToSwitch)
    BY <2>1
  <2>3. c \in DOMAIN switches.dpid
    BY <1>3 DEF Basics, Kept, Answer
  <2>4. PICK ms \in answer(c, Head(to_switch[c])) : Write(c, ms)
    BY <1>3 DEF Answer
  <2>5. to_ctl' \in [Connections -> Seq(ToCtl)]
    BY <2>2, <2>3, <2>4, AnswerType, WriteType
  <2>6. to_switch' \in [Connections -> Seq(ToSwitch)]
    BY <1>3, <2>2 DEF Answer, Types
  <2> QED
    BY <1>3, <2>5, <2>6 DEF Answer, Types, controller
<1>4. ASSUME NEW c \in Connections, ReportPort(c) PROVE Types'
  <2>1. PICK p \in DOMAIN switches.ports \cup {0}, deleted \in BOOLEAN, up \in BOOLEAN :
          Reported(c, p, deleted, up)
    BY <1>4, ReportStep
  <2> DEFINE ports == IF deleted THEN [q \in DOMAIN sw[c].ports \ {p} |-> sw[c].ports[q]]
                                ELSE _update(sw[c].ports, p, up)
  <2>2. ports \in PortMap
    BY ReportType
  <2>a. sw[c].changes - 1 \in Nat
    <3>1. sw[c].changes \in Nat /\ sw[c].changes > 0
      BY <1>4, SwitchType DEF ReportPort
    <3> QED
      BY <3>1
  <2>3. sw' = [sw EXCEPT ![c] = [sw[c] EXCEPT !.changes = sw[c].changes - 1, !.ports = ports]]
    BY <2>1 DEF Reported, Types
  <2> HIDE DEF ports
  <2>4. sw' \in [Connections -> Switch]
    BY <2>2, <2>a, <2>3, SwitchType DEF Types
  <2>5. to_ctl' \in [Connections -> Seq(ToCtl)]
    BY <2>1, ReportType, WriteType DEF Reported
  <2> QED
    BY <1>4, <2>4, <2>5 DEF ReportPort, Types, controller
<1>5. ASSUME NEW c \in Connections, SendStats(c) PROVE Types'
  <2>1. sw[c].stats \in Seq(StatsPart) /\ sw[c].stats # <<>>
    BY <1>5, SwitchType DEF SendStats
  <2>2. Head(sw[c].stats) \in StatsPart /\ Tail(sw[c].stats) \in Seq(StatsPart)
    BY <2>1
  <2>3. sw' = [sw EXCEPT ![c] = [sw[c] EXCEPT !.stats = Tail(sw[c].stats)]]
    BY <1>5 DEF SendStats
  <2>4. sw' \in [Connections -> Switch]
    BY <2>2, <2>3, SwitchType DEF Types
  <2>5. Head(sw[c].stats) \in ToCtl /\ [t |-> "ECHO_REQUEST"] \in ToCtl
    BY <2>2 DEF ToCtl
  <2>6. <<[t |-> "ECHO_REQUEST"], Head(sw[c].stats)>> \in Seq(ToCtl)
    BY <2>5
  <2>7. to_ctl' \in [Connections -> Seq(ToCtl)]
    BY <1>5, <2>6, WriteType DEF SendStats
  <2> QED
    BY <1>5, <2>4, <2>7 DEF SendStats, Types, controller
<1>6. ASSUME NEW c \in Connections, Leave(c) PROVE Types'
  BY <1>6 DEF Leave, Types, controller
<1>7. ASSUME NEW c \in Connections, Read(c) PROVE Types'
  <2>1. PICK m \in ToCtl, w \in World : ReadTo(c, m, w)
    BY <1>7, ReadStep
  <2>2. w.con \in Connection /\ w.nexus \in Nexus /\ w.raised \in Event /\ w.out \in Seq(ToSwitch)
    BY DEF World
  <2>3. con' \in [Connections -> Connection] /\ nexus' \in Nexus /\ raised' \in [Connections -> Event]
    BY <2>1, <2>2 DEF ReadTo, Types
  <2>4. Tail(to_ctl[c]) \in Seq(ToCtl)
    BY <2>1 DEF ReadTo, Types
  <2>5. deferred[c] \o w.out \in Seq(ToSwitch) /\ to_switch[c] \o w.out \in Seq(ToSwitch)
    BY <2>2 DEF Types
  <2>6. /\ deferred' \in [Connections -> Seq(ToSwitch)]
        /\ to_switch' \in [Connections -> Seq(ToSwitch)] /\ sending' \in BOOLEAN
    BY <2>1, <2>5 DEF ReadTo, Passed, Types
  <2>7. received' \in [Connections -> Seq(StatsPart)]
    BY <2>1 DEF ReadTo, ByHandler, Types
  <2> QED
    BY <2>1, <2>3, <2>4, <2>6, <2>7 DEF ReadTo, Types
<1>8. ASSUME NEW c \in Connections, CloseConnection(c) PROVE Types'
  <2> DEFINE w == disconnect(c, Now(c), FALSE)
             k == [w.con EXCEPT !.open = FALSE]
  <2>1. w \in World
    BY CloseStep
  <2>2. [w EXCEPT !.con.open = FALSE].con = k /\ [w EXCEPT !.con.open = FALSE].nexus = w.nexus
        /\ [w EXCEPT !.con.open = FALSE].raised = w.raised
    BY <2>1 DEF World
  <2>3. Apply(c, [w EXCEPT !.con.open = FALSE])
    BY <1>8 DEF CloseConnection
  <2> HIDE DEF w
  <2>4. k \in Connection /\ w.nexus \in Nexus /\ w.raised \in Event
    BY <2>1 DEF World, Connection
  <2> HIDE DEF k
  <2>5. con' \in [Connections -> Connection] /\ nexus' \in Nexus /\ raised' \in [Connections -> Event]
    BY <2>2, <2>3, <2>4 DEF Apply, Types
  <2>6. /\ link' \in [Connections -> {"new", "open", "gone"}]
        /\ to_ctl' \in [Connections -> Seq(ToCtl)]
        /\ to_switch' \in [Connections -> Seq(ToSwitch)]
    BY <1>8 DEF CloseConnection, Types
  <2> QED
    BY <1>8, <2>5, <2>6 DEF CloseConnection, Types
<1>9. ASSUME NEW c \in Connections, DeferredSend(c) PROVE Types'
  <2>1. /\ deferred[c] \in Seq(ToSwitch) /\ deferred[c] # <<>>
        /\ to_switch[c] \in Seq(ToSwitch)
    BY <1>9 DEF DeferredSend, Types
  <2>2. Tail(deferred[c]) \in Seq(ToSwitch) /\ to_switch[c] \o <<Head(deferred[c])>> \in Seq(ToSwitch)
    BY <2>1
  <2>3. deferred' \in [Connections -> Seq(ToSwitch)] /\ to_switch' \in [Connections -> Seq(ToSwitch)]
        /\ sending' \in BOOLEAN
    <3>1. CASE deferred' = [deferred EXCEPT ![c] = Tail(@)]
      BY <1>9, <2>2, <3>1 DEF DeferredSend, Deliver, Types
    <3>2. CASE deferred' = [deferred EXCEPT ![c] = <<>>] /\ UNCHANGED <<sending, to_switch>>
      BY <3>2 DEF Types
    <3> QED
      BY <1>9, <3>1, <3>2 DEF DeferredSend
  <2> DEFINE w == disconnect(c, Now(c), FALSE)
  <2>4. w \in World
    BY CloseStep
  <2>5. Apply(c, w) \/ UNCHANGED <<con, nexus, raised>>
    BY <1>9 DEF DeferredSend
  <2> HIDE DEF w
  <2>6. con' \in [Connections -> Connection] /\ nexus' \in Nexus /\ raised' \in [Connections -> Event]
    BY <2>4, <2>5 DEF Apply, Types, World
  <2> QED
    BY <1>9, <2>3, <2>6 DEF DeferredSend, Types
<1>10. ASSUME NEW c \in Connections, SendFromThread(c) PROVE Types'
  <2> DEFINE w == send(c, Now(c), <<>>, TRUE)
  <2>1. Sent(Now(c), w, <<>>)
    <3>1. <<>> \in Seq(ToSwitch)
      OBVIOUS
    <3> QED
      BY <3>1, NowType, SendResult
  <2>2. Apply(c, w)
    BY <1>10 DEF SendFromThread
  <2> HIDE DEF w
  <2>3. con' \in [Connections -> Connection] /\ nexus' \in Nexus /\ raised' \in [Connections -> Event]
    BY <2>1, <2>2 DEF Apply, Types, Sent, World
  <2> QED
    BY <1>10, <2>3 DEF SendFromThread, Types
<1>11. CASE HandleDownEvent
  <2>1. \A c \in Connections : disconnect(c, Now(c), FALSE).con \in Connection
                             /\ disconnect(c, Now(c), FALSE).raised \in Event
    BY CloseStep DEF World
  <2>2. con' \in [Connections -> Connection] /\ raised' \in [Connections -> Event]
    BY <1>11, <2>1 DEF HandleDownEvent, Types
  <2>3. nexus' \in Nexus
    BY <1>11 DEF HandleDownEvent, Types, Nexus
  <2> QED
    BY <1>11, <2>2, <2>3 DEF HandleDownEvent, Types
<1>12. ASSUME NEW c \in Connections, SelectFails(c) PROVE Types'
  BY <1>12 DEF SelectFails, Types
<1> QED
  BY <1>1, <1>2, <1>3, <1>4, <1>5, <1>6, <1>7, <1>8, <1>9, <1>10, <1>11, <1>12 DEF Next

-----------------------------------------------------------------------------
(* The steps that disconnect connection c outside a handler, as they show  *)
(* in the variables.                                                       *)
Shuts(c, defer) ==
  /\ con'[c].dpid = con[c].dpid /\ con'[c].connected = con[c].connected
  /\ con'[c].has_nexus = con[c].has_nexus /\ con'[c].barriers = con[c].barriers
  /\ con'[c].waiting = con[c].waiting /\ con'[c].ports = con[c].ports
  /\ con'[c].previous_stats = con[c].previous_stats
  /\ con'[c].open => con[c].open
  /\ con'[c].disconnected
  /\ con'[c].disconnection_raised
       <=> con[c].disconnection_raised \/ (con[c].dpid # NoDpid /\ ~defer)
  /\ raised'[c] = IF con[c].dpid # NoDpid /\ ~con[c].disconnection_raised /\ ~defer
                  THEN Raise(raised[c], "down") ELSE raised[c]

Forgotten(c) ==
  nexus' = IF con[c].has_nexus /\ con[c].dpid # NoDpid
           THEN [nexus EXCEPT ![con[c].dpid] = NoConnection] ELSE nexus

(* From the world of a disconnect to the variables.                        *)
LEMMA ShutsFrom ==
  ASSUME Types, NEW c \in Connections, NEW defer \in BOOLEAN, NEW w,
         Closed(Now(c), w, defer),
         con'[c] = w.con, raised'[c] = w.raised
  PROVE  Shuts(c, defer) /\ con'[c].open = con[c].open
<1>1. Now(c).con = con[c] /\ Now(c).raised = raised[c]
  BY DEF Now
<1> QED
  BY <1>1 DEF Closed, Shuts, Alike

LEMMA CloseShuts ==
  ASSUME Types, NEW c \in Connections, CloseConnection(c)
  PROVE  Shuts(c, FALSE) /\ Forgotten(c) /\ ~con'[c].open
<1> DEFINE w == disconnect(c, Now(c), FALSE)
           k == [w.con EXCEPT !.open = FALSE]
<1>1. w \in World /\ Closed(Now(c), w, FALSE)
  BY CloseStep
<1>2. [w EXCEPT !.con.open = FALSE].con = k /\ [w EXCEPT !.con.open = FALSE].nexus = w.nexus
      /\ [w EXCEPT !.con.open = FALSE].raised = w.raised
  BY <1>1 DEF World
<1>3. Apply(c, [w EXCEPT !.con.open = FALSE])
  BY DEF CloseConnection
<1> HIDE DEF w
<1>4. /\ k.dpid = w.con.dpid /\ k.connected = w.con.connected /\ ~k.open
      /\ k.has_nexus = w.con.has_nexus /\ k.barriers = w.con.barriers
      /\ k.waiting = w.con.waiting /\ k.ports = w.con.ports
      /\ k.previous_stats = w.con.previous_stats
      /\ k.disconnected <=> w.con.disconnected
      /\ k.disconnection_raised <=> w.con.disconnection_raised
  BY <1>1 DEF World, Connection
<1> HIDE DEF k
<1>5. con'[c] = k /\ raised'[c] = w.raised /\ nexus' = w.nexus
  BY <1>2, <1>3 DEF Apply, Types
<1>6. Now(c).con = con[c] /\ Now(c).raised = raised[c] /\ Now(c).nexus = nexus
  BY DEF Now
<1>7. Shuts(c, FALSE) /\ ~con'[c].open
  BY <1>1, <1>4, <1>5, <1>6 DEF Closed, Alike, Shuts
<1>8. Forgotten(c)
  BY <1>1, <1>5, <1>6 DEF Closed, Without, Forgotten
<1> QED
  BY <1>7, <1>8

(* What DeferredSender.run does: after a socket error, when it sends, and  *)
(* when it drops the data or ends.                                         *)
CutOff(c) ==
  /\ Apply(c, disconnect(c, Now(c), FALSE))
  /\ deferred' = [deferred EXCEPT ![c] = <<>>]
  /\ cut_off' = cut_off \cup {c}
  /\ UNCHANGED <<sending, to_switch, switches, link, to_ctl, sw, received, running>>
PassOn(c) ==
  /\ deferred' = [deferred EXCEPT ![c] = Tail(@)]
  /\ sending' = \E d \in Connections : deferred'[d] # <<>>
  /\ Deliver(c, <<Head(deferred[c])>>)
  /\ UNCHANGED <<con, nexus, raised, cut_off, switches, link, to_ctl, sw, received, running>>

GivesUp(c) ==
  /\ deferred' = deferred \/ deferred' = [deferred EXCEPT ![c] = <<>>]
  /\ UNCHANGED <<con, nexus, raised, cut_off, sending, to_switch, switches, link, to_ctl, sw, received,
                 running>>

LEMMA DeferredStep ==
  ASSUME NEW c, DeferredSend(c) \/ SelectFails(c)
  PROVE  running /\ deferred[c] # <<>> /\ (PassOn(c) \/ CutOff(c) \/ GivesUp(c))
  BY DEF DeferredSend, SelectFails, PassOn, CutOff, GivesUp

LEMMA CutOffShuts ==
  ASSUME Types, NEW c \in Connections, CutOff(c)
  PROVE  Shuts(c, FALSE) /\ Forgotten(c) /\ con'[c].open = con[c].open
<1> DEFINE w == disconnect(c, Now(c), FALSE)
<1>1. w \in World /\ Closed(Now(c), w, FALSE)
  BY CloseStep
<1>2. Apply(c, w)
  BY DEF CutOff
<1> HIDE DEF w
<1>3. con'[c] = w.con /\ raised'[c] = w.raised /\ nexus' = w.nexus
  BY <1>2 DEF Apply, Types
<1>4. Now(c).con = con[c] /\ Now(c).nexus = nexus
  BY DEF Now
<1>5. Forgotten(c)
  BY <1>1, <1>3, <1>4 DEF Closed, Without, Forgotten
<1> QED
  BY <1>1, <1>3, <1>5, ShutsFrom

LEMMA ThreadShuts ==
  ASSUME Types, NEW c \in Connections, SendFromThread(c)
  PROVE  Shuts(c, TRUE) /\ Forgotten(c) /\ con'[c].open = con[c].open
<1> DEFINE w == disconnect(c, Now(c), TRUE)
<1>1. w \in World /\ Closed(Now(c), w, TRUE)
  BY CloseStep
<1>4. Now(c).con = con[c] /\ Now(c).nexus = nexus
  BY DEF Now
<1>2. Apply(c, w)
  BY <1>4 DEF SendFromThread, send
<1> HIDE DEF w
<1>3. con'[c] = w.con /\ raised'[c] = w.raised /\ nexus' = w.nexus
  BY <1>2 DEF Apply, Types
<1>5. Forgotten(c)
  BY <1>1, <1>3, <1>4 DEF Closed, Without, Forgotten
<1> QED
  BY <1>1, <1>3, <1>5, ShutsFrom

(* POX goes down: what is registered is disconnected, the rest stays.      *)
LEMMA DownShuts ==
  ASSUME Types, NEW c \in Connections, HandleDownEvent
  PROVE  /\ con'[c].open = con[c].open
         /\ IF \E d \in Dpids : nexus[d] = c
            THEN Shuts(c, FALSE) ELSE con'[c] = con[c] /\ raised'[c] = raised[c]
<1> DEFINE w == disconnect(c, Now(c), FALSE)
<1>1. w \in World /\ Closed(Now(c), w, FALSE)
  BY CloseStep
<1>2. CASE \E d \in Dpids : nexus[d] = c
  <2>1. con'[c] = w.con /\ raised'[c] = w.raised
    BY <1>2 DEF HandleDownEvent
  <2> HIDE DEF w
  <2> QED
    BY <1>1, <1>2, <2>1, ShutsFrom
<1>3. CASE ~ \E d \in Dpids : nexus[d] = c
  BY <1>3 DEF HandleDownEvent
<1> QED
  BY <1>2, <1>3

-----------------------------------------------------------------------------
(* A step of one connection leaves the others alone, but for the nexus.    *)
Act(c) ==
  \/ Accept(c) \/ Greet(c) \/ Answer(c) \/ ReportPort(c) \/ SendStats(c) \/ Leave(c)
  \/ Read(c) \/ CloseConnection(c) \/ DeferredSend(c) \/ SelectFails(c) \/ SendFromThread(c)

Untouched(b) ==
  /\ link'[b] = link[b] /\ to_ctl'[b] = to_ctl[b] /\ to_switch'[b] = to_switch[b]
  /\ sw'[b] = sw[b] /\ con'[b] = con[b] /\ raised'[b] = raised[b]
  /\ deferred'[b] = deferred[b] /\ received'[b] = received[b]

NexusMoves(c) == \A d \in Dpids : nexus'[d] \in {nexus[d], c, NoConnection}

LEMMA ForgottenMoves ==
  ASSUME Types, NEW c \in Connections, Forgotten(c)
  PROVE  NexusMoves(c)
  BY DEF Types, Nexus, Forgotten, NexusMoves

LEMMA ReadNexus ==
  ASSUME Types, NEW c \in Connections, NEW m \in ToCtl, NEW w \in World, ReadTo(c, m, w)
  PROVE  NexusMoves(c)
<1>1. nexus \in Nexus /\ nexus' = w.nexus
  BY DEF Types, ReadTo
<1>2. CASE m.t \in {"HELLO", "ECHO_REQUEST"}
  <2>1. w.nexus \in {Now(c).nexus, Without(Now(c))}
    BY <1>2 DEF ReadTo, ByHandler, Sent
  <2>2. Now(c).nexus = nexus /\ Now(c).con = con[c]
    BY DEF Now
  <2>3. Without(Now(c)) \in {nexus, [nexus EXCEPT ![con[c].dpid] = NoConnection]}
    BY <2>2 DEF Without
  <2> QED
    BY <1>1, <2>1, <2>2, <2>3 DEF NexusMoves, Nexus
<1>3. CASE m.t = "FEATURES_REPLY"
  BY <1>1, <1>3 DEF ReadTo, ByHandler, Featured, NexusMoves, Nexus
<1>4. CASE m.t \notin {"HELLO", "ECHO_REQUEST", "FEATURES_REPLY"}
  BY <1>1, <1>4 DEF ReadTo, ByHandler, Barriered, Stays, NexusMoves
<1> QED
  BY <1>2, <1>3, <1>4

LEMMA OthersUntouched ==
  ASSUME Types, NEW c \in Connections, Act(c)
  PROVE  /\ \A b \in Connections \ {c} : Untouched(b)
         /\ NexusMoves(c) /\ UNCHANGED <<switches, running>>
<1>1. CASE Accept(c) \/ Greet(c) \/ Answer(c) \/ SendStats(c) \/ Leave(c)
  <2>1. nexus' = nexus
    BY <1>1 DEF Accept, Greet, Answer, SendStats, Leave, controller
  <2>2. NexusMoves(c)
    BY <2>1 DEF NexusMoves
  <2> QED
    BY <1>1, <2>2 DEF Types, Accept, Greet, Answer, SendStats, Leave, controller, Write,
                      Untouched
<1>2. CASE ReportPort(c)
  <2>1. PICK p \in DOMAIN switches.ports \cup {0}, deleted \in BOOLEAN, up \in BOOLEAN :
          Reported(c, p, deleted, up)
    BY <1>2, ReportStep
  <2>2. \A b \in Connections \ {c} : sw'[b] = sw[b] /\ to_ctl'[b] = to_ctl[b]
    BY <2>1 DEF Types, Reported, Write
  <2> QED
    BY <1>2, <2>2 DEF ReportPort, controller, Untouched, NexusMoves
<1>3. CASE Read(c)
  <2>1. PICK m \in ToCtl, w \in World : ReadTo(c, m, w)
    BY <1>3, ReadStep
  <2>2. \A b \in Connections \ {c} : deferred'[b] = deferred[b] /\ to_switch'[b] = to_switch[b]
    BY <2>1 DEF Types, ReadTo, Passed
  <2> QED
    BY <2>1, <2>2, ReadNexus DEF Types, ReadTo, Untouched
<1>4. CASE CloseConnection(c)
  BY <1>4, CloseShuts, ForgottenMoves DEF Types, CloseConnection, Apply, Untouched
<1>5. CASE DeferredSend(c) \/ SelectFails(c)
  <2>1. CASE PassOn(c)
    BY <2>1 DEF PassOn, Types, Deliver, Untouched, NexusMoves
  <2>2. CASE CutOff(c)
    BY <2>2, CutOffShuts, ForgottenMoves DEF CutOff, Types, Apply, Untouched
  <2>3. CASE GivesUp(c)
    BY <2>3 DEF GivesUp, Types, Untouched, NexusMoves
  <2> QED
    BY <1>5, <2>1, <2>2, <2>3, DeferredStep
<1>6. CASE SendFromThread(c)
  BY <1>6, ThreadShuts, ForgottenMoves DEF SendFromThread, Types, Apply, Untouched
<1> QED
  BY <1>1, <1>2, <1>3, <1>4, <1>5, <1>6 DEF Act

(* A step is one of a connection, or POX goes down, or nothing happens.    *)
LEMMA Steps ==
  ASSUME [Next]_vars
  PROVE  (\E c \in Connections : Act(c)) \/ HandleDownEvent \/ UNCHANGED vars
  BY DEF Next, Act

-----------------------------------------------------------------------------
LEMMA BasicsInit == Init => Basics
<1> SUFFICES ASSUME Init PROVE Basics
  OBVIOUS
<1>1. Types
  BY TypesInit
<1>2. ASSUME NEW c \in Connections PROVE Fresh(c)
  BY DEF Init, Fresh
<1>3. ASSUME NEW c \in Connections PROVE Kept(c)
  BY SwitchesAssumption DEF Init, Kept, NewConnection, NoDpid
<1> QED
  BY <1>1, <1>2, <1>3 DEF Basics

(* What reading a message does to the facts about the connection.          *)
LEMMA ReadKept ==
  ASSUME Basics, NEW c \in Connections, NEW m \in ToCtl, NEW w \in World, ReadTo(c, m, w)
  PROVE  /\ w.con.waiting \subseteq 1..w.con.barriers
         /\ w.con.disconnection_raised => w.con.disconnected
         /\ w.con.dpid # NoDpid \/ w.con.waiting # {} \/ w.con.connected => w.con.has_nexus
         /\ con[c].has_nexus => w.con.has_nexus
         /\ \A d \in Dpids : w.nexus[d] = c => w.con.has_nexus
<1>0. /\ con[c].waiting \subseteq 1..con[c].barriers /\ con[c].barriers \in Nat
      /\ con[c].disconnection_raised => con[c].disconnected
      /\ con[c].dpid # NoDpid \/ con[c].waiting # {} \/ con[c].connected => con[c].has_nexus
      /\ \A d \in Dpids : nexus[d] = c => con[c].has_nexus
      /\ nexus \in Nexus /\ c # NoConnection
  BY SwitchesAssumption DEF Basics, Kept, Types, Connection
<1>1. CASE m.t \in {"HELLO", "ECHO_REQUEST"}
  <2>1. Sent(Now(c), w, Reply(m))
    BY <1>1 DEF ReadTo, ByHandler
  <2>2. Now(c).nexus = nexus /\ Now(c).con = con[c]
    BY DEF Now
  <2>3. Without(Now(c)) \in {nexus, [nexus EXCEPT ![con[c].dpid] = NoConnection]}
    BY <2>2 DEF Without
  <2>4. w.nexus \in {nexus, [nexus EXCEPT ![con[c].dpid] = NoConnection]}
    BY <2>1, <2>2, <2>3 DEF Sent
  <2>5. \A d \in Dpids : w.nexus[d] = c => nexus[d] = c
    BY <1>0, <2>4 DEF Nexus
  <2>6. Alike(w.con, con[c]) /\ (con[c].disconnected => w.con.disconnected)
        /\ (w.con.disconnection_raised <=> con[c].disconnection_raised)
    BY <2>1, <2>2 DEF Sent
  <2> QED
    BY <1>0, <2>5, <2>6 DEF Alike
<1>2. CASE m.t = "FEATURES_REPLY"
  <2>1. Featured(c, m, w)
    BY <1>2 DEF ReadTo, ByHandler
  <2>2. w.con.waiting \subseteq 1..w.con.barriers
    BY <1>0, <2>1 DEF Featured
  <2> QED
    BY <1>0, <2>1, <2>2 DEF Featured
<1>3. CASE m.t \in {"BARRIER_REPLY", "ERROR"}
  <2>1. Barriered(c, m, w)
    BY <1>3 DEF ReadTo, ByHandler
  <2> QED
    BY <1>0, <2>1 DEF Barriered, Left
<1>4. CASE m.t \in {"PORT_STATUS", "STATS_REPLY"}
  <2>1. Stays(c, w)
    BY <1>4 DEF ReadTo, ByHandler
  <2> QED
    BY <1>0, <2>1 DEF Stays
<1> QED
  BY <1>1, <1>2, <1>3, <1>4 DEF ReadTo, ByHandler

(* Whatever is deferred, the DeferredSender is sending.                    *)
LEMMA SendingKept ==
  ASSUME Basics, NEW c \in Connections, Act(c), NEW b \in Connections, deferred'[b] # <<>>
  PROVE  sending'
<1>0. Types /\ (deferred[b] # <<>> => sending)
  BY DEF Basics, Kept
<1>1. CASE Accept(c)
  BY <1>0, <1>1 DEF Accept, Types
<1>2. CASE Greet(c) \/ Answer(c) \/ ReportPort(c) \/ SendStats(c) \/ Leave(c)
  BY <1>0, <1>2 DEF Greet, Answer, ReportPort, SendStats, Leave, controller
<1>3. CASE Read(c)
  <2>1. PICK m \in ToCtl, w \in World : ReadTo(c, m, w)
    BY <1>0, <1>3, ReadStep
  <2>2. Passed(c, w.out)
    BY <2>1 DEF ReadTo
  <2> QED
    BY <1>0, <2>2 DEF Passed
<1>4. CASE CloseConnection(c) \/ SendFromThread(c)
  BY <1>0, <1>4 DEF CloseConnection, SendFromThread
<1>5. CASE DeferredSend(c) \/ SelectFails(c)
  <2>1. CASE PassOn(c)
    BY <2>1 DEF PassOn
  <2>2. CASE CutOff(c)
    BY <1>0, <2>2 DEF CutOff, Types
  <2>3. CASE GivesUp(c)
    BY <1>0, <2>3 DEF GivesUp, Types
  <2> QED
    BY <1>5, <2>1, <2>2, <2>3, DeferredStep
<1> QED
  BY <1>1, <1>2, <1>3, <1>4, <1>5 DEF Act

(* The facts about one connection after a step of it.                      *)
LEMMA OwnBasics ==
  ASSUME Basics, NEW c \in Connections, Act(c)
  PROVE  Fresh(c)' /\ Kept(c)'
<1>0. Types /\ Fresh(c) /\ Kept(c) /\ NoConnection # c
  BY SwitchesAssumption DEF Basics
<1>1. (deferred'[c] # <<>> => sending') /\ switches' = switches
  BY <1>0, SendingKept, OthersUntouched
<1>2. CASE Accept(c)
  <2>1. con'[c] = [NewConnection EXCEPT !.open = TRUE] /\ nexus' = nexus /\ link'[c] = "open"
        /\ c \in DOMAIN switches.dpid
    BY <1>0, <1>2 DEF Accept, Fresh, Types
  <2>2. /\ con'[c].waiting = {} /\ ~con'[c].disconnection_raised /\ con'[c].dpid = NoDpid
        /\ ~con'[c].connected /\ ~con[c].has_nexus
    BY <1>0, <1>2, <2>1 DEF NewConnection, Accept, Fresh
  <2> QED
    BY <1>0, <1>1, <2>1, <2>2 DEF Fresh, Kept
<1>3. CASE Greet(c) \/ Answer(c) \/ ReportPort(c) \/ SendStats(c) \/ Leave(c)
  <2>1. con' = con /\ nexus' = nexus /\ link[c] = "open" /\ link'[c] # "new"
    BY <1>0, <1>3 DEF Greet, Answer, ReportPort, SendStats, Leave, controller, Types
  <2> QED
    BY <1>0, <1>1, <2>1 DEF Fresh, Kept
<1>4. CASE Read(c)
  <2>1. PICK m \in ToCtl, w \in World : ReadTo(c, m, w)
    BY <1>0, <1>4, ReadStep
  <2>2. link[c] # "new" /\ link' = link
    BY <1>0, <2>1 DEF ReadTo, Fresh
  <2>3. con'[c] = w.con /\ nexus' = w.nexus
    BY <1>0, <2>1 DEF ReadTo, Types
  <2> QED
    BY <1>0, <1>1, <2>1, <2>2, <2>3, ReadKept DEF Fresh, Kept
<1>5. ASSUME NEW defer \in BOOLEAN, Shuts(c, defer), Forgotten(c), link[c] # "new",
             link'[c] # "new"
      PROVE  Fresh(c)' /\ Kept(c)'
  <2>1. \A d \in Dpids : nexus'[d] = c => nexus[d] = c
    BY <1>0, <1>5 DEF Forgotten, Types, Nexus
  <2> QED
    BY <1>0, <1>1, <1>5, <2>1 DEF Shuts, Fresh, Kept
<1>6. CASE CloseConnection(c)
  <2>1. link[c] # "new" /\ link'[c] # "new"
    BY <1>0, <1>6 DEF CloseConnection, Fresh, NewConnection, Types
  <2> QED
    BY <1>0, <1>5, <1>6, <2>1, CloseShuts
<1>7. CASE DeferredSend(c) \/ SelectFails(c)
  <2>1. link[c] # "new" /\ link'[c] # "new"
    BY <1>0, <1>7 DEF DeferredSend, SelectFails, Fresh
  <2>2. CASE PassOn(c)
    BY <1>0, <1>1, <2>1, <2>2 DEF PassOn, Fresh, Kept
  <2>3. CASE CutOff(c)
    BY <1>0, <1>5, <2>1, <2>3, CutOffShuts
  <2>4. CASE GivesUp(c)
    BY <1>0, <1>1, <2>1, <2>4 DEF GivesUp, Fresh, Kept
  <2> QED
    BY <1>7, <2>2, <2>3, <2>4, DeferredStep
<1>8. CASE SendFromThread(c)
  <2>1. link[c] # "new" /\ link'[c] # "new"
    BY <1>8 DEF SendFromThread
  <2> QED
    BY <1>0, <1>5, <1>8, <2>1, ThreadShuts
<1> QED
  BY <1>2, <1>3, <1>4, <1>6, <1>7, <1>8 DEF Act

LEMMA BasicsNext == Basics /\ [Next]_vars => Basics'
<1> SUFFICES ASSUME Basics, [Next]_vars PROVE Basics'
  OBVIOUS
<1>0. Types /\ NoConnection \notin Connections
  BY SwitchesAssumption DEF Basics
<1>1. ASSUME NEW c \in Connections, Act(c) PROVE Basics'
  <2>1. Types'
    BY <1>1, TypesNext DEF Act, Next
  <2>2. /\ \A b \in Connections \ {c} : Untouched(b)
        /\ NexusMoves(c) /\ switches' = switches
    BY <1>0, <1>1, OthersUntouched
  <2>3. ASSUME NEW b \in Connections \ {c} PROVE Fresh(b)' /\ Kept(b)'
    <3>1. Untouched(b) /\ Fresh(b) /\ Kept(b) /\ (deferred'[b] # <<>> => sending')
      BY <1>1, <2>2, SendingKept DEF Basics
    <3>2. \A d \in Dpids : nexus'[d] = b => nexus[d] = b
      BY <1>0, <2>2 DEF NexusMoves
    <3>3. Fresh(b)'
      BY <2>2, <3>1 DEF Untouched, Fresh
    <3>4. Kept(b)'
      BY <2>2, <3>1, <3>2 DEF Untouched, Kept
    <3> QED
      BY <3>3, <3>4
  <2> QED
    BY <1>1, <2>1, <2>3, OwnBasics DEF Basics
<1>2. CASE HandleDownEvent
  <2>1. Types'
    BY <1>2, TypesNext DEF Next
  <2>2. ASSUME NEW c \in Connections PROVE Fresh(c)' /\ Kept(c)'
    <3>1. \A d \in Dpids : nexus'[d] = c => nexus[d] = c
      BY <1>0, <1>2 DEF HandleDownEvent
    <3>2. Fresh(c) /\ Kept(c)
      BY DEF Basics
    <3>3. UNCHANGED <<switches, link, to_ctl, to_switch, sw, deferred, sending>>
      BY <1>2 DEF HandleDownEvent
    <3>4. CASE \E d \in Dpids : nexus[d] = c
      <4>1. Shuts(c, FALSE)
        BY <1>0, <1>2, <3>4, DownShuts
      <4>2. link[c] # "new"
        BY <3>2, <3>4 DEF Fresh, Kept, NewConnection
      <4> QED
        BY <3>1, <3>2, <3>3, <4>1, <4>2 DEF Shuts, Fresh, Kept
    <3>5. CASE ~ \E d \in Dpids : nexus[d] = c
      <4>1. con'[c] = con[c]
        BY <1>0, <1>2, <3>5, DownShuts
      <4> QED
        BY <3>1, <3>2, <3>3, <4>1 DEF Fresh, Kept
    <3> QED
      BY <3>4, <3>5
  <2> QED
    BY <2>1, <2>2 DEF Basics
<1>3. CASE UNCHANGED vars
  <2> USE <1>3 DEF vars, controller
  <2>1. Types'
    BY <1>0 DEF Types
  <2>2. ASSUME NEW c \in Connections PROVE Fresh(c)' /\ Kept(c)'
    BY DEF Basics, Fresh, Kept
  <2> QED
    BY <2>1, <2>2 DEF Basics
<1> QED
  BY <1>1, <1>2, <1>3, Steps

-----------------------------------------------------------------------------
(* Messages about no port, on the way.                                     *)
LEMMA FollowsQuiet ==
  ASSUME NEW s \in Seq(ToCtl), NEW m \in ToCtl, m.t \notin {"FEATURES_REPLY", "PORT_STATUS"},
         NEW known, NEW has \in BOOLEAN, NEW ports, Follows(s, known, has, ports)
  PROVE  Follows(Append(s, m), known, has, ports)
<1> DEFINE z == Append(s, m)
<1>1. /\ Len(s) \in Nat /\ DOMAIN s = 1..Len(s) /\ DOMAIN z = 1..(Len(s) + 1)
      /\ z[Len(s) + 1] = m /\ \A i \in 1..Len(s) : z[i] = s[i]
  OBVIOUS
<1> HIDE DEF z
<1>2. \A p : ~About(m, p)
  BY DEF About
<1>3. ASSUME NEW p \in DOMAIN ports, NEW i \in DOMAIN z, LastAbout(z, i, p)
      PROVE  Says(z[i], p, ports[p])
  <2>1. i \in DOMAIN s /\ z[i] = s[i]
    BY <1>1, <1>2, <1>3 DEF LastAbout
  <2>2. LastAbout(s, i, p)
    BY <1>1, <1>3, <2>1 DEF LastAbout
  <2> QED
    BY <2>1, <2>2 DEF Follows
<1>4. ASSUME NEW p \in DOMAIN ports, has, \A i \in DOMAIN z : ~About(z[i], p)
      PROVE  p \in DOMAIN known /\ known[p] = ports[p]
  <2>1. \A i \in DOMAIN s : ~About(s[i], p)
    BY <1>1, <1>4
  <2> QED
    BY <1>4, <2>1 DEF Follows
<1>5. Follows(z, known, has, ports)
  BY <1>3, <1>4 DEF Follows
<1> QED
  BY <1>5 DEF z

(* A message that says what a port now is.                                 *)
LEMMA FollowsNews ==
  ASSUME NEW s \in Seq(ToCtl), NEW m \in ToCtl, NEW known, NEW has \in BOOLEAN,
         NEW ports, NEW now, Follows(s, known, has, ports),
         \A p \in DOMAIN now : IF About(m, p) THEN Says(m, p, now[p])
                               ELSE p \in DOMAIN ports /\ now[p] = ports[p]
  PROVE  Follows(Append(s, m), known, has, now)
<1> DEFINE z == Append(s, m)
<1>1. /\ Len(s) \in Nat /\ DOMAIN s = 1..Len(s) /\ DOMAIN z = 1..(Len(s) + 1)
      /\ z[Len(s) + 1] = m /\ \A i \in 1..Len(s) : z[i] = s[i]
  OBVIOUS
<1> HIDE DEF z
<1>2. ASSUME NEW p \in DOMAIN now, NEW i \in DOMAIN z, LastAbout(z, i, p)
      PROVE  Says(z[i], p, now[p])
  <2>1. CASE About(m, p)
    <3>1. i = Len(s) + 1
      BY <1>1, <1>2, <2>1 DEF LastAbout
    <3> QED
      BY <1>1, <2>1, <3>1
  <2>2. CASE ~About(m, p)
    <3>1. i \in DOMAIN s /\ z[i] = s[i]
      BY <1>1, <1>2, <2>2 DEF LastAbout
    <3>2. LastAbout(s, i, p)
      BY <1>1, <1>2, <3>1 DEF LastAbout
    <3> QED
      BY <2>2, <3>1, <3>2 DEF Follows
  <2> QED
    BY <2>1, <2>2
<1>3. ASSUME NEW p \in DOMAIN now, has, \A i \in DOMAIN z : ~About(z[i], p)
      PROVE  p \in DOMAIN known /\ known[p] = now[p]
  <2>1. ~About(m, p) /\ \A i \in DOMAIN s : ~About(s[i], p)
    BY <1>1, <1>3
  <2> QED
    BY <1>3, <2>1 DEF Follows
<1>4. Follows(z, known, has, now)
  BY <1>2, <1>3 DEF Follows
<1> QED
  BY <1>4 DEF z

(* The first message is read, and what POX knows becomes new.              *)
LEMMA FollowsRead ==
  ASSUME NEW s \in Seq(ToCtl), s # <<>>, NEW known, NEW has \in BOOLEAN, NEW ports,
         NEW new, NEW has2 \in BOOLEAN, Follows(s, known, has, ports),
         has2 => has \/ s[1].t = "FEATURES_REPLY",
         \A p \in DOMAIN ports :
           IF About(s[1], p) THEN Says(s[1], p, ports[p]) => p \in DOMAIN new /\ new[p] = ports[p]
           ELSE p \in DOMAIN known => p \in DOMAIN new /\ new[p] = known[p]
  PROVE  Follows(Tail(s), new, has2, ports)
<1> DEFINE z == Tail(s)
<1>1. /\ Len(s) \in Nat /\ Len(s) > 0 /\ DOMAIN s = 1..Len(s) /\ DOMAIN z = 1..(Len(s) - 1)
      /\ \A i \in 1..(Len(s) - 1) : z[i] = s[i + 1]
  OBVIOUS
<1> HIDE DEF z
<1>2. ASSUME NEW p \in DOMAIN ports, NEW i \in DOMAIN z, LastAbout(z, i, p)
      PROVE  Says(z[i], p, ports[p])
  <2>1. i + 1 \in DOMAIN s /\ z[i] = s[i + 1]
    BY <1>1
  <2>2. ASSUME NEW k \in DOMAIN s, k > i + 1 PROVE ~About(s[k], p)
    <3>1. k - 1 \in DOMAIN z /\ k - 1 > i /\ z[k - 1] = s[k]
      BY <1>1, <2>2
    <3> QED
      BY <1>2, <3>1 DEF LastAbout
  <2>3. LastAbout(s, i + 1, p)
    BY <1>2, <2>1, <2>2 DEF LastAbout
  <2> QED
    BY <2>1, <2>3 DEF Follows
<1>3. ASSUME NEW p \in DOMAIN ports, has2, \A i \in DOMAIN z : ~About(z[i], p)
      PROVE  p \in DOMAIN new /\ new[p] = ports[p]
  <2>1. ASSUME NEW k \in DOMAIN s, k > 1 PROVE ~About(s[k], p)
    <3>1. k - 1 \in DOMAIN z /\ z[k - 1] = s[k]
      BY <1>1, <2>1
    <3> QED
      BY <1>3, <3>1
  <2>2. CASE About(s[1], p)
    <3>1. 1 \in DOMAIN s /\ LastAbout(s, 1, p)
      BY <1>1, <2>1, <2>2 DEF LastAbout
    <3> QED
      BY <2>2, <3>1 DEF Follows
  <2>3. CASE ~About(s[1], p)
    <3>1. has
      BY <1>3, <2>3 DEF About
    <3>2. \A k \in DOMAIN s : ~About(s[k], p)
      <4> TAKE k \in DOMAIN s
      <4>1. k = 1 \/ k > 1
        BY <1>1
      <4> QED
        BY <4>1, <2>1, <2>3
    <3>3. p \in DOMAIN known /\ known[p] = ports[p]
      BY <3>1, <3>2 DEF Follows
    <3> QED
      BY <2>3, <3>3
  <2> QED
    BY <2>2, <2>3
<1>4. Follows(z, new, has2, ports)
  BY <1>2, <1>3 DEF Follows
<1> QED
  BY <1>4 DEF z

(* The ports of a connection after a step of it.                           *)
LEMMA OwnPorts ==
  ASSUME Basics, PortsInv, NEW c \in Connections, Act(c)
  PROVE  PortsFollow(c)'
<1>0. /\ Types /\ Fresh(c) /\ Kept(c) /\ PortsFollow(c)
      /\ to_ctl[c] \in Seq(ToCtl) /\ con[c].has_nexus \in BOOLEAN
  BY DEF Basics, PortsInv, Types, Connection
<1> SUFFICES ASSUME link'[c] = "open"
             PROVE  Follows(to_ctl'[c], con'[c].ports, con'[c].has_nexus, sw'[c].ports)
  BY DEF PortsFollow
<1>1. CASE Accept(c)
  <2>1. to_ctl'[c] = <<>> /\ con[c] = NewConnection
        /\ con'[c] = [con[c] EXCEPT !.open = TRUE]
    BY <1>0, <1>1 DEF Accept, Fresh, Types
  <2>2. ~con'[c].has_nexus
    BY <2>1 DEF NewConnection
  <2>3. DOMAIN to_ctl'[c] = {}
    BY <2>1
  <2> QED
    BY <2>2, <2>3 DEF Follows
<1>q. ASSUME link[c] = "open", con' = con, sw'[c].ports = sw[c].ports,
             NEW m \in ToCtl, m.t \notin {"FEATURES_REPLY", "PORT_STATUS"},
             to_ctl'[c] = Append(to_ctl[c], m)
      PROVE  Follows(to_ctl'[c], con'[c].ports, con'[c].has_nexus, sw'[c].ports)
  BY <1>0, <1>q, FollowsQuiet DEF PortsFollow
<1>2. CASE Greet(c)
  <2>1. [t |-> "HELLO"] \in ToCtl
    BY DEF ToCtl
  <2>2. to_ctl'[c] = Append(to_ctl[c], [t |-> "HELLO"]) /\ con' = con /\ link[c] = "open"
    BY <1>0, <1>2 DEF Greet, Write, controller, Types
  <2>3. sw'[c] = [sw[c] EXCEPT !.hellos = @ - 1]
    BY <1>0, <1>2 DEF Greet, Types
  <2>4. sw'[c].ports = sw[c].ports
    BY <1>0, <2>3, SwitchType DEF Switch
  <2> QED
    BY <1>q, <2>1, <2>2, <2>4
<1>3. CASE Answer(c)
  <2>0. Head(to_switch[c]) \in ToSwitch
    BY <1>0, <1>3 DEF Answer, Types
  <2>1. PICK ms \in answer(c, Head(to_switch[c])) : Write(c, ms)
    BY <1>3 DEF Answer
  <2>2. to_ctl'[c] = to_ctl[c] \o ms /\ con' = con /\ sw' = sw /\ link[c] = "open"
        /\ c \in DOMAIN switches.dpid
    BY <1>0, <1>3, <2>1 DEF Answer, Write, controller, Types, Kept
  <2>3. CASE Head(to_switch[c]).t = "FEATURES_REQUEST"
    <3> DEFINE m == [t |-> "FEATURES_REPLY", dpid |-> switches.dpid[c], ports |-> sw[c].ports]
    <3>1. ms = <<m>>
      BY <2>3 DEF answer
    <3>2. m.t = "FEATURES_REPLY" /\ m.ports = sw[c].ports
      OBVIOUS
    <3> HIDE DEF m
    <3>3. ms \in Seq(ToCtl)
      BY <1>0, <2>0, <2>2, AnswerType
    <3>4. m \in ToCtl
      BY <3>1, <3>3
    <3>5. to_ctl'[c] = Append(to_ctl[c], m)
      BY <1>0, <2>2, <3>1, <3>4
    <3>6. \A p \in DOMAIN sw[c].ports : About(m, p) /\ Says(m, p, sw[c].ports[p])
      BY <3>2 DEF About, Says
    <3> QED
      BY <1>0, <2>2, <3>4, <3>5, <3>6, FollowsNews DEF PortsFollow
  <2>4. CASE Head(to_switch[c]).t = "BARRIER_REQUEST"
    <3>1. PICK m \in {[t |-> "BARRIER_REPLY", xid |-> Head(to_switch[c]).xid],
                      [t |-> "ERROR", xid |-> Head(to_switch[c]).xid]} : ms = <<m>>
      BY <2>4 DEF answer
    <3>2. m.t \notin {"FEATURES_REPLY", "PORT_STATUS"}
      OBVIOUS
    <3>3. ms \in Seq(ToCtl)
      BY <1>0, <2>0, <2>2, AnswerType
    <3>4. m \in ToCtl
      BY <3>1, <3>3
    <3>5. to_ctl'[c] = Append(to_ctl[c], m)
      BY <1>0, <2>2, <3>1, <3>4
    <3> QED
      BY <1>q, <2>2, <3>2, <3>4, <3>5
  <2>5. CASE Head(to_switch[c]).t \notin {"FEATURES_REQUEST", "BARRIER_REQUEST"}
    <3>1. ms = <<>>
      BY <2>5 DEF answer
    <3>2. to_ctl'[c] = to_ctl[c]
      BY <1>0, <2>2, <3>1
    <3> QED
      BY <1>0, <2>2, <3>2 DEF PortsFollow
  <2> QED
    BY <2>3, <2>4, <2>5
<1>4. CASE ReportPort(c)
  <2>1. PICK p \in DOMAIN switches.ports \cup {0}, deleted \in BOOLEAN, up \in BOOLEAN :
          Reported(c, p, deleted, up)
    BY <1>0, <1>4, ReportStep
  <2> DEFINE m == [t |-> "PORT_STATUS", port |-> p, deleted |-> deleted, up |-> up]
             now == IF deleted THEN [q \in DOMAIN sw[c].ports \ {p} |-> sw[c].ports[q]]
                               ELSE _update(sw[c].ports, p, up)
  <2>2. sw'[c] = [sw[c] EXCEPT !.changes = sw[c].changes - 1, !.ports = now]
    BY <1>0, <2>1 DEF Reported, Types
  <2>3. sw'[c].ports = now
    BY <1>0, <2>2, SwitchType DEF Switch
  <2>4. m \in ToCtl
    BY <1>0, ReportType DEF ToCtl
  <2>5. to_ctl'[c] = Append(to_ctl[c], m) /\ con' = con /\ link[c] = "open"
    BY <1>0, <1>4, <2>1, <2>4 DEF Reported, Write, port_status, Types, ReportPort, controller
  <2>6. m.t = "PORT_STATUS" /\ m.port = p /\ m.deleted = deleted /\ m.up = up
    OBVIOUS
  <2>7. \A q \in DOMAIN now : IF q = p THEN ~deleted /\ now[q] = up
                              ELSE q \in DOMAIN sw[c].ports /\ now[q] = sw[c].ports[q]
    BY DEF _update
  <2> HIDE DEF m, now
  <2>8. \A q \in DOMAIN now : IF About(m, q) THEN Says(m, q, now[q])
                              ELSE q \in DOMAIN sw[c].ports /\ now[q] = sw[c].ports[q]
    BY <2>6, <2>7 DEF About, Says
  <2> QED
    BY <1>0, <2>3, <2>4, <2>5, <2>8, FollowsNews DEF PortsFollow
<1>5. CASE SendStats(c)
  <2>1. sw[c].stats \in Seq(StatsPart) /\ sw[c].stats # <<>> /\ link[c] = "open" /\ con' = con
    BY <1>0, <1>5, SwitchType DEF SendStats, controller
  <2> DEFINE a == [t |-> "ECHO_REQUEST"]
             m == Head(sw[c].stats)
  <2>2. m \in StatsPart
    BY <2>1
  <2>3. m \in ToCtl /\ a \in ToCtl /\ a.t = "ECHO_REQUEST" /\ m.t = "STATS_REPLY"
    BY <2>2 DEF ToCtl, StatsPart
  <2> HIDE DEF a, m
  <2>4. to_ctl'[c] = to_ctl[c] \o <<a, m>>
    BY <1>0, <1>5 DEF SendStats, Write, Types, a, m
  <2>5. to_ctl'[c] = Append(Append(to_ctl[c], a), m) /\ Append(to_ctl[c], a) \in Seq(ToCtl)
    BY <1>0, <2>3, <2>4
  <2>6. sw'[c] = [sw[c] EXCEPT !.stats = Tail(@)]
    BY <1>0, <1>5 DEF SendStats, Types
  <2>7. sw'[c].ports = sw[c].ports
    BY <1>0, <2>6, SwitchType DEF Switch
  <2>8. Follows(Append(to_ctl[c], a), con[c].ports, con[c].has_nexus, sw[c].ports)
    BY <1>0, <2>1, <2>3, FollowsQuiet DEF PortsFollow
  <2>9. Follows(to_ctl'[c], con[c].ports, con[c].has_nexus, sw[c].ports)
    BY <1>0, <2>3, <2>5, <2>8, FollowsQuiet
  <2> QED
    BY <2>1, <2>7, <2>9
<1>6. CASE Leave(c) \/ CloseConnection(c) \/ SendFromThread(c)
  BY <1>0, <1>6 DEF Leave, CloseConnection, SendFromThread, Types
<1>7. CASE DeferredSend(c) \/ SelectFails(c)
  <2>1. CASE PassOn(c) \/ GivesUp(c)
    BY <1>0, <2>1 DEF PassOn, GivesUp, PortsFollow
  <2>2. CASE CutOff(c)
    BY <1>0, <2>2, CutOffShuts DEF CutOff, Shuts, PortsFollow
  <2> QED
    BY <1>7, <2>1, <2>2, DeferredStep
<1>8. CASE Read(c)
  <2>1. PICK m \in ToCtl, w \in World : ReadTo(c, m, w)
    BY <1>0, <1>8, ReadStep
  <2>2. /\ to_ctl'[c] = Tail(to_ctl[c]) /\ con'[c] = w.con /\ link[c] = "open" /\ sw' = sw
        /\ to_ctl[c] # <<>> /\ m = to_ctl[c][1]
    BY <1>0, <2>1 DEF ReadTo, Types
  <2>3. ByHandler(c, m, w) /\ w.con.has_nexus \in BOOLEAN /\ con[c].ports \in PortMap
    BY <1>0, <2>1 DEF ReadTo, World, Connection, Types
  <2> DEFINE news == IF m.t = "FEATURES_REPLY" THEN m.ports
                     ELSE IF m.t = "PORT_STATUS" /\ ~m.deleted
                          THEN _update(con[c].ports, m.port, m.up) ELSE con[c].ports
  <2>4. w.con.ports = news /\ (w.con.has_nexus => con[c].has_nexus \/ m.t = "FEATURES_REPLY")
    <3>1. Now(c).con = con[c]
      BY DEF Now
    <3>2. CASE m.t \in {"HELLO", "ECHO_REQUEST"}
      BY <2>3, <3>1, <3>2 DEF ByHandler, Sent, Alike
    <3>3. CASE m.t = "FEATURES_REPLY"
      BY <2>3, <3>3 DEF ByHandler, Featured
    <3>4. CASE m.t \in {"BARRIER_REPLY", "ERROR"}
      BY <2>3, <3>4 DEF ByHandler, Barriered
    <3>5. CASE m.t \in {"PORT_STATUS", "STATS_REPLY"}
      BY <2>3, <3>5 DEF ByHandler, Stays
    <3> QED
      BY <2>3, <3>2, <3>3, <3>4, <3>5 DEF ByHandler
  <2>5. ASSUME NEW p, About(m, p), NEW up, Says(m, p, up)
        PROVE  p \in DOMAIN news /\ news[p] = up
    BY <2>5 DEF About, Says, _update
  <2>6. ASSUME NEW p, ~About(m, p), p \in DOMAIN con[c].ports
        PROVE  p \in DOMAIN news /\ news[p] = con[c].ports[p]
    BY <2>6 DEF About, _update
  <2> HIDE DEF news
  <2>7. Follows(to_ctl[c], con[c].ports, con[c].has_nexus, sw[c].ports)
    BY <1>0, <2>2 DEF PortsFollow
  <2>8. \A p \in DOMAIN sw[c].ports :
          IF About(m, p) THEN Says(m, p, sw[c].ports[p])
                                => p \in DOMAIN news /\ news[p] = sw[c].ports[p]
          ELSE p \in DOMAIN con[c].ports => p \in DOMAIN news /\ news[p] = con[c].ports[p]
    BY <2>5, <2>6
  <2>9. Follows(Tail(to_ctl[c]), news, w.con.has_nexus, sw[c].ports)
    <3> DEFINE s == to_ctl[c]
               known == con[c].ports
               has == con[c].has_nexus
               has2 == w.con.has_nexus
               ports == sw[c].ports
    <3>1. /\ s \in Seq(ToCtl) /\ s # <<>> /\ has \in BOOLEAN /\ has2 \in BOOLEAN
          /\ Follows(s, known, has, ports) /\ (has2 => has \/ s[1].t = "FEATURES_REPLY")
      BY <1>0, <2>2, <2>3, <2>4, <2>7
    <3>2. \A p \in DOMAIN ports :
            IF About(s[1], p) THEN Says(s[1], p, ports[p]) => p \in DOMAIN news /\ news[p] = ports[p]
            ELSE p \in DOMAIN known => p \in DOMAIN news /\ news[p] = known[p]
      BY <2>2, <2>8
    <3> HIDE DEF s, known, has, has2, ports
    <3>3. Follows(Tail(s), news, has2, ports)
      BY <3>1, <3>2, FollowsRead
    <3> QED
      BY <3>3 DEF s, has2, ports
  <2> QED
    BY <2>2, <2>4, <2>9
<1> QED
  BY <1>1, <1>2, <1>3, <1>4, <1>5, <1>6, <1>7, <1>8 DEF Act

(* What is known of the ports follows the switch through every step.       *)
LEMMA PortsNext == Basics /\ PortsInv /\ [Next]_vars => PortsInv'
<1> SUFFICES ASSUME Basics, PortsInv, [Next]_vars PROVE PortsInv'
  OBVIOUS
<1>0. Types
  BY DEF Basics
<1>1. ASSUME NEW c \in Connections, Act(c) PROVE PortsInv'
  <2>1. ASSUME NEW b \in Connections \ {c} PROVE PortsFollow(b)'
    <3>1. Untouched(b) /\ PortsFollow(b)
      BY <1>0, <1>1, OthersUntouched DEF PortsInv
    <3> QED
      BY <3>1 DEF Untouched, PortsFollow
  <2> QED
    BY <1>1, <2>1, OwnPorts DEF PortsInv
<1>2. CASE HandleDownEvent
  <2>1. ASSUME NEW c \in Connections PROVE PortsFollow(c)'
    <3>1. con'[c].ports = con[c].ports /\ con'[c].has_nexus = con[c].has_nexus
      BY <1>0, <1>2, DownShuts DEF Shuts
    <3>2. UNCHANGED <<link, to_ctl, sw>> /\ PortsFollow(c)
      BY <1>2 DEF HandleDownEvent, PortsInv
    <3> QED
      BY <3>1, <3>2 DEF PortsFollow
  <2> QED
    BY <2>1 DEF PortsInv
<1>3. CASE UNCHANGED vars
  BY <1>3 DEF vars, controller, PortsInv, PortsFollow
<1> QED
  BY <1>1, <1>2, <1>3, Steps

-----------------------------------------------------------------------------
(* Another message, which is no part of the statistics.                    *)
LEMMA AwaitsQuiet ==
  ASSUME NEW s \in Seq(ToCtl), NEW m \in ToCtl, m.t # "STATS_REPLY",
         NEW all \in Seq(StatsPart), NEW left, NEW prev, Awaits(s, all, left, prev)
  PROVE  Awaits(Append(s, m), all, left, prev)
<1> DEFINE z == Append(s, m)
           n == Len(s)
<1>1. PICK at \in [0..n -> 0..Len(all)] :
        Numbered(s, all, left, at) /\ Collected(prev, all, at[0])
  BY DEF Awaits
<1>2. /\ n \in Nat /\ Len(all) \in Nat /\ Len(z) = n + 1 /\ z[n + 1] = m
      /\ \A i \in 1..n : z[i] = s[i]
  OBVIOUS
<1> HIDE DEF z
<1> DEFINE new == [i \in 0..(n + 1) |-> IF i <= n THEN at[i] ELSE at[n]]
<1>3. /\ new \in [0..Len(z) -> 0..Len(all)] /\ new[n + 1] = at[n] /\ new[0] = at[0]
      /\ \A i \in 0..n : new[i] = at[i]
  BY <1>2
<1> HIDE DEF new, n
<1>4. ASSUME NEW i \in 1..Len(z)
      PROVE  IF z[i].t = "STATS_REPLY" THEN new[i] = new[i - 1] + 1 /\ z[i] = all[new[i]]
                                       ELSE new[i] = new[i - 1]
  <2>1. CASE i = n + 1
    BY <1>2, <1>3, <2>1
  <2>2. CASE i \in 1..n
    <3>1. i \in 0..n /\ i - 1 \in 0..n
      BY <1>2, <2>2
    <3> QED
      BY <1>1, <1>2, <1>3, <2>2, <3>1 DEF Numbered, n
  <2> QED
    BY <1>2, <2>1, <2>2
<1>5. new[Len(z)] = Len(all) - Len(left)
  BY <1>1, <1>2, <1>3 DEF Numbered, n
<1>6. Awaits(z, all, left, prev)
  BY <1>1, <1>3, <1>4, <1>5 DEF Awaits, Numbered
<1> QED
  BY <1>6 DEF z

(* The next part of the statistics is sent.                                *)
LEMMA AwaitsPart ==
  ASSUME NEW s \in Seq(ToCtl), NEW all \in Seq(StatsPart), NEW left \in Seq(StatsPart),
         left # <<>>, Rest(all, left), NEW prev, Awaits(s, all, left, prev)
  PROVE  Awaits(Append(s, Head(left)), all, Tail(left), prev) /\ Rest(all, Tail(left))
<1> DEFINE z == Append(s, Head(left))
           n == Len(s)
           k == Len(all) - Len(left)
<1>1. PICK at \in [0..n -> 0..Len(all)] :
        Numbered(s, all, left, at) /\ Collected(prev, all, at[0])
  BY DEF Awaits
<1>2. /\ n \in Nat /\ Len(all) \in Nat /\ Len(z) = n + 1 /\ z[n + 1] = Head(left)
      /\ \A i \in 1..n : z[i] = s[i]
  OBVIOUS
<1>a. /\ Len(left) \in Nat /\ Len(left) > 0 /\ Len(Tail(left)) = Len(left) - 1
      /\ Head(left) = left[1] /\ \A j \in 1..(Len(left) - 1) : Tail(left)[j] = left[j + 1]
  OBVIOUS
<1>b. k \in Nat /\ k + 1 \in 1..Len(all) /\ Head(left) = all[k + 1]
  BY <1>2, <1>a DEF Rest
<1>c. Head(left).t = "STATS_REPLY"
  <2>1. Head(left) \in StatsPart
    OBVIOUS
  <2> HIDE DEF n
  <2> QED
    BY <2>1 DEF StatsPart
<1>d. Rest(all, Tail(left))
  <2>1. ASSUME NEW j \in 1..(Len(left) - 1)
        PROVE  Tail(left)[j] = all[Len(all) - (Len(left) - 1) + j]
    <3>1. j + 1 \in 1..Len(left) /\ Len(all) - (Len(left) - 1) + j = Len(all) - Len(left) + (j + 1)
      BY <1>2, <1>a
    <3> QED
      BY <1>a, <3>1 DEF Rest
  <2> QED
    BY <1>2, <1>a, <2>1 DEF Rest
<1> HIDE DEF z
<1> DEFINE new == [i \in 0..(n + 1) |-> IF i <= n THEN at[i] ELSE k + 1]
<1>3. /\ new \in [0..Len(z) -> 0..Len(all)] /\ new[n + 1] = k + 1 /\ new[0] = at[0]
      /\ \A i \in 0..n : new[i] = at[i]
  BY <1>2, <1>b
<1>e. at[n] = k
  BY <1>1 DEF Numbered
<1> HIDE DEF new, n, k
<1>4. ASSUME NEW i \in 1..Len(z)
      PROVE  IF z[i].t = "STATS_REPLY" THEN new[i] = new[i - 1] + 1 /\ z[i] = all[new[i]]
                                       ELSE new[i] = new[i - 1]
  <2>1. CASE i = n + 1
    <3>1. new[i - 1] = k /\ new[i] = k + 1 /\ z[i] = Head(left)
      BY <1>2, <1>3, <1>e, <2>1
    <3> QED
      BY <1>b, <1>c, <3>1
  <2>2. CASE i \in 1..n
    <3>1. i \in 0..n /\ i - 1 \in 0..n
      BY <1>2, <2>2
    <3> QED
      BY <1>1, <1>2, <1>3, <2>2, <3>1 DEF Numbered, n
  <2> QED
    BY <1>2, <2>1, <2>2
<1>5. new[Len(z)] = Len(all) - Len(Tail(left))
  BY <1>2, <1>3, <1>a DEF k
<1>6. Awaits(z, all, Tail(left), prev)
  BY <1>1, <1>3, <1>4, <1>5 DEF Awaits, Numbered
<1> QED
  BY <1>6, <1>d DEF z

(* The first message is read: what it is, and what is awaited then.        *)
LEMMA AwaitsRead ==
  ASSUME NEW s \in Seq(ToCtl), s # <<>>, NEW all \in Seq(StatsPart), NEW left, NEW prev,
         NEW at \in [0..Len(s) -> 0..Len(all)], Numbered(s, all, left, at),
         NEW next, Collected(next, all, at[1])
  PROVE  Awaits(Tail(s), all, left, next)
<1> DEFINE z == Tail(s)
           n == Len(s)
<1>2. /\ n \in Nat /\ n > 0 /\ Len(all) \in Nat /\ Len(z) = n - 1
      /\ \A i \in 1..(n - 1) : z[i] = s[i + 1]
  OBVIOUS
<1> HIDE DEF z
<1> DEFINE new == [i \in 0..(n - 1) |-> at[i + 1]]
<1>3. /\ new \in [0..Len(z) -> 0..Len(all)] /\ new[0] = at[1] /\ new[n - 1] = at[n]
      /\ \A i \in 0..(n - 1) : new[i] = at[i + 1]
  BY <1>2
<1> HIDE DEF new, n
<1>4. ASSUME NEW i \in 1..Len(z)
      PROVE  IF z[i].t = "STATS_REPLY" THEN new[i] = new[i - 1] + 1 /\ z[i] = all[new[i]]
                                       ELSE new[i] = new[i - 1]
  <2>1. i + 1 \in 1..n /\ new[i] = at[i + 1] /\ new[i - 1] = at[(i + 1) - 1] /\ z[i] = s[i + 1]
    BY <1>2, <1>3
  <2> QED
    BY <2>1 DEF Numbered, n
<1>5. new[Len(z)] = Len(all) - Len(left)
  BY <1>2, <1>3 DEF Numbered, n
<1>6. Awaits(z, all, left, next)
  BY <1>3, <1>4, <1>5 DEF Awaits, Numbered
<1> QED
  BY <1>6 DEF z

(* _incoming_stats_reply: the next part is kept, or completes its reply,   *)
(* or is a reply by itself, or is lost; an event is always whole.          *)
LEMMA CollectNext ==
  ASSUME NEW all \in Seq(StatsPart), InTurn(all), NEW n \in 0..Len(all), n + 1 <= Len(all),
         NEW prev \in Seq(StatsPart), Collected(prev, all, n)
  PROVE  LET reply == incoming_stats_reply(prev, all[n + 1])
         IN Collected(reply.previous, all, n + 1) /\ Whole(reply.event)
<1> DEFINE m == all[n + 1]
           reply == incoming_stats_reply(prev, m)
           k == Len(prev)
<1>1. /\ n \in Nat /\ Len(all) \in Nat /\ n + 1 \in DOMAIN all /\ (n + 1) - 1 = n
      /\ m \in StatsPart /\ k \in Nat
  OBVIOUS
<1>2. /\ Len(Append(prev, m)) = k + 1 /\ Append(prev, m)[k + 1] = m
      /\ \A i \in 1..k : Append(prev, m)[i] = prev[i]
      /\ DOMAIN Append(prev, m) = 1..(k + 1) /\ Append(prev, m) # <<>> /\ DOMAIN prev = 1..k
  OBVIOUS
<1>3. /\ (\A j \in 1..n : ~Unfinished(all, j, n)) => m.part = 1
      /\ \A j \in 1..n : Unfinished(all, j, n) =>
           IF m.xid = all[j].xid THEN m.part = all[j].part + 1 ELSE m.last /\ m.part = 1
  BY <1>1 DEF InTurn
<1>4. \A j \in 1..n : Unfinished(all, j, n + 1) <=> Unfinished(all, j, n) /\ m.last /\ m.part = 1
  BY <1>1 DEF Unfinished
<1>5. Unfinished(all, n + 1, n + 1) <=> ~m.last
  BY <1>1 DEF Unfinished
<1>6. m.last \in BOOLEAN /\ m.part \in Nat
  BY <1>1 DEF StatsPart
<1> HIDE DEF m, k
<1>7. CASE prev = <<>>
  <2>1. m.part = 1 /\ k = 0 /\ \A j \in 1..n : ~Unfinished(all, j, n + 1)
    BY <1>3, <1>4, <1>7 DEF Collected, k
  <2>2. CASE m.last
    <3>1. reply.previous = <<>> /\ reply.event = Append(prev, m)
      BY <1>7, <2>2 DEF incoming_stats_reply
    <3> HIDE DEF reply
    <3>2. \A j \in 1..(n + 1) : ~Unfinished(all, j, n + 1)
      BY <1>1, <1>5, <2>1, <2>2
    <3>3. Collected(reply.previous, all, n + 1)
      BY <3>1, <3>2 DEF Collected
    <3>4. Whole(reply.event)
      BY <1>2, <2>1, <2>2, <3>1 DEF Whole
    <3> QED
      BY <3>3, <3>4 DEF reply, m
  <2>3. CASE ~m.last
    <3>1. reply.previous = Append(prev, m) /\ reply.event = <<>>
      BY <1>7, <2>3 DEF incoming_stats_reply
    <3> HIDE DEF reply
    <3>2. /\ Unfinished(all, n + 1, n + 1) /\ n + 1 \in 1..(n + 1) /\ all[n + 1] = m
          /\ \A i \in 1..1 : Append(prev, m)[i] = m
      BY <1>1, <1>2, <1>5, <2>1, <2>3 DEF m
    <3>3. Collected(reply.previous, all, n + 1)
      BY <1>2, <2>1, <3>1, <3>2 DEF Collected
    <3>4. Whole(reply.event)
      BY <3>1 DEF Whole
    <3> QED
      BY <3>3, <3>4 DEF reply, m
  <2> QED
    BY <1>6, <2>2, <2>3
<1>8. CASE prev # <<>>
  <2>1. PICK j \in 1..n : /\ Unfinished(all, j, n) /\ all[j].part = k
                          /\ \A i \in 1..k : prev[i].xid = all[j].xid /\ prev[i].part = i
    BY <1>2, <1>8 DEF Collected, k
  <2>2. k > 0 /\ 1 \in 1..k /\ prev[1].xid = all[j].xid
    BY <1>1, <1>8, <2>1 DEF k
  <2>3. CASE m.xid # all[j].xid
    <3>1. m.last /\ m.part = 1 /\ Unfinished(all, j, n + 1)
      BY <1>3, <1>4, <2>1, <2>3
    <3>2. reply.previous = prev /\ reply.event = <<>>
      BY <1>8, <2>2, <2>3 DEF incoming_stats_reply
    <3> HIDE DEF reply
    <3>3. Collected(reply.previous, all, n + 1)
      BY <1>1, <1>2, <1>8, <2>1, <3>1, <3>2 DEF Collected, k
    <3>4. Whole(reply.event)
      BY <3>2 DEF Whole
    <3> QED
      BY <3>3, <3>4 DEF reply, m
  <2>4. CASE m.xid = all[j].xid
    <3>1. m.part = k + 1 /\ m.part # 1
      BY <1>3, <2>1, <2>2, <2>4, <1>1
    <3>2. \A i \in 1..n : ~Unfinished(all, i, n + 1)
      BY <1>4, <3>1
    <3>3. \A i \in 1..(k + 1) : Append(prev, m)[i].xid = m.xid /\ Append(prev, m)[i].part = i
      <4> TAKE i \in 1..(k + 1)
      <4>1. CASE i = k + 1
        BY <1>2, <3>1, <4>1
      <4>2. CASE i \in 1..k
        BY <1>2, <2>1, <2>4, <4>2
      <4>3. k \in Nat
        BY <1>1
      <4>4. i = k + 1 \/ i \in 1..k
        BY <4>3
      <4> QED
        BY <4>1, <4>2, <4>4
    <3>4. CASE m.last
      <4>1. reply.previous = <<>> /\ reply.event = Append(prev, m)
        BY <1>8, <2>2, <2>4, <3>4 DEF incoming_stats_reply
      <4> HIDE DEF reply
      <4>2. \A i \in 1..(n + 1) : ~Unfinished(all, i, n + 1)
        BY <1>1, <1>5, <3>2, <3>4
      <4>3. Collected(reply.previous, all, n + 1)
        BY <4>1, <4>2 DEF Collected
      <4>4. 1 \in 1..(k + 1)
        BY <1>1
      <4>5. Whole(reply.event)
        BY <1>2, <3>3, <3>4, <4>1, <4>4 DEF Whole
      <4> QED
        BY <4>3, <4>5 DEF reply, m
    <3>5. CASE ~m.last
      <4>1. reply.previous = Append(prev, m) /\ reply.event = <<>>
        BY <1>8, <2>2, <2>4, <3>5 DEF incoming_stats_reply
      <4> HIDE DEF reply
      <4>2. Unfinished(all, n + 1, n + 1) /\ n + 1 \in 1..(n + 1) /\ all[n + 1] = m
        BY <1>1, <1>5, <3>5 DEF m
      <4>a. DOMAIN Append(prev, m) = 1..(k + 1) /\ Len(Append(prev, m)) = k + 1
            /\ Append(prev, m) # <<>>
        BY <1>2
      <4>3. Collected(Append(prev, m), all, n + 1)
        BY <3>1, <3>3, <4>2, <4>a DEF Collected
      <4>4. Whole(reply.event)
        BY <4>1 DEF Whole
      <4> QED
        BY <4>1, <4>3, <4>4 DEF reply, m
    <3> QED
      BY <1>6, <3>4, <3>5
  <2> QED
    BY <2>3, <2>4
<1> QED
  BY <1>7, <1>8

(* The statistics of the switch behind a connection.                       *)
LEMMA AllStats ==
  ASSUME Types
  PROVE  switches.stats \in Seq(StatsPart) /\ InTurn(switches.stats)
  BY SwitchesAssumption DEF Types

(* At first all parts are left, and none has been read.                    *)
LEMMA StatsInit == Init => StatsInv
<1> SUFFICES ASSUME Init, NEW c \in Connections PROVE StatsFollow(c)
  BY DEF StatsInv
<1> DEFINE all == switches.stats
<1>1. all \in Seq(StatsPart)
  BY TypesInit, AllStats
<1>2. /\ sw[c].stats = all /\ to_ctl[c] = <<>> /\ con[c].previous_stats = <<>>
      /\ received[c] = <<>> /\ link[c] = "new"
  BY DEF Init, NewConnection
<1> HIDE DEF all
<1>3. Len(all) \in Nat
  BY <1>1
<1>4. Rest(all, all)
  BY <1>3 DEF Rest
<1> DEFINE at == [i \in 0..0 |-> 0]
<1>5. at \in [0..Len(<<>>) -> 0..Len(all)] /\ at[0] = 0 /\ Len(<<>>) = 0
  BY <1>3
<1> HIDE DEF at
<1>6. Numbered(<<>>, all, all, at) /\ Collected(<<>>, all, at[0])
  BY <1>3, <1>5 DEF Numbered, Collected
<1>7. Awaits(<<>>, all, all, <<>>)
  BY <1>5, <1>6 DEF Awaits
<1> QED
  BY <1>2, <1>4, <1>7 DEF StatsFollow, Whole, all

(* The statistics of a connection after a step of it.                      *)
LEMMA OwnStats ==
  ASSUME Basics, StatsInv, NEW c \in Connections, Act(c)
  PROVE  StatsFollow(c)'
<1> DEFINE all == switches.stats
           left == sw[c].stats
           prev == con[c].previous_stats
           s == to_ctl[c]
<1>0. /\ Types /\ Fresh(c) /\ Kept(c) /\ StatsFollow(c) /\ switches' = switches
  BY OthersUntouched DEF Basics, StatsInv
<1>a. s \in Seq(ToCtl) /\ prev \in Seq(StatsPart) /\ left \in Seq(StatsPart)
  BY <1>0, SwitchType DEF Types, Connection
<1>b. all \in Seq(StatsPart) /\ InTurn(all)
  BY <1>0, AllStats
<1>c. /\ Rest(all, left) /\ (con[c].open \/ link[c] = "new" => Awaits(s, all, left, prev))
      /\ (link[c] = "open" => con[c].open) /\ Whole(received[c])
  BY <1>0 DEF StatsFollow
<1>q. ASSUME link[c] = "open", link'[c] = "open", con' = con, sw'[c].stats = left,
             received' = received, NEW m \in ToCtl, m.t # "STATS_REPLY",
             to_ctl'[c] = Append(s, m)
      PROVE  StatsFollow(c)'
  <2>1. Awaits(Append(s, m), all, left, prev)
    BY <1>a, <1>b, <1>c, <1>q, AwaitsQuiet
  <2> QED
    BY <1>0, <1>c, <1>q, <2>1 DEF StatsFollow
<1>1. CASE Accept(c)
  <2>1. /\ to_ctl' = to_ctl /\ sw' = sw /\ received' = received /\ link[c] = "new"
        /\ con'[c] = [con[c] EXCEPT !.open = TRUE]
    BY <1>0, <1>1 DEF Accept, Types
  <2>2. con'[c].open /\ con'[c].previous_stats = prev
    BY <1>0, <2>1 DEF Types, Connection
  <2> QED
    BY <1>0, <1>c, <2>1, <2>2 DEF StatsFollow
<1>2. CASE Greet(c)
  <2>1. [t |-> "HELLO"] \in ToCtl
    BY DEF ToCtl
  <2>2. /\ to_ctl'[c] = Append(s, [t |-> "HELLO"]) /\ con' = con /\ link[c] = "open"
        /\ link' = link /\ received' = received
    BY <1>0, <1>2 DEF Greet, Write, controller, Types
  <2>3. sw'[c] = [sw[c] EXCEPT !.hellos = @ - 1]
    BY <1>0, <1>2 DEF Greet, Types
  <2>4. sw'[c].stats = left
    BY <1>0, <2>3, SwitchType DEF Switch
  <2> QED
    BY <1>q, <2>1, <2>2, <2>4
<1>3. CASE Answer(c)
  <2>0. Head(to_switch[c]) \in ToSwitch
    BY <1>0, <1>3 DEF Answer, Types
  <2>1. PICK ms \in answer(c, Head(to_switch[c])) : Write(c, ms)
    BY <1>3 DEF Answer
  <2>2. /\ to_ctl'[c] = s \o ms /\ con' = con /\ sw' = sw /\ link[c] = "open"
        /\ link' = link /\ received' = received /\ c \in DOMAIN switches.dpid
    BY <1>0, <1>3, <2>1 DEF Answer, Write, controller, Types, Kept
  <2>3. ms \in Seq(ToCtl)
    BY <1>0, <2>0, <2>2, AnswerType
  <2>4. CASE ms = <<>>
    <3>1. to_ctl'[c] = s
      BY <1>a, <2>2, <2>4
    <3> QED
      BY <1>0, <1>c, <2>2, <3>1 DEF StatsFollow
  <2>5. ASSUME NEW m, ms = <<m>>, m.t # "STATS_REPLY" PROVE StatsFollow(c)'
    <3>1. m \in ToCtl
      BY <2>3, <2>5
    <3>2. to_ctl'[c] = Append(s, m)
      BY <1>a, <2>2, <2>5, <3>1
    <3> QED
      BY <1>q, <2>2, <2>5, <3>1, <3>2
  <2>6. ms = <<>> \/ \E m : ms = <<m>> /\ m.t # "STATS_REPLY"
    <3>1. CASE Head(to_switch[c]).t = "FEATURES_REQUEST"
      <4> DEFINE m == [t |-> "FEATURES_REPLY", dpid |-> switches.dpid[c], ports |-> sw[c].ports]
      <4>1. ms = <<m>> /\ m.t # "STATS_REPLY"
        BY <3>1 DEF answer
      <4> QED
        BY <4>1
    <3>2. CASE Head(to_switch[c]).t = "BARRIER_REQUEST"
      <4>1. PICK m \in {[t |-> "BARRIER_REPLY", xid |-> Head(to_switch[c]).xid],
                        [t |-> "ERROR", xid |-> Head(to_switch[c]).xid]} : ms = <<m>>
        BY <3>2 DEF answer
      <4>2. m.t # "STATS_REPLY"
        OBVIOUS
      <4> QED
        BY <4>1, <4>2
    <3>3. CASE Head(to_switch[c]).t \notin {"FEATURES_REQUEST", "BARRIER_REQUEST"}
      BY <3>3 DEF answer
    <3> QED
      BY <3>1, <3>2, <3>3
  <2> QED
    BY <2>4, <2>5, <2>6
<1>4. CASE ReportPort(c)
  <2>1. PICK p \in DOMAIN switches.ports \cup {0}, deleted \in BOOLEAN, up \in BOOLEAN :
          Reported(c, p, deleted, up)
    BY <1>0, <1>4, ReportStep
  <2> DEFINE m == [t |-> "PORT_STATUS", port |-> p, deleted |-> deleted, up |-> up]
             now == IF deleted THEN [q \in DOMAIN sw[c].ports \ {p} |-> sw[c].ports[q]]
                               ELSE _update(sw[c].ports, p, up)
  <2>2. sw'[c] = [sw[c] EXCEPT !.changes = sw[c].changes - 1, !.ports = now]
    BY <1>0, <2>1 DEF Reported, Types
  <2>3. sw'[c].stats = left
    BY <1>0, <2>2, SwitchType DEF Switch
  <2>4. m \in ToCtl /\ m.t # "STATS_REPLY"
    BY <1>0, ReportType DEF ToCtl
  <2>5. /\ to_ctl'[c] = Append(s, m) /\ con' = con /\ link[c] = "open"
        /\ link' = link /\ received' = received
    BY <1>0, <1>4, <2>1, <2>4 DEF Reported, Write, port_status, Types, ReportPort, controller
  <2> HIDE DEF m
  <2> QED
    BY <1>q, <2>3, <2>4, <2>5
<1>5. CASE SendStats(c)
  <2>1. /\ left # <<>> /\ link[c] = "open" /\ con' = con /\ link' = link /\ received' = received
    BY <1>0, <1>5 DEF SendStats, controller
  <2> DEFINE a == [t |-> "ECHO_REQUEST"]
             m == Head(left)
  <2>2. m \in StatsPart
    BY <1>a, <2>1
  <2>3. m \in ToCtl /\ a \in ToCtl /\ a.t # "STATS_REPLY"
    BY <2>2 DEF ToCtl
  <2>6. sw'[c] = [sw[c] EXCEPT !.stats = Tail(@)]
    BY <1>0, <1>5 DEF SendStats, Types
  <2>7. sw'[c].stats = Tail(left)
    BY <1>0, <2>6, SwitchType DEF Switch
  <2>4. to_ctl'[c] = s \o <<a, m>>
    BY <1>0, <1>5 DEF SendStats, Write, Types
  <2> HIDE DEF a
  <2>5. to_ctl'[c] = Append(Append(s, a), m) /\ Append(s, a) \in Seq(ToCtl)
    BY <1>a, <2>3, <2>4
  <2>8. Awaits(Append(s, a), all, left, prev)
    BY <1>a, <1>b, <1>c, <2>1, <2>3, AwaitsQuiet
  <2>9. Awaits(Append(Append(s, a), m), all, Tail(left), prev) /\ Rest(all, Tail(left))
    BY <1>a, <1>b, <1>c, <2>1, <2>5, <2>8, AwaitsPart
  <2> QED
    BY <1>0, <1>c, <2>1, <2>5, <2>7, <2>9 DEF StatsFollow
<1>6. CASE Leave(c)
  <2>1. con' = con /\ to_ctl' = to_ctl /\ sw' = sw /\ received' = received
        /\ link[c] = "open" /\ link'[c] = "gone"
    BY <1>0, <1>6 DEF Leave, controller, Types
  <2> QED
    BY <1>0, <1>c, <2>1 DEF StatsFollow
<1>7. CASE CloseConnection(c)
  <2>1. ~con'[c].open /\ link'[c] = "gone" /\ sw' = sw /\ received' = received
    BY <1>0, <1>7, CloseShuts DEF CloseConnection, Types
  <2> QED
    BY <1>0, <1>c, <2>1 DEF StatsFollow
<1>8. CASE SendFromThread(c)
  <2>1. UNCHANGED <<link, to_ctl, sw, received>> /\ con'[c].open = con[c].open
        /\ con'[c].previous_stats = prev
    BY <1>0, <1>8, ThreadShuts DEF SendFromThread, Shuts
  <2> QED
    BY <1>0, <1>c, <2>1 DEF StatsFollow
<1>9. CASE DeferredSend(c) \/ SelectFails(c)
  <2>1. UNCHANGED <<link, to_ctl, sw, received>>
    BY <1>9 DEF DeferredSend, SelectFails
  <2>2. con'[c].open = con[c].open /\ con'[c].previous_stats = prev
    <3>1. CASE PassOn(c)
      BY <3>1 DEF PassOn
    <3>2. CASE CutOff(c)
      BY <1>0, <3>2, CutOffShuts DEF Shuts
    <3>3. CASE GivesUp(c)
      BY <3>3 DEF GivesUp
    <3> QED
      BY <1>9, <3>1, <3>2, <3>3, DeferredStep
  <2> QED
    BY <1>0, <1>c, <2>1, <2>2 DEF StatsFollow
<1>10. CASE Read(c)
  <2>1. PICK m \in ToCtl, w \in World : ReadTo(c, m, w)
    BY <1>0, <1>10, ReadStep
  <2>2. /\ to_ctl'[c] = Tail(s) /\ con'[c] = w.con /\ w.con.open /\ con[c].open
        /\ s # <<>> /\ m = s[1] /\ link' = link /\ sw' = sw
        /\ received'[c] = IF m.t = "STATS_REPLY" THEN incoming_stats_reply(prev, m).event
                                                 ELSE received[c]
    BY <1>0, <2>1 DEF ReadTo, Types
  <2>3. w.con.previous_stats = IF m.t = "STATS_REPLY" THEN incoming_stats_reply(prev, m).previous
                                                     ELSE prev
    <3>0. ByHandler(c, m, w)
      BY <2>1 DEF ReadTo
    <3>1. Now(c).con = con[c]
      BY DEF Now
    <3>2. CASE m.t \in {"HELLO", "ECHO_REQUEST"}
      BY <3>0, <3>1, <3>2 DEF ByHandler, Sent, Alike
    <3>3. CASE m.t = "FEATURES_REPLY"
      BY <3>0, <3>3 DEF ByHandler, Featured
    <3>4. CASE m.t \in {"BARRIER_REPLY", "ERROR"}
      BY <3>0, <3>4 DEF ByHandler, Barriered
    <3>5. CASE m.t \in {"PORT_STATUS", "STATS_REPLY"}
      BY <3>0, <3>5 DEF ByHandler
    <3> QED
      BY <3>0, <3>2, <3>3, <3>4, <3>5 DEF ByHandler
  <2> HIDE DEF all, left, prev, s
  <2>4. PICK at \in [0..Len(s) -> 0..Len(all)] :
          Numbered(s, all, left, at) /\ Collected(prev, all, at[0])
    BY <1>c, <2>2 DEF Awaits
  <2>5. Len(s) \in Nat /\ 1 \in 1..Len(s) /\ 0 \in 0..Len(s) /\ 1 \in 0..Len(s) /\ 1 - 1 = 0
        /\ Len(all) \in Nat
    BY <1>a, <1>b, <2>2
  <2>6. /\ at[0] \in 0..Len(all) /\ at[1] \in 0..Len(all)
        /\ IF m.t = "STATS_REPLY" THEN at[1] = at[0] + 1 /\ m = all[at[1]] ELSE at[1] = at[0]
    BY <2>2, <2>4, <2>5 DEF Numbered
  <2> DEFINE next == w.con.previous_stats
  <2>7. Collected(next, all, at[1]) /\ Whole(received'[c])
    <3>1. CASE m.t = "STATS_REPLY"
      <4> DEFINE n == at[0]
      <4>1. n \in 0..Len(all) /\ n + 1 <= Len(all) /\ m = all[n + 1] /\ at[1] = n + 1
            /\ Collected(prev, all, n)
        BY <2>4, <2>5, <2>6, <3>1
      <4> HIDE DEF n
      <4>2. Collected(incoming_stats_reply(prev, m).previous, all, n + 1)
            /\ Whole(incoming_stats_reply(prev, m).event)
        BY <1>a, <1>b, <4>1, CollectNext
      <4> QED
        BY <2>2, <2>3, <3>1, <4>1, <4>2
    <3>2. CASE m.t # "STATS_REPLY"
      BY <1>c, <2>2, <2>3, <2>4, <2>6, <3>2
    <3> QED
      BY <3>1, <3>2
  <2> HIDE DEF next
  <2>8. Awaits(Tail(s), all, left, next)
    BY <1>a, <1>b, <2>2, <2>4, <2>7, AwaitsRead
  <2> QED
    BY <1>0, <1>c, <2>2, <2>7, <2>8 DEF StatsFollow, all, left, next
<1> QED
  BY <1>1, <1>2, <1>3, <1>4, <1>5, <1>6, <1>7, <1>8, <1>9, <1>10 DEF Act

(* The statistics follow the switch through every step.                    *)
LEMMA StatsNext == Basics /\ StatsInv /\ [Next]_vars => StatsInv'
<1> SUFFICES ASSUME Basics, StatsInv, [Next]_vars PROVE StatsInv'
  OBVIOUS
<1>0. Types
  BY DEF Basics
<1>1. ASSUME NEW c \in Connections, Act(c) PROVE StatsInv'
  <2>1. ASSUME NEW b \in Connections \ {c} PROVE StatsFollow(b)'
    <3>1. Untouched(b) /\ StatsFollow(b) /\ switches' = switches
      BY <1>0, <1>1, OthersUntouched DEF StatsInv
    <3> QED
      BY <3>1 DEF Untouched, StatsFollow
  <2> QED
    BY <1>1, <2>1, OwnStats DEF StatsInv
<1>2. CASE HandleDownEvent
  <2>1. ASSUME NEW c \in Connections PROVE StatsFollow(c)'
    <3>1. con'[c].previous_stats = con[c].previous_stats /\ con'[c].open = con[c].open
      BY <1>0, <1>2, DownShuts DEF Shuts
    <3>2. UNCHANGED <<switches, link, to_ctl, sw, received>> /\ StatsFollow(c)
      BY <1>2 DEF HandleDownEvent, StatsInv
    <3> QED
      BY <3>1, <3>2 DEF StatsFollow
  <2> QED
    BY <2>1 DEF StatsInv
<1>3. CASE UNCHANGED vars
  BY <1>3 DEF vars, controller, StatsInv, StatsFollow
<1> QED
  BY <1>1, <1>2, <1>3, Steps

(* At first POX knows no ports, and is told of none.                       *)
LEMMA PortsInit == Init => PortsInv
  BY DEF Init, PortsInv, PortsFollow

-----------------------------------------------------------------------------
(* The kinds of messages in sequences that are put together or shortened.  *)
LEMMA Joined ==
  ASSUME NEW S, NEW s \in Seq(S), NEW r \in Seq(S), NEW T
  PROVE  /\ Holds(s \o r, T) <=> Holds(s, T) \/ Holds(r, T)
         /\ Single(s, T) /\ Single(r, T) /\ ~(Holds(s, T) /\ Holds(r, T)) => Single(s \o r, T)
         /\ FirstXid(s \o r) <=> FirstXid(s) /\ FirstXid(r)
<1> DEFINE z == s \o r
           n == Len(s)
<1>1. /\ n \in Nat /\ Len(r) \in Nat /\ DOMAIN s = 1..n /\ DOMAIN r = 1..Len(r)
      /\ DOMAIN z = 1..(n + Len(r))
      /\ \A i \in 1..n : z[i] = s[i]
      /\ \A i \in 1..(n + Len(r)) : i > n => z[i] = r[i - n]
  OBVIOUS
<1> HIDE DEF z, n
<1>2. /\ \A i \in DOMAIN s : i \in DOMAIN z /\ z[i] = s[i]
      /\ \A i \in DOMAIN r : n + i \in DOMAIN z /\ z[n + i] = r[i]
  <2>1. ASSUME NEW i \in DOMAIN r PROVE n + i \in DOMAIN z /\ z[n + i] = r[i]
    <3>1. n + i \in 1..(n + Len(r)) /\ n + i > n /\ (n + i) - n = i
      BY <1>1
    <3> QED
      BY <1>1, <3>1
  <2> QED
    BY <1>1, <2>1
<1>3. \A i \in DOMAIN z : \/ i \in DOMAIN s /\ z[i] = s[i]
                          \/ i - n \in DOMAIN r /\ z[i] = r[i - n]
  <2> TAKE i \in DOMAIN z
  <2>1. CASE i \in 1..n
    BY <1>1, <2>1
  <2>2. CASE i > n
    <3>1. i - n \in 1..Len(r)
      BY <1>1, <2>2
    <3> QED
      BY <1>1, <2>2, <3>1
  <2> QED
    BY <1>1, <2>1, <2>2
<1>4. Holds(z, T) <=> Holds(s, T) \/ Holds(r, T)
  BY <1>2, <1>3 DEF Holds
<1>5. ASSUME Single(s, T), Single(r, T), ~(Holds(s, T) /\ Holds(r, T)) PROVE Single(z, T)
  <2> SUFFICES ASSUME NEW i \in DOMAIN z, NEW j \in DOMAIN z, z[i].t \in T, z[j].t \in T
               PROVE  i = j
    BY DEF Single
  <2>1. CASE i \in DOMAIN s /\ z[i] = s[i]
    <3>1. j \in DOMAIN s /\ z[j] = s[j]
      BY <1>3, <1>5, <2>1 DEF Holds
    <3> QED
      BY <1>5, <2>1, <3>1 DEF Single
  <2>2. CASE i - n \in DOMAIN r /\ z[i] = r[i - n]
    <3>1. j - n \in DOMAIN r /\ z[j] = r[j - n]
      BY <1>3, <1>5, <2>2 DEF Holds
    <3>2. i - n = j - n
      BY <1>5, <2>2, <3>1 DEF Single
    <3> QED
      BY <1>1, <3>2
  <2> QED
    BY <1>3, <2>1, <2>2
<1>6. FirstXid(z) <=> FirstXid(s) /\ FirstXid(r)
  <2>1. FirstXid(z) => FirstXid(s) /\ FirstXid(r)
    BY <1>2 DEF FirstXid
  <2>2. ASSUME FirstXid(s), FirstXid(r), NEW i \in DOMAIN z,
               z[i].t \in {"BARRIER_REQUEST", "BARRIER_REPLY", "ERROR"}
        PROVE  z[i].xid = 1
    BY <1>3, <2>2 DEF FirstXid
  <2> QED
    BY <2>1, <2>2 DEF FirstXid
<1> QED
  BY <1>4, <1>5, <1>6 DEF z

LEMMA Shortened ==
  ASSUME NEW S, NEW s \in Seq(S), s # <<>>, NEW T
  PROVE  /\ Holds(Tail(s), T) => Holds(s, T)
         /\ Single(s, T) => Single(Tail(s), T)
         /\ Single(s, T) /\ s[1].t \in T => ~Holds(Tail(s), T) /\ Holds(s, T)
         /\ FirstXid(s) => FirstXid(Tail(s))
<1> DEFINE z == Tail(s)
<1>1. \A i \in DOMAIN z : i \in Nat /\ i > 0 /\ i + 1 \in DOMAIN s /\ z[i] = s[i + 1]
  OBVIOUS
<1>2. 1 \in DOMAIN s
  OBVIOUS
<1> HIDE DEF z
<1>3. Holds(z, T) => Holds(s, T)
  BY <1>1 DEF Holds
<1>4. ASSUME Single(s, T) PROVE Single(z, T)
  <2> SUFFICES ASSUME NEW i \in DOMAIN z, NEW j \in DOMAIN z, z[i].t \in T, z[j].t \in T
               PROVE  i = j
    BY DEF Single
  <2>1. i + 1 = j + 1
    BY <1>1, <1>4 DEF Single
  <2> QED
    BY <1>1, <2>1
<1>5. ASSUME Single(s, T), s[1].t \in T PROVE ~Holds(z, T) /\ Holds(s, T)
  <2>1. ASSUME NEW i \in DOMAIN z, z[i].t \in T PROVE FALSE
    <3>1. i + 1 = 1
      BY <1>1, <1>2, <1>5, <2>1 DEF Single
    <3> QED
      BY <1>1, <3>1
  <2> QED
    BY <1>2, <1>5, <2>1 DEF Holds
<1>6. FirstXid(s) => FirstXid(z)
  BY <1>1 DEF FirstXid
<1> QED
  BY <1>3, <1>4, <1>5, <1>6 DEF z

(* One message, or none.                                                   *)
LEMMA Alone ==
  ASSUME NEW m, NEW T
  PROVE  /\ Holds(<<m>>, T) <=> m.t \in T
         /\ Single(<<m>>, T)
         /\ FirstXid(<<m>>)
              <=> (m.t \in {"BARRIER_REQUEST", "BARRIER_REPLY", "ERROR"} => m.xid = 1)
         /\ ~Holds(<<>>, T) /\ Single(<<>>, T) /\ FirstXid(<<>>)
<1> DEFINE s == <<m>>
           e == <<>>
<1>1. DOMAIN s = {1} /\ s[1] = m /\ DOMAIN e = {}
  OBVIOUS
<1> HIDE DEF s, e
<1>2. Holds(s, T) <=> m.t \in T
  BY <1>1 DEF Holds
<1>3. Single(s, T)
  BY <1>1 DEF Single
<1>4. FirstXid(s) <=> (m.t \in {"BARRIER_REQUEST", "BARRIER_REPLY", "ERROR"} => m.xid = 1)
  BY <1>1 DEF FirstXid
<1>5. ~Holds(e, T) /\ Single(e, T) /\ FirstXid(e)
  BY <1>1 DEF Holds, Single, FirstXid
<1> QED
  BY <1>2, <1>3, <1>4, <1>5 DEF s, e

(* What handle_FEATURES_REPLY sends.                                       *)
LEMMA Setup ==
  ASSUME NEW n \in Nat
  PROVE  LET ms == <<[t |-> "SET_CONFIG"], [t |-> "FLOW_MOD"],
                     [t |-> "BARRIER_REQUEST", xid |-> n]>>
         IN ~Holds(ms, Request) /\ Single(ms, Request) /\ (n = 1 => FirstXid(ms))
<1> DEFINE ms == <<[t |-> "SET_CONFIG"], [t |-> "FLOW_MOD"],
                   [t |-> "BARRIER_REQUEST", xid |-> n]>>
<1>1. /\ DOMAIN ms = 1..3 /\ ms[1].t = "SET_CONFIG" /\ ms[2].t = "FLOW_MOD"
      /\ ms[3].t = "BARRIER_REQUEST" /\ ms[3].xid = n
  OBVIOUS
<1> HIDE DEF ms
<1>2. \A i \in DOMAIN ms : i = 1 \/ i = 2 \/ i = 3
  BY <1>1
<1>3. \A i \in DOMAIN ms : ms[i].t \notin Request
  BY <1>1, <1>2 DEF Request
<1>4. n = 1 => FirstXid(ms)
  BY <1>1, <1>2 DEF FirstXid
<1> QED
  BY <1>3, <1>4 DEF ms, Holds, Single

-----------------------------------------------------------------------------
(* The messages of a connection after a step of it, for a polite switch:   *)
(* the greeting, the request and the reply are passed on, never doubled,   *)
(* and there is no barrier but the first.                                  *)
Xids(c) == FirstXid(to_ctl[c]) /\ FirstXid(to_switch[c]) /\ FirstXid(deferred[c])
Decent(c) == OneEarly(c) /\ Xids(c)

(* The switch writes ms.                                                   *)
LEMMA DecentWrite ==
  ASSUME Types, NEW c \in Connections, Decent(c), NEW ms \in Seq(ToCtl), FirstXid(ms),
         Single(ms, First), to_ctl'[c] = to_ctl[c] \o ms,
         deferred'[c] = deferred[c], Single(to_switch'[c], Request), FirstXid(to_switch'[c]),
         Holds(to_switch'[c], Request) => Holds(to_switch[c], Request),
         \/ ~Holds(ms, First) /\ sw'[c].hellos = sw[c].hellos
         \/ /\ Holds(ms, First) /\ sw[c].hellos = 1 /\ sw'[c].hellos = 0
            /\ to_switch'[c] = to_switch[c]
         \/ /\ Holds(ms, First) /\ sw'[c].hellos = sw[c].hellos
            /\ Holds(to_switch[c], Request) /\ ~Holds(to_switch'[c], Request)
  PROVE  Decent(c)' /\ (Early(c)' => Early(c))
<1>1. to_ctl[c] \in Seq(ToCtl)
  BY DEF Types
<1>2. /\ Holds(to_ctl'[c], First) <=> Holds(to_ctl[c], First) \/ Holds(ms, First)
      /\ ~Holds(to_ctl[c], First) \/ ~Holds(ms, First) => Single(to_ctl'[c], First)
      /\ FirstXid(to_ctl'[c])
  BY <1>1, Joined DEF Decent, OneEarly, Xids
<1> QED
  BY <1>2 DEF Decent, OneEarly, Early, Xids

(* POX reads the first message and sends ms.                               *)
LEMMA DecentRead ==
  ASSUME Types, NEW c \in Connections, Decent(c), to_ctl[c] # <<>>,
         to_ctl'[c] = Tail(to_ctl[c]), sw' = sw,
         NEW ms \in Seq(ToSwitch), FirstXid(ms), Single(ms, Request), Passed(c, ms),
         Holds(ms, Request) => to_ctl[c][1].t \in First
  PROVE  /\ Decent(c)' /\ (Early(c)' => Early(c))
         /\ to_ctl[c][1].t \in First => Early(c)
         /\ to_ctl[c][1].t \in First /\ ~Holds(ms, Request) => ~Early(c)'
<1>1. to_ctl[c] \in Seq(ToCtl) /\ to_switch[c] \in Seq(ToSwitch) /\ deferred[c] \in Seq(ToSwitch)
  BY DEF Types
<1>2. /\ Holds(to_ctl'[c], First) => Holds(to_ctl[c], First)
      /\ Single(to_ctl'[c], First) /\ FirstXid(to_ctl'[c])
      /\ to_ctl[c][1].t \in First => ~Holds(to_ctl'[c], First) /\ Holds(to_ctl[c], First)
  BY <1>1, Shortened DEF Decent, OneEarly, Xids
<1>3. CASE deferred'[c] = deferred[c] \o ms /\ to_switch' = to_switch
  <2>1. /\ Holds(deferred'[c], Request) <=> Holds(deferred[c], Request) \/ Holds(ms, Request)
        /\ ~Holds(deferred[c], Request) \/ ~Holds(ms, Request) => Single(deferred'[c], Request)
        /\ FirstXid(deferred'[c])
    BY <1>1, <1>3, Joined DEF Decent, OneEarly, Xids
  <2> QED
    BY <1>2, <1>3, <2>1 DEF Decent, OneEarly, Early, Xids
<1>4. CASE to_switch'[c] = to_switch[c] \o ms /\ deferred' = deferred
  <2>1. /\ Holds(to_switch'[c], Request) <=> Holds(to_switch[c], Request) \/ Holds(ms, Request)
        /\ ~Holds(to_switch[c], Request) \/ ~Holds(ms, Request) => Single(to_switch'[c], Request)
        /\ FirstXid(to_switch'[c])
    BY <1>1, <1>4, Joined DEF Decent, OneEarly, Xids
  <2> QED
    BY <1>2, <1>4, <2>1 DEF Decent, OneEarly, Early, Xids
<1>5. CASE UNCHANGED <<to_switch, deferred>>
  BY <1>2, <1>5 DEF Decent, OneEarly, Early, Xids
<1> QED
  BY <1>3, <1>4, <1>5 DEF Passed, Types

(* What a handler sends, for a polite switch.                              *)
LEMMA DecentOut ==
  ASSUME Types, NEW c \in Connections, NEW m \in ToCtl, NEW w \in World, ByHandler(c, m, w),
         m.t = "FEATURES_REPLY" => con[c].barriers = 0
  PROVE  /\ w.out \in Seq(ToSwitch) /\ FirstXid(w.out) /\ Single(w.out, Request)
         /\ Holds(w.out, Request) => m.t = "HELLO"
<1>1. w.out \in Seq(ToSwitch)
  BY DEF World
<1>2. CASE m.t \in {"HELLO", "ECHO_REQUEST"}
  <2>1. Now(c).out = <<>>
    BY DEF Now
  <2>2. Reply(m) = <<[t |-> IF m.t = "HELLO" THEN "FEATURES_REQUEST" ELSE "ECHO_REPLY"]>>
    BY DEF Reply
  <2>3. w.out = <<>> \/ w.out = <<>> \o Reply(m)
    BY <1>2, <2>1 DEF ByHandler, Sent
  <2>4. w.out = <<>> \/ w.out = Reply(m)
    BY <2>2, <2>3
  <2> QED
    BY <1>1, <2>2, <2>4, Alone DEF Request
<1>3. CASE m.t = "FEATURES_REPLY"
  <2>1. w.out \in {<<>>, <<[t |-> "SET_CONFIG"], [t |-> "FLOW_MOD"],
                           [t |-> "BARRIER_REQUEST", xid |-> 1]>>}
    BY <1>3 DEF ByHandler, Featured
  <2> QED
    BY <1>1, <2>1, Alone, Setup
<1>4. CASE m.t \notin {"HELLO", "ECHO_REQUEST", "FEATURES_REPLY"}
  <2>1. w.out = <<>>
    BY <1>4 DEF ByHandler, Barriered, Stays
  <2> QED
    BY <1>1, <2>1, Alone
<1> QED
  BY <1>2, <1>3, <1>4

LEMMA DecentHandled ==
  ASSUME Basics, NEW c \in Connections, Courteous(c), NEW m \in ToCtl, NEW w \in World,
         ReadTo(c, m, w)
  PROVE  /\ Decent(c)' /\ (Early(c)' => Early(c)) /\ (m.t \in First => Early(c))
         /\ m.t = "FEATURES_REPLY" => ~Early(c)'
<1>0. Types /\ Decent(c) /\ (Early(c) => Unknown(c))
  BY DEF Basics, Courteous, Decent, Xids, OneBarrier
<1>1. /\ to_ctl'[c] = Tail(to_ctl[c]) /\ sw' = sw /\ to_ctl[c] # <<>> /\ m = to_ctl[c][1]
      /\ Passed(c, w.out) /\ ByHandler(c, m, w)
  BY <1>0 DEF ReadTo, Types
<1>2. m.t \in First => Holds(to_ctl[c], First)
  <2>1. 1 \in DOMAIN to_ctl[c]
    BY <1>0, <1>1 DEF Types
  <2> QED
    BY <1>1, <2>1 DEF Holds
<1>3. m.t = "FEATURES_REPLY" => con[c].barriers = 0
  BY <1>0, <1>2 DEF Early, Unknown, First
<1>4. /\ w.out \in Seq(ToSwitch) /\ FirstXid(w.out) /\ Single(w.out, Request)
      /\ Holds(w.out, Request) => m.t = "HELLO"
  BY <1>0, <1>1, <1>3, DecentOut
<1>5. "HELLO" \in First /\ "FEATURES_REPLY" \in First
  BY DEF First
<1> QED
  BY <1>0, <1>1, <1>4, <1>5, DecentRead

LEMMA OwnDecent ==
  ASSUME Basics, NEW c \in Connections, Courteous(c), Act(c)
  PROVE  Decent(c)' /\ (Early(c)' => Early(c))
<1>0. /\ Types /\ Fresh(c) /\ Kept(c) /\ Decent(c) /\ (Early(c) => Unknown(c))
      /\ sw[c].hellos \in {0, 1}
  BY DEF Basics, Courteous, Decent, Xids, OneBarrier, OneEarly
<1>w. ASSUME NEW m \in ToCtl, m.t \notin {"HELLO", "FEATURES_REPLY", "BARRIER_REPLY", "ERROR"},
             m.t # "BARRIER_REQUEST"
      PROVE  FirstXid(<<m>>) /\ Single(<<m>>, First) /\ ~Holds(<<m>>, First)
             /\ <<m>> \in Seq(ToCtl)
  BY <1>w, Alone DEF First
<1>1. CASE Accept(c)
  <2>1. /\ to_ctl' = to_ctl /\ sw' = sw /\ to_switch[c] = <<>> /\ deferred[c] = <<>>
        /\ to_switch'[c] \in {<<>>, <<[t |-> "HELLO"]>>}
        /\ deferred'[c] \in {<<>>, <<[t |-> "HELLO"]>>}
    BY <1>0, <1>1 DEF Accept, Fresh, Types
  <2>2. /\ ~Holds(to_switch'[c], Request) /\ Single(to_switch'[c], Request)
        /\ FirstXid(to_switch'[c])
    BY <2>1, Alone DEF Request
  <2>3. /\ ~Holds(deferred'[c], Request) /\ Single(deferred'[c], Request)
        /\ FirstXid(deferred'[c])
    BY <2>1, Alone DEF Request
  <2> QED
    BY <1>0, <2>1, <2>2, <2>3 DEF Decent, OneEarly, Early, Xids
<1>2. CASE Greet(c)
  <2> DEFINE m == [t |-> "HELLO"]
  <2>1. m \in ToCtl /\ m.t = "HELLO"
    BY DEF ToCtl
  <2> HIDE DEF m
  <2>2. <<m>> \in Seq(ToCtl) /\ FirstXid(<<m>>) /\ Single(<<m>>, First) /\ Holds(<<m>>, First)
    BY <2>1, Alone DEF First
  <2>3. /\ to_ctl'[c] = to_ctl[c] \o <<m>> /\ to_switch' = to_switch
        /\ deferred' = deferred
    BY <1>0, <1>2 DEF Greet, Write, controller, Types, m
  <2>4. sw'[c] = [sw[c] EXCEPT !.hellos = sw[c].hellos - 1] /\ sw[c].hellos > 0
    BY <1>0, <1>2 DEF Greet, Types
  <2>5. sw[c].hellos = 1
    BY <1>0, <2>4
  <2>6. sw'[c].hellos = 0
    <3>1. sw[c] \in Switch
      BY <1>0, SwitchType
    <3>2. sw'[c].hellos = sw[c].hellos - 1
      BY <2>4, <3>1 DEF Switch
    <3> QED
      BY <2>5, <3>2
  <2>7. Single(to_switch'[c], Request) /\ FirstXid(to_switch'[c])
    BY <1>0, <2>3 DEF Decent, OneEarly, Xids
  <2> QED
    BY <1>0, <2>2, <2>3, <2>5, <2>6, <2>7, DecentWrite
<1>3. CASE Answer(c)
  <2> DEFINE q == Head(to_switch[c])
  <2>0. /\ to_switch[c] \in Seq(ToSwitch) /\ to_switch[c] # <<>> /\ q = to_switch[c][1]
        /\ q \in ToSwitch /\ 1 \in DOMAIN to_switch[c]
    BY <1>0, <1>3 DEF Answer, Types
  <2>1. PICK ms \in answer(c, q) : Write(c, ms)
    BY <1>3 DEF Answer
  <2>2. /\ to_ctl'[c] = to_ctl[c] \o ms /\ sw' = sw /\ deferred' = deferred
        /\ to_switch'[c] = Tail(to_switch[c]) /\ c \in DOMAIN switches.dpid
    BY <1>0, <1>3, <2>1 DEF Answer, Write, controller, Types, Kept
  <2> HIDE DEF q
  <2>3. ms \in Seq(ToCtl)
    BY <1>0, <2>0, <2>1, <2>2, AnswerType
  <2>4. /\ Holds(to_switch'[c], Request) => Holds(to_switch[c], Request)
        /\ Single(to_switch'[c], Request) /\ FirstXid(to_switch'[c])
        /\ q.t \in Request => Holds(to_switch[c], Request) /\ ~Holds(to_switch'[c], Request)
    BY <1>0, <2>0, <2>2, Shortened DEF Decent, OneEarly, Xids
  <2>5. CASE q.t = "FEATURES_REQUEST"
    <3> DEFINE m == [t |-> "FEATURES_REPLY", dpid |-> switches.dpid[c], ports |-> sw[c].ports]
    <3>1. ms = <<m>> /\ m.t = "FEATURES_REPLY"
      BY <2>5 DEF answer
    <3> HIDE DEF m
    <3>2. FirstXid(ms) /\ Single(ms, First) /\ Holds(ms, First)
      BY <3>1, Alone DEF First
    <3> QED
      BY <1>0, <2>2, <2>3, <2>4, <2>5, <3>2, DecentWrite DEF Request
  <2>6. CASE q.t = "BARRIER_REQUEST"
    <3>1. PICK m \in {[t |-> "BARRIER_REPLY", xid |-> q.xid],
                      [t |-> "ERROR", xid |-> q.xid]} : ms = <<m>>
      BY <2>6 DEF answer
    <3>2. m.t \in {"BARRIER_REPLY", "ERROR"} /\ m.xid = q.xid
      OBVIOUS
    <3>3. q.xid = 1
      BY <1>0, <2>0, <2>6 DEF Decent, Xids, FirstXid
    <3>4. FirstXid(ms) /\ Single(ms, First) /\ ~Holds(ms, First)
      BY <3>1, <3>2, <3>3, Alone DEF First
    <3> QED
      BY <1>0, <2>2, <2>3, <2>4, <3>4, DecentWrite
  <2>7. CASE q.t \notin {"FEATURES_REQUEST", "BARRIER_REQUEST"}
    <3>1. ms = <<>>
      BY <2>7 DEF answer
    <3>2. FirstXid(ms) /\ Single(ms, First) /\ ~Holds(ms, First)
      BY <3>1, Alone
    <3> QED
      BY <1>0, <2>2, <2>3, <2>4, <3>2, DecentWrite
  <2> QED
    BY <2>5, <2>6, <2>7
<1>4. CASE ReportPort(c)
  <2>1. PICK p \in DOMAIN switches.ports \cup {0}, deleted \in BOOLEAN, up \in BOOLEAN :
          Reported(c, p, deleted, up)
    BY <1>0, <1>4, ReportStep
  <2> DEFINE m == [t |-> "PORT_STATUS", port |-> p, deleted |-> deleted, up |-> up]
             now == IF deleted THEN [q \in DOMAIN sw[c].ports \ {p} |-> sw[c].ports[q]]
                               ELSE _update(sw[c].ports, p, up)
  <2>2. sw'[c] = [sw[c] EXCEPT !.changes = sw[c].changes - 1, !.ports = now]
    BY <1>0, <2>1 DEF Reported, Types
  <2>3. sw'[c].hellos = sw[c].hellos
    BY <1>0, <2>2, SwitchType DEF Switch
  <2>4. m \in ToCtl /\ m.t = "PORT_STATUS"
    BY <1>0, ReportType DEF ToCtl
  <2>5. to_ctl'[c] = to_ctl[c] \o <<m>> /\ to_switch' = to_switch /\ deferred' = deferred
    BY <1>0, <1>4, <2>1 DEF Reported, Write, port_status, Types, ReportPort, controller
  <2> HIDE DEF m
  <2>6. FirstXid(<<m>>) /\ Single(<<m>>, First) /\ ~Holds(<<m>>, First) /\ <<m>> \in Seq(ToCtl)
    BY <1>w, <2>4
  <2>7. Single(to_switch'[c], Request) /\ FirstXid(to_switch'[c])
    BY <1>0, <2>5 DEF Decent, OneEarly, Xids
  <2> QED
    BY <1>0, <2>3, <2>5, <2>6, <2>7, DecentWrite
<1>5. CASE SendStats(c)
  <2> DEFINE a == [t |-> "ECHO_REQUEST"]
             m == Head(sw[c].stats)
  <2>1. sw[c].stats \in Seq(StatsPart) /\ sw[c].stats # <<>>
    BY <1>0, <1>5, SwitchType DEF SendStats
  <2>2. m \in StatsPart
    BY <2>1
  <2>3. sw'[c] = [sw[c] EXCEPT !.stats = Tail(@)]
    BY <1>0, <1>5 DEF SendStats, Types
  <2>4. sw'[c].hellos = sw[c].hellos
    BY <1>0, <2>3, SwitchType DEF Switch
  <2>5. /\ to_ctl'[c] = to_ctl[c] \o <<a, m>> /\ to_switch' = to_switch
        /\ deferred' = deferred
    BY <1>0, <1>5 DEF SendStats, Write, Types, controller
  <2> HIDE DEF m
  <2>6. a \in ToCtl /\ a.t = "ECHO_REQUEST" /\ m \in ToCtl /\ m.t = "STATS_REPLY"
    BY <2>2 DEF ToCtl, StatsPart
  <2> HIDE DEF a
  <2>8. <<a, m>> \in Seq(ToCtl) /\ FirstXid(<<a, m>>) /\ Single(<<a, m>>, First)
        /\ ~Holds(<<a, m>>, First)
    <3> DEFINE z == <<a, m>>
    <3>1. z \in Seq(ToCtl)
      BY <2>6
    <3>2. DOMAIN z = 1..2 /\ z[1] = a /\ z[2] = m
      OBVIOUS
    <3> HIDE DEF z
    <3>3. \A i \in DOMAIN z : z[i] = a \/ z[i] = m
      BY <3>2
    <3>4. FirstXid(z) /\ Single(z, First) /\ ~Holds(z, First)
      BY <2>6, <3>3 DEF FirstXid, Single, Holds, First
    <3> QED
      BY <3>1, <3>4 DEF z
  <2>10. Single(to_switch'[c], Request) /\ FirstXid(to_switch'[c])
    BY <1>0, <2>5 DEF Decent, OneEarly, Xids
  <2> QED
    BY <1>0, <2>4, <2>5, <2>8, <2>10, DecentWrite
<1>6. CASE Leave(c)
  <2>1. to_ctl' = to_ctl /\ sw' = sw /\ deferred' = deferred /\ to_switch'[c] = <<>>
    BY <1>0, <1>6 DEF Leave, controller, Types
  <2>2. ~Holds(to_switch'[c], Request) /\ Single(to_switch'[c], Request) /\ FirstXid(to_switch'[c])
    BY <2>1, Alone
  <2> QED
    BY <1>0, <2>1, <2>2 DEF Decent, OneEarly, Early, Xids
<1>7. CASE CloseConnection(c)
  <2>1. sw' = sw /\ deferred' = deferred /\ to_switch'[c] = <<>> /\ to_ctl'[c] = <<>>
    BY <1>0, <1>7 DEF CloseConnection, Types
  <2>2. /\ ~Holds(to_switch'[c], Request) /\ Single(to_switch'[c], Request) /\ FirstXid(to_switch'[c])
        /\ ~Holds(to_ctl'[c], First) /\ Single(to_ctl'[c], First) /\ FirstXid(to_ctl'[c])
    BY <2>1, Alone
  <2> QED
    BY <1>0, <2>1, <2>2 DEF Decent, OneEarly, Early, Xids
<1>8. CASE SendFromThread(c)
  BY <1>0, <1>8 DEF SendFromThread, Decent, OneEarly, Early, Xids
<1>9. CASE Read(c)
  <2>1. PICK m \in ToCtl, w \in World : ReadTo(c, m, w)
    BY <1>0, <1>9, ReadStep
  <2> QED
    BY <2>1, DecentHandled
<1>10. CASE DeferredSend(c) \/ SelectFails(c)
  <2>0. deferred[c] \in Seq(ToSwitch) /\ deferred[c] # <<>> /\ to_switch[c] \in Seq(ToSwitch)
    BY <1>0, <1>10 DEF DeferredSend, SelectFails, Types
  <2>1. CASE PassOn(c)
    <3> DEFINE q == Head(deferred[c])
    <3>1. q \in ToSwitch /\ q = deferred[c][1] /\ <<q>> \in Seq(ToSwitch) /\ 1 \in DOMAIN deferred[c]
      BY <2>0
    <3>2. /\ sw' = sw /\ to_ctl' = to_ctl /\ deferred'[c] = Tail(deferred[c])
          /\ to_switch'[c] = to_switch[c] \/ to_switch'[c] = to_switch[c] \o <<q>>
      BY <1>0, <2>1 DEF PassOn, Deliver, Types
    <3> HIDE DEF q
    <3>3. /\ Holds(deferred'[c], Request) => Holds(deferred[c], Request)
          /\ Single(deferred'[c], Request) /\ FirstXid(deferred'[c])
          /\ q.t \in Request => Holds(deferred[c], Request) /\ ~Holds(deferred'[c], Request)
      BY <1>0, <2>0, <3>1, <3>2, Shortened DEF Decent, OneEarly, Xids
    <3>4. (Holds(<<q>>, Request) <=> q.t \in Request) /\ Single(<<q>>, Request) /\ FirstXid(<<q>>)
      <4>1. q.t \in {"BARRIER_REQUEST", "BARRIER_REPLY", "ERROR"} => q.xid = 1
        BY <1>0, <3>1 DEF Decent, Xids, FirstXid
      <4> QED
        BY <4>1, Alone
    <3>5. /\ Holds(to_switch[c] \o <<q>>, Request)
               <=> Holds(to_switch[c], Request) \/ Holds(<<q>>, Request)
          /\ ~Holds(to_switch[c], Request) \/ ~Holds(<<q>>, Request)
               => Single(to_switch[c] \o <<q>>, Request)
          /\ FirstXid(to_switch[c] \o <<q>>)
      BY <1>0, <2>0, <3>1, <3>4, Joined DEF Decent, OneEarly, Xids
    <3> QED
      BY <1>0, <3>2, <3>3, <3>4, <3>5 DEF Decent, OneEarly, Early, Xids
  <2>2. CASE CutOff(c)
    <3>1. sw' = sw /\ to_ctl' = to_ctl /\ to_switch' = to_switch /\ deferred'[c] = <<>>
      BY <1>0, <2>2 DEF CutOff, Types
    <3>2. ~Holds(deferred'[c], Request) /\ Single(deferred'[c], Request) /\ FirstXid(deferred'[c])
      BY <3>1, Alone
    <3> QED
      BY <1>0, <3>1, <3>2 DEF Decent, OneEarly, Early, Xids
  <2>3. CASE GivesUp(c)
    <3>1. sw' = sw /\ to_ctl' = to_ctl /\ to_switch' = to_switch
          /\ (deferred'[c] = deferred[c] \/ deferred'[c] = <<>>)
      BY <1>0, <2>3 DEF GivesUp, Types
    <3>2. deferred'[c] = <<>> =>
            ~Holds(deferred'[c], Request) /\ Single(deferred'[c], Request) /\ FirstXid(deferred'[c])
      BY Alone
    <3> QED
      BY <1>0, <3>1, <3>2 DEF Decent, OneEarly, Early, Xids
  <2> QED
    BY <1>10, <2>1, <2>2, <2>3, DeferredStep
<1> QED
  BY <1>1, <1>2, <1>3, <1>4, <1>5, <1>6, <1>7, <1>8, <1>9, <1>10 DEF Act

-----------------------------------------------------------------------------
(* What a step of a polite switch's connection does to the nexus and to    *)
(* the connection itself.                                                  *)
Moved(c) ==
  /\ \A d \in Dpids : nexus'[d] # nexus[d] => d = con'[c].dpid
  /\ con'[c].dpid = con[c].dpid \/ con[c].dpid = NoDpid
Settled(c) ==
  /\ Early(c)' => Unknown(c)'
  /\ con'[c].barriers \in {0, 1} /\ InOrder(c)'
  /\ \A d \in Dpids : nexus'[d] = c => con'[c].open /\ con'[c].dpid = d
  /\ con'[c].has_nexus \/ raised'[c] = "up" => con'[c].dpid # NoDpid
  /\ (/\ con'[c].dpid # NoDpid /\ ~con'[c].disconnected
      /\ \A b \in Connections \ {c} : con[b].dpid # con'[c].dpid) => nexus'[con'[c].dpid] = c

(* Reading a message.  The features reply is the last early message; the   *)
(* barrier reply is the one that is waited for.                            *)
LEMMA ReadSettled ==
  ASSUME Basics, NEW c \in Connections, Courteous(c), NEW m \in ToCtl, NEW w \in World,
         ReadTo(c, m, w)
  PROVE  Settled(c) /\ Moved(c)
<1>0. /\ Types /\ Kept(c) /\ (Early(c) => Unknown(c)) /\ c # NoConnection
      /\ OneBarrier(c) /\ InOrder(c) /\ Registered(c) /\ nexus \in Nexus
  BY SwitchesAssumption DEF Basics, Courteous, Types
<1>1. /\ con'[c] = w.con /\ raised'[c] = w.raised /\ nexus' = w.nexus
      /\ con[c].open /\ w.con.open /\ running /\ running' = running /\ cut_off' = cut_off
      /\ ByHandler(c, m, w) /\ m = to_ctl[c][1] /\ to_ctl[c] # <<>>
  BY <1>0 DEF ReadTo, Types
<1>2. /\ (Early(c)' => Early(c)) /\ (m.t \in First => Early(c))
      /\ m.t = "FEATURES_REPLY" => ~Early(c)'
  BY DecentHandled
<1>3. CASE m.t \in {"HELLO", "ECHO_REQUEST"}
  <2>1. Sent(Now(c), w, Reply(m)) /\ Now(c).nexus = nexus /\ Now(c).con = con[c]
        /\ Now(c).raised = raised[c]
    BY <1>1, <1>3 DEF ByHandler, Now
  <2>2. Without(Now(c)) = IF con[c].has_nexus /\ con[c].dpid # NoDpid
                          THEN [nexus EXCEPT ![con[c].dpid] = NoConnection] ELSE nexus
    BY <2>1 DEF Without
  <2>3. /\ Alike(w.con, con[c]) /\ w.raised = raised[c]
        /\ w.con.disconnection_raised <=> con[c].disconnection_raised
        /\ con[c].disconnected => w.con.disconnected
        /\ \/ w.con.disconnected /\ w.nexus \in {nexus, Without(Now(c))}
           \/ w.con = con[c] /\ w.nexus = nexus
    BY <2>1 DEF Sent
  <2>4. \A d \in Dpids : w.nexus[d] = nexus[d] \/ (w.nexus[d] = NoConnection /\ d = con[c].dpid)
    BY <1>0, <2>2, <2>3 DEF Nexus
  <2>5. ~w.con.disconnected => w.nexus = nexus /\ ~con[c].disconnected
    BY <2>3
  <2>6. Moved(c)
    BY <1>1, <2>3, <2>4 DEF Moved, Alike
  <2>7. /\ Early(c)' => Unknown(c)'
        /\ con'[c].barriers \in {0, 1} /\ InOrder(c)'
    BY <1>0, <1>1, <1>2, <2>3 DEF Alike, Unknown, InOrder, OneBarrier
  <2>8. Settled(c)
    BY <1>0, <1>1, <2>3, <2>4, <2>5, <2>7 DEF Alike, Settled, Registered
  <2> QED
    BY <2>6, <2>8
<1>4. CASE m.t = "FEATURES_REPLY"
  <2>1. Featured(c, m, w) /\ m.dpid \in Dpids /\ m.dpid # NoDpid
    BY <1>1, <1>4, SwitchesAssumption DEF ByHandler
  <2>2. Unknown(c) /\ ~Early(c)'
    BY <1>0, <1>2, <1>4 DEF First
  <2>3. /\ con[c].dpid = NoDpid /\ con[c].barriers = 0 /\ raised[c] = "quiet"
        /\ ~con[c].connected /\ \A d \in Dpids : nexus[d] # c
    BY <1>0, <2>2 DEF Unknown, Kept
  <2>4. /\ w.raised = "quiet" /\ w.con.dpid = m.dpid /\ w.con.barriers = 1
        /\ w.nexus \in {[nexus EXCEPT ![m.dpid] = c], [nexus EXCEPT ![m.dpid] = NoConnection]}
        /\ ~w.con.disconnected => w.nexus = [nexus EXCEPT ![m.dpid] = c]
    BY <2>1, <2>3 DEF Featured
  <2>5. /\ \A d \in Dpids : w.nexus[d] # nexus[d] => d = m.dpid
        /\ \A d \in Dpids : w.nexus[d] = c => d = m.dpid
        /\ ~w.con.disconnected => w.nexus[m.dpid] = c
    BY <1>0, <2>1, <2>3, <2>4 DEF Nexus
  <2>6. InOrder(c)'
    BY <1>1, <2>4 DEF InOrder
  <2> QED
    BY <1>1, <2>1, <2>2, <2>3, <2>4, <2>5, <2>6 DEF Settled, Moved
<1>5. CASE m.t \in {"BARRIER_REPLY", "ERROR"}
  <2>1. Barriered(c, m, w)
    BY <1>1, <1>5 DEF ByHandler
  <2>2. m.xid = 1
    <3>1. 1 \in DOMAIN to_ctl[c]
      BY <1>0, <1>1 DEF Types
    <3> QED
      BY <1>0, <1>1, <1>5, <3>1 DEF OneBarrier, FirstXid
  <2>3. con[c].waiting \subseteq {1}
    BY <1>0 DEF Kept, OneBarrier
  <2>4. Left(c, m) = {}
    BY <2>2, <2>3 DEF Left
  <2>5. /\ w.con.dpid = con[c].dpid /\ w.con.waiting = {} /\ w.nexus = nexus
        /\ w.con.disconnected <=> con[c].disconnected
        /\ w.con.disconnection_raised <=> con[c].disconnection_raised
        /\ w.con.has_nexus = con[c].has_nexus /\ w.con.barriers = con[c].barriers
        /\ w.raised = IF con[c].waiting # {} THEN Raise(raised[c], "up") ELSE raised[c]
    BY <2>1, <2>2, <2>3, <2>4 DEF Barriered
  <2>6. con[c].waiting # {} => con[c].dpid # NoDpid /\ ~Early(c)
    BY <1>0 DEF Kept, Registered, Unknown
  <2>7. InOrder(c)'
    <3>1. CASE con[c].waiting # {}
      BY <1>0, <1>1, <2>5, <3>1 DEF InOrder, Raise
    <3>2. CASE con[c].waiting = {}
      BY <1>0, <1>1, <2>5, <3>2 DEF InOrder
    <3> QED
      BY <3>1, <3>2
  <2>8. Early(c)' => Unknown(c)'
    BY <1>0, <1>1, <1>2, <2>5, <2>6 DEF Unknown
  <2>9. con'[c].has_nexus \/ raised'[c] = "up" => con'[c].dpid # NoDpid
    BY <1>0, <1>1, <2>5, <2>6 DEF Registered
  <2> QED
    BY <1>0, <1>1, <2>5, <2>7, <2>8, <2>9 DEF Settled, Moved, Registered, OneBarrier
<1>6. CASE m.t \in {"PORT_STATUS", "STATS_REPLY"}
  <2>1. Stays(c, w)
    BY <1>1, <1>6 DEF ByHandler
  <2>2. Early(c)' => Unknown(c)'
    BY <1>0, <1>1, <1>2, <2>1 DEF Stays, Unknown
  <2>3. InOrder(c)'
    BY <1>0, <1>1, <2>1 DEF Stays, InOrder
  <2> QED
    BY <1>0, <1>1, <2>1, <2>2, <2>3 DEF Stays, Settled, Moved, Registered, OneBarrier
<1> QED
  BY <1>1, <1>3, <1>4, <1>5, <1>6 DEF ByHandler

(* A disconnect outside a handler.  It may leave a barrier that is waited  *)
(* for, but then the connection is closed or cut off, or POX is down.      *)
LEMMA ShutSettled ==
  ASSUME Basics, NEW c \in Connections, Courteous(c), NEW defer \in BOOLEAN,
         Shuts(c, defer), cut_off \subseteq cut_off', running' => running,
         defer \/ ~con'[c].open \/ ~running' \/ c \in cut_off',
         Early(c)' => Early(c),
         \A d \in Dpids : nexus'[d] # c
  PROVE  Settled(c)
<1>0. /\ Types /\ Kept(c) /\ (Early(c) => Unknown(c))
      /\ OneBarrier(c) /\ InOrder(c) /\ Registered(c)
  BY DEF Basics, Courteous
<1>1. Early(c)' => Unknown(c)'
  BY <1>0 DEF Shuts, Unknown
<1>2. InOrder(c)'
  <2>1. CASE defer
    BY <1>0, <2>1 DEF Shuts, InOrder
  <2>2. CASE ~defer
    BY <1>0, <2>2 DEF Shuts, InOrder, Raise
  <2> QED
    BY <2>1, <2>2
<1>3. con'[c].has_nexus \/ raised'[c] = "up" => con'[c].dpid # NoDpid
  BY <1>0 DEF Shuts, Registered, Raise
<1> QED
  BY <1>0, <1>1, <1>2, <1>3 DEF Shuts, Settled, OneBarrier

(* After a disconnect the nexus does not have the connection.              *)
LEMMA ForgottenMoved ==
  ASSUME Basics, NEW c \in Connections, Registered(c), Forgotten(c),
         con'[c].dpid = con[c].dpid
  PROVE  Moved(c) /\ \A d \in Dpids : nexus'[d] # c
<1>0. nexus \in Nexus /\ c # NoConnection /\ Kept(c)
  BY SwitchesAssumption DEF Basics, Types
<1>1. NoDpid \notin Dpids
  BY SwitchesAssumption
<1> QED
  BY <1>0, <1>1 DEF Nexus, Forgotten, Moved, Registered, Kept

(* Every step of the connection of a polite switch keeps it in order.      *)
LEMMA OwnSettled ==
  ASSUME Basics, StatsInv, NEW c \in Connections, Courteous(c), Act(c)
  PROVE  Settled(c) /\ Moved(c)
<1>0. /\ Types /\ Fresh(c) /\ Kept(c) /\ (Early(c) => Unknown(c)) /\ NoConnection # c
      /\ OneBarrier(c) /\ InOrder(c) /\ Registered(c) /\ (link[c] = "open" => con[c].open)
  BY SwitchesAssumption DEF Basics, Courteous, StatsInv, StatsFollow
<1>1. (Early(c)' => Early(c)) /\ running' = running
  BY <1>0, OwnDecent, OthersUntouched
<1>2. CASE Accept(c)
  <2>1. /\ con'[c] = [con[c] EXCEPT !.open = TRUE] /\ con[c] = NewConnection
        /\ UNCHANGED <<nexus, raised, cut_off>>
    BY <1>0, <1>2 DEF Accept, Fresh, Types
  <2>2. /\ con'[c].dpid = con[c].dpid /\ con'[c].barriers = 0 /\ con'[c].open
        /\ con'[c].waiting = {} /\ ~con'[c].has_nexus /\ con'[c].dpid = NoDpid
        /\ ~con'[c].disconnection_raised /\ ~con[c].disconnection_raised /\ ~con[c].has_nexus
    BY <2>1 DEF NewConnection
  <2>3. Early(c)' => Unknown(c)'
    BY <1>0, <1>1, <2>1, <2>2 DEF Unknown
  <2>4. InOrder(c)'
    BY <1>0, <2>1, <2>2 DEF InOrder
  <2> QED
    BY <1>0, <2>1, <2>2, <2>3, <2>4 DEF Settled, Moved, Kept, Registered
<1>3. ASSUME UNCHANGED <<con, nexus, raised, cut_off>> PROVE Settled(c) /\ Moved(c)
  <2>1. Early(c)' => Unknown(c)'
    BY <1>0, <1>1, <1>3 DEF Unknown
  <2>2. InOrder(c)'
    BY <1>0, <1>1, <1>3 DEF InOrder
  <2> QED
    BY <1>0, <1>3, <2>1, <2>2 DEF Settled, Moved, Registered, OneBarrier
<1>4. CASE Greet(c) \/ Answer(c) \/ ReportPort(c) \/ SendStats(c) \/ Leave(c)
  BY <1>3, <1>4 DEF Greet, Answer, ReportPort, SendStats, Leave, controller
<1>5. CASE Read(c)
  <2>1. PICK m \in ToCtl, w \in World : ReadTo(c, m, w)
    BY <1>0, <1>5, ReadStep
  <2> QED
    BY <2>1, ReadSettled
<1>6. CASE CloseConnection(c)
  <2>1. Shuts(c, FALSE) /\ Forgotten(c) /\ ~con'[c].open /\ cut_off' = cut_off
        /\ con'[c].dpid = con[c].dpid
    BY <1>0, <1>6, CloseShuts DEF CloseConnection, Shuts
  <2>2. Moved(c) /\ \A d \in Dpids : nexus'[d] # c
    BY <1>0, <2>1, ForgottenMoved
  <2> QED
    BY <1>1, <2>1, <2>2, ShutSettled
<1>7. CASE DeferredSend(c) \/ SelectFails(c)
  <2>1. CASE PassOn(c) \/ GivesUp(c)
    BY <1>3, <2>1 DEF PassOn, GivesUp
  <2>2. CASE CutOff(c)
    <3>1. Shuts(c, FALSE) /\ Forgotten(c) /\ cut_off' = cut_off \cup {c}
          /\ con'[c].dpid = con[c].dpid
      BY <1>0, <2>2, CutOffShuts DEF CutOff, Shuts
    <3>2. Moved(c) /\ \A d \in Dpids : nexus'[d] # c
      BY <1>0, <3>1, ForgottenMoved
    <3> QED
      BY <1>1, <3>1, <3>2, ShutSettled
  <2> QED
    BY <1>7, <2>1, <2>2, DeferredStep
<1>8. CASE SendFromThread(c)
  <2>1. Shuts(c, TRUE) /\ Forgotten(c) /\ cut_off' = cut_off /\ con'[c].dpid = con[c].dpid
    BY <1>0, <1>8, ThreadShuts DEF SendFromThread, Shuts
  <2>2. Moved(c) /\ \A d \in Dpids : nexus'[d] # c
    BY <1>0, <2>1, ForgottenMoved
  <2> QED
    BY <1>1, <2>1, <2>2, ShutSettled
<1> QED
  BY <1>2, <1>4, <1>5, <1>6, <1>7, <1>8 DEF Act

(* cut_off grows, and only by the connection that acts.                    *)
LEMMA CutOffGrows ==
  ASSUME Types, NEW c \in Connections, Act(c)
  PROVE  cut_off' = cut_off \/ cut_off' = cut_off \cup {c}
<1>1. CASE Read(c)
  BY <1>1 DEF Read
<1>2. CASE DeferredSend(c) \/ SelectFails(c)
  BY <1>2, DeferredStep DEF PassOn, CutOff, GivesUp
<1>3. CASE ~Read(c) /\ ~DeferredSend(c) /\ ~SelectFails(c)
  BY <1>3 DEF Act, Accept, Greet, Answer, ReportPort, SendStats, Leave, CloseConnection,
              SendFromThread, controller
<1> QED
  BY <1>1, <1>2, <1>3

(* At first a polite switch has a greeting to send, and nothing else has   *)
(* happened.                                                               *)
LEMMA PoliteInit == Init => PoliteInv
<1> SUFFICES ASSUME Init, Polite, NEW c \in Connections PROVE Courteous(c)
  BY DEF PoliteInv
<1>1. /\ sw[c].hellos = 1 /\ to_ctl[c] = <<>> /\ to_switch[c] = <<>> /\ deferred[c] = <<>>
      /\ con[c] = NewConnection /\ raised[c] = "quiet" /\ \A d \in Dpids : nexus[d] # c
  BY SwitchesAssumption DEF Init, Polite
<1>2. OneEarly(c)
  BY <1>1, Alone DEF OneEarly
<1>3. /\ con[c].dpid = NoDpid /\ con[c].barriers = 0 /\ ~con[c].has_nexus
      /\ ~con[c].disconnection_raised
  BY <1>1 DEF NewConnection
<1>4. Unknown(c) /\ InOrder(c) /\ Registered(c)
  BY <1>1, <1>3 DEF Unknown, InOrder, Registered
<1>5. OneBarrier(c)
  BY <1>1, <1>3, Alone DEF OneBarrier
<1> QED
  BY <1>2, <1>4, <1>5 DEF Courteous

(* Polite switches stay in order through every step.                       *)
LEMMA PoliteNext == Basics /\ StatsInv /\ PoliteInv /\ [Next]_vars => PoliteInv'
<1> SUFFICES ASSUME Basics, StatsInv, PoliteInv, [Next]_vars PROVE PoliteInv'
  OBVIOUS
<1>0. Types /\ NoConnection \notin Connections /\ NoDpid \notin Dpids
  BY SwitchesAssumption DEF Basics
<1>1. ASSUME NEW c \in Connections, Act(c), Polite', NEW b \in Connections
      PROVE  Courteous(b)'
  <2>1. /\ \A a \in Connections \ {c} : Untouched(a)
        /\ NexusMoves(c) /\ switches' = switches /\ running' = running
    BY <1>0, <1>1, OthersUntouched
  <2>2. \A a \in Connections : Courteous(a)
    BY <1>1, <2>1 DEF PoliteInv, Polite
  <2>3. Settled(c) /\ Moved(c) /\ Decent(c)'
    BY <1>1, <2>2, OwnSettled, OwnDecent
  <2>4. cut_off' = cut_off \/ cut_off' = cut_off \cup {c}
    BY <1>0, <1>1, CutOffGrows
  <2>5. CASE b = c
    <3>1. \A a \in Connections \ {c} : con'[a].dpid = con[a].dpid
      BY <2>1 DEF Untouched
    <3>2. Registered(c)'
      BY <2>3, <3>1 DEF Settled, Registered
    <3> QED
      BY <2>3, <2>5, <3>2 DEF Settled, Courteous, Decent, Xids, OneBarrier
  <2>6. CASE b # c
    <3>1. Untouched(b) /\ Courteous(b) /\ con[b] \in Connection /\ con[b].dpid \in Dpids \cup {NoDpid}
      BY <1>0, <2>1, <2>2, <2>6 DEF Types, Connection
    <3>2. OneEarly(b)' /\ OneBarrier(b)'
      BY <3>1 DEF Untouched, Courteous, OneEarly, OneBarrier
    <3>3. Early(b)' => Unknown(b)'
      BY <3>1 DEF Untouched, Courteous, Early, Unknown
    <3>4. InOrder(b)'
      BY <2>1, <2>4, <2>6, <3>1 DEF Untouched, Courteous, InOrder
    <3>5. \A d \in Dpids : nexus'[d] = b => nexus[d] = b
      BY <1>0, <2>1, <2>6 DEF NexusMoves
    <3>6. ASSUME con'[b].dpid # NoDpid, ~con'[b].disconnected,
                 \A a \in Connections \ {b} : con'[a].dpid # con'[b].dpid
          PROVE  nexus'[con'[b].dpid] = b
      <4>1. con'[b] = con[b] /\ con[b].dpid \in Dpids /\ con[b].dpid # con'[c].dpid
        BY <2>6, <3>1, <3>6 DEF Untouched
      <4>2. nexus'[con[b].dpid] = nexus[con[b].dpid]
        BY <2>3, <4>1 DEF Moved
      <4>3. \A a \in Connections \ {b} : con[a].dpid # con[b].dpid
        <5> TAKE a \in Connections \ {b}
        <5>1. CASE a = c
          BY <1>0, <2>3, <4>1, <5>1 DEF Moved
        <5>2. CASE a # c
          BY <2>1, <3>6, <4>1, <5>2 DEF Untouched
        <5> QED
          BY <5>1, <5>2
      <4>4. nexus[con[b].dpid] = b
        BY <3>1, <3>6, <4>1, <4>3 DEF Courteous, Registered
      <4> QED
        BY <4>1, <4>2, <4>4
    <3>7. Registered(b)'
      <4>1. Registered(b)
        BY <3>1 DEF Courteous
      <4> QED
        BY <3>1, <3>5, <3>6, <4>1 DEF Untouched, Registered
    <3> QED
      BY <3>2, <3>3, <3>4, <3>7 DEF Courteous
  <2> QED
    BY <2>5, <2>6
<1>2. ASSUME HandleDownEvent, Polite', NEW c \in Connections
      PROVE  Courteous(c)'
  <2>1. /\ UNCHANGED <<switches, to_ctl, to_switch, sw, deferred, cut_off>> /\ ~running'
        /\ running
    BY <1>2 DEF HandleDownEvent
  <2>2. Courteous(c) /\ \A a \in Connections : Registered(a)
    BY <1>2, <2>1 DEF PoliteInv, Polite, Courteous
  <2>3. (Early(c)' <=> Early(c)) /\ OneEarly(c)'
    BY <2>1, <2>2 DEF Early, OneEarly, Courteous
  <2>4. \A a \in Connections : con'[a].dpid = con[a].dpid
    BY <1>0, <1>2, DownShuts DEF Shuts
  <2>5. \A d \in Dpids : nexus'[d] # c
    <3>1. ASSUME NEW d \in Dpids, nexus'[d] = c PROVE FALSE
      <4>1. nexus[d] = c /\ ~(\E a \in Connections : (\E e \in Dpids : nexus[e] = a) /\ con[a].dpid = d)
        BY <1>0, <1>2, <3>1 DEF HandleDownEvent
      <4>2. con[c].dpid = d
        BY <2>2, <4>1 DEF Registered
      <4> QED
        BY <4>1, <4>2
    <3> QED
      BY <3>1
  <2>6. CASE \E d \in Dpids : nexus[d] = c
    <3>1. Shuts(c, FALSE)
      BY <1>0, <1>2, <2>6, DownShuts
    <3>2. Settled(c)
      BY <2>1, <2>2, <2>3, <2>5, <3>1, ShutSettled
    <3>3. Registered(c)'
      BY <2>4, <3>2 DEF Settled, Registered
    <3>4. OneBarrier(c)'
      BY <2>1, <2>2, <3>2 DEF Settled, OneBarrier, Courteous
    <3> QED
      BY <2>3, <3>2, <3>3, <3>4 DEF Settled, Courteous
  <2>7. CASE ~ \E d \in Dpids : nexus[d] = c
    <3>1. con'[c] = con[c] /\ raised'[c] = raised[c]
      BY <1>0, <1>2, <2>7, DownShuts
    <3>2. OneBarrier(c)' /\ InOrder(c)' /\ (Early(c)' => Unknown(c)')
      BY <2>1, <2>2, <2>3, <3>1 DEF Courteous, OneBarrier, InOrder, Unknown
    <3>3. con[c].dpid \in Dpids \cup {NoDpid}
      BY <1>0 DEF Types, Connection
    <3>4. ASSUME con'[c].dpid # NoDpid, ~con'[c].disconnected,
                 \A a \in Connections \ {c} : con'[a].dpid # con'[c].dpid
          PROVE  FALSE
      BY <2>2, <2>4, <2>7, <3>1, <3>3, <3>4 DEF Courteous, Registered
    <3>5. Registered(c)'
      BY <2>2, <2>5, <3>1, <3>4 DEF Courteous, Registered
    <3> QED
      BY <2>3, <3>2, <3>5 DEF Courteous
  <2> QED
    BY <2>6, <2>7
<1>3. CASE UNCHANGED vars
  BY <1>3 DEF vars, controller, PoliteInv, Polite, Courteous, OneEarly, Early, Unknown,
              OneBarrier, InOrder, Registered
<1> QED
  BY <1>1, <1>2, <1>3, Steps DEF PoliteInv

-----------------------------------------------------------------------------
(* The inductive invariant holds in every reachable state of the           *)
(* controller, of the switches and of the DeferredSender.                  *)
THEOREM ControllerInvariant == Spec => []OInv
<1>1. Init => OInv
  BY BasicsInit, PortsInit, StatsInit, PoliteInit DEF OInv
<1>2. OInv /\ [Next]_vars => OInv'
  BY BasicsNext, PortsNext, StatsNext, PoliteNext DEF OInv
<1> QED
  BY <1>1, <1>2, PTL DEF Spec

LEMMA ViewFollows == OInv => ViewRight
<1> SUFFICES ASSUME OInv PROVE ViewRight
  OBVIOUS
<1>0. Basics /\ PortsInv /\ StatsInv /\ PoliteInv /\ Types
  BY DEF OInv, Basics
<1>1. TypeOK
  <2>1. nexus \in [Dpids -> Connections \cup {NoConnection}]
    BY <1>0 DEF Types, Nexus
  <2>2. ASSUME NEW c \in Connections
        PROVE  /\ link[c] \in {"new", "open", "gone"} /\ raised[c] \in {"quiet", "up", "down", "again"}
               /\ con[c].dpid \in Dpids \cup {NoDpid}
               /\ con[c].waiting \subseteq 1..con[c].barriers
               /\ con[c].disconnection_raised => con[c].disconnected
               /\ deferred[c] # <<>> => sending
    <3>1. Kept(c) /\ con[c] \in Connection /\ raised[c] \in Event
          /\ link[c] \in {"new", "open", "gone"}
      BY <1>0 DEF Basics, Types
    <3> QED
      BY <3>1 DEF Kept, Connection, Event
  <2> QED
    BY <2>1, <2>2 DEF TypeOK
<1>2. NexusHonest
  <2> SUFFICES ASSUME Polite PROVE
        /\ \A d \in Dpids : nexus[d] # NoConnection => con[nexus[d]].open /\ con[nexus[d]].dpid = d
        /\ \A c \in Connections :
             (raised[c] = "up" /\ ~con[c].disconnected
                /\ \A b \in Connections \ {c} : con[b].dpid # con[c].dpid)
             => nexus[con[c].dpid] = c
    BY DEF NexusHonest
  <2>1. \A c \in Connections : Registered(c)
    BY <1>0 DEF PoliteInv, Courteous
  <2>2. ASSUME NEW d \in Dpids, nexus[d] # NoConnection
        PROVE  con[nexus[d]].open /\ con[nexus[d]].dpid = d
    <3>1. nexus[d] \in Connections
      BY <1>0, <2>2 DEF Types, Nexus
    <3> QED
      BY <2>1, <3>1 DEF Registered
  <2>3. ASSUME NEW c \in Connections, raised[c] = "up", ~con[c].disconnected,
               \A b \in Connections \ {c} : con[b].dpid # con[c].dpid
        PROVE  nexus[con[c].dpid] = c
    BY <2>1, <2>3 DEF Registered
  <2> QED
    BY <2>2, <2>3
<1>3. PortsKnown
  <2> SUFFICES ASSUME NEW c \in Connections, con[c].connected, to_ctl[c] = <<>>,
                      link[c] = "open", NEW p \in DOMAIN sw[c].ports
               PROVE  p \in DOMAIN con[c].ports /\ con[c].ports[p] = sw[c].ports[p]
    BY DEF PortsKnown
  <2>1. con[c].has_nexus /\ Follows(to_ctl[c], con[c].ports, con[c].has_nexus, sw[c].ports)
    BY <1>0 DEF Basics, Kept, PortsInv, PortsFollow
  <2>2. DOMAIN to_ctl[c] = {}
    OBVIOUS
  <2> QED
    BY <2>1, <2>2 DEF Follows
<1>4. StatsWhole
  <2>1. \A c \in Connections : Whole(received[c])
    BY <1>0 DEF StatsInv, StatsFollow
  <2> QED
    BY <2>1 DEF Whole, StatsWhole
<1> QED
  BY <1>1, <1>2, <1>3, <1>4 DEF ViewRight

(* What components find in core.openflow and in a connection: con.ports    *)
(* has every port of the switch in its present state once its messages are *)
(* read (ports that the switch deleted may be there too), and a statistics *)
(* event is one whole reply, whatever the switches do, with sends that     *)
(* fail, are put off or are dropped.  For switches that greet once, the    *)
(* nexus has no closed connection, and has each connection that is up as   *)
(* long as no other connection was made by the same switch.                *)
THEOREM ViewIsRight == Spec => []ViewRight
  BY ControllerInvariant, ViewFollows, PTL

(* The step that changes the nexus is one of the connection whose datapath *)
(* it is, which is not done with, and which is disconnected or registered. *)
LEMMA NexusByOwner ==
  ASSUME Types, NEW b \in Connections, Act(b), NEW d \in Dpids, nexus'[d] # nexus[d]
  PROVE  con'[b].dpid = d /\ ~Done(b) /\ (con'[b].disconnected \/ nexus'[d] = b)
<1>1. CASE Accept(b) \/ Greet(b) \/ Answer(b) \/ ReportPort(b) \/ SendStats(b) \/ Leave(b)
  BY <1>1 DEF Accept, Greet, Answer, ReportPort, SendStats, Leave, controller
<1>2. CASE Read(b)
  <2>1. PICK m \in ToCtl, w \in World : ReadTo(b, m, w)
    BY <1>2, ReadStep
  <2>2. con'[b] = w.con /\ nexus' = w.nexus /\ ~Done(b)
    BY <2>1 DEF ReadTo, Types, Done
  <2>3. CASE m.t \in {"HELLO", "ECHO_REQUEST"}
    <3>1. Now(b).nexus = nexus /\ Now(b).con = con[b]
      BY DEF Now
    <3>2. Sent(Now(b), w, Reply(m))
      BY <2>1, <2>3 DEF ReadTo, ByHandler
    <3>3. w.con.disconnected /\ w.nexus = Without(Now(b)) /\ w.con.dpid = con[b].dpid
      BY <2>2, <3>1, <3>2 DEF Sent, Alike
    <3> QED
      BY <2>2, <3>1, <3>3 DEF Without, Types, Nexus
  <2>4. CASE m.t = "FEATURES_REPLY"
    BY <2>1, <2>2, <2>4 DEF ReadTo, ByHandler, Featured, Types, Nexus
  <2>5. CASE m.t \notin {"HELLO", "ECHO_REQUEST", "FEATURES_REPLY"}
    BY <2>1, <2>2, <2>5 DEF ReadTo, ByHandler, Barriered, Stays
  <2> QED
    BY <2>3, <2>4, <2>5
<1>3. ASSUME NEW defer \in BOOLEAN, Shuts(b, defer), Forgotten(b)
      PROVE  con'[b].dpid = d /\ con'[b].disconnected
  BY <1>3 DEF Shuts, Forgotten, Types, Nexus
<1>4. CASE CloseConnection(b)
  BY <1>3, <1>4, CloseShuts DEF CloseConnection, Done
<1>5. CASE DeferredSend(b) \/ SelectFails(b)
  <2>1. deferred[b] # <<>> /\ (PassOn(b) \/ CutOff(b) \/ GivesUp(b))
    BY <1>5, DeferredStep
  <2>2. CutOff(b)
    BY <2>1 DEF PassOn, GivesUp
  <2> QED
    BY <1>3, <2>1, <2>2, CutOffShuts DEF Done
<1>6. CASE SendFromThread(b)
  BY <1>3, <1>6, ThreadShuts DEF SendFromThread, Done
<1> QED
  BY <1>1, <1>2, <1>4, <1>5, <1>6 DEF Act

(* A switch may come back as often as it likes: a connection in the nexus  *)
(* stays there until it is disconnected itself, or until another one of    *)
(* the same switch interferes whose socket is open, or which the           *)
(* DeferredSender has data for.  Whatever else fails, and however often    *)
(* the switches greet.                                                     *)
THEOREM RegisteredStays == Spec => StaysRegistered
<1> DEFINE Stay(c, d) ==
      nexus[d] = c => \/ nexus'[d] = c \/ con'[c].disconnected
                      \/ \E b \in Connections \ {c} : con'[b].dpid = d /\ ~Done(b)
<1>1. ASSUME OInv, [Next]_vars, NEW c \in Connections, NEW d \in Dpids PROVE Stay(c, d)
  <2> SUFFICES ASSUME nexus[d] = c, nexus'[d] # c
               PROVE  \/ con'[c].disconnected
                      \/ \E b \in Connections \ {c} : con'[b].dpid = d /\ ~Done(b)
    OBVIOUS
  <2>0. Types
    BY <1>1 DEF OInv, Basics
  <2>1. ASSUME NEW b \in Connections, Act(b)
        PROVE  con'[c].disconnected \/ \E a \in Connections \ {c} : con'[a].dpid = d /\ ~Done(a)
    BY <2>0, <2>1, NexusByOwner
  <2>2. CASE HandleDownEvent
    BY <2>0, <2>2, DownShuts DEF Shuts
  <2>3. CASE UNCHANGED vars
    BY <2>3 DEF vars, controller
  <2> QED
    BY <1>1, <2>1, <2>2, <2>3, Steps
<1>2. OInv /\ [Next]_vars => [\A c \in Connections, d \in Dpids : Stay(c, d)]_vars
  BY <1>1
<1>3. Spec => [][Next]_vars
  BY PTL DEF Spec
<1> QED
  BY <1>2, <1>3, ControllerInvariant, PTL DEF StaysRegistered

-----------------------------------------------------------------------------
(* A step of a connection that is not cut off raises at most one event,    *)
(* and never a second of its kind or an Up after a Down.                   *)
OneEvent(c) ==
  \/ raised'[c] = raised[c]
  \/ raised[c] = "quiet" /\ raised'[c] = "up"
  \/ raised[c] # "down" /\ raised'[c] = "down"

LEMMA ShutEvent ==
  ASSUME NEW c \in Connections, InOrder(c), c \notin cut_off, NEW defer \in BOOLEAN, Shuts(c, defer)
  PROVE  raised'[c] = raised[c] \/ (raised[c] # "down" /\ raised'[c] = "down")
  BY DEF InOrder, Shuts, Raise

LEMMA ActEvent ==
  ASSUME Basics, NEW c \in Connections, Courteous(c), Act(c), c \notin cut_off
  PROVE  OneEvent(c)
<1>0. Types /\ Kept(c) /\ InOrder(c) /\ OneBarrier(c)
  BY DEF Basics, Courteous
<1>1. CASE Accept(c) \/ Greet(c) \/ Answer(c) \/ ReportPort(c) \/ SendStats(c) \/ Leave(c)
  BY <1>1 DEF Accept, Greet, Answer, ReportPort, SendStats, Leave, controller, OneEvent
<1>2. CASE Read(c)
  <2>1. PICK m \in ToCtl, w \in World : ReadTo(c, m, w)
    BY <1>0, <1>2, ReadStep
  <2>2. raised'[c] = w.raised /\ ByHandler(c, m, w) /\ con[c].open /\ running
    BY <1>0, <2>1 DEF ReadTo, Types
  <2>3. CASE m.t \in {"BARRIER_REPLY", "ERROR"}
    <3>1. w.raised = IF m.xid \in con[c].waiting THEN Raise(raised[c], "up") ELSE raised[c]
      BY <2>2, <2>3 DEF ByHandler, Barriered
    <3> QED
      BY <1>0, <2>2, <3>1 DEF InOrder, Raise, OneEvent
  <2>4. CASE m.t \notin {"BARRIER_REPLY", "ERROR"}
    <3>1. Now(c).raised = raised[c]
      BY DEF Now
    <3> QED
      BY <2>2, <2>4, <3>1 DEF ByHandler, Sent, Featured, Stays, OneEvent
  <2> QED
    BY <2>3, <2>4
<1>3. CASE CloseConnection(c)
  BY <1>0, <1>3, CloseShuts, ShutEvent DEF OneEvent
<1>4. CASE DeferredSend(c) \/ SelectFails(c)
  <2>1. CASE PassOn(c) \/ GivesUp(c)
    BY <2>1 DEF PassOn, GivesUp, OneEvent
  <2>2. CASE CutOff(c)
    BY <1>0, <2>2, CutOffShuts, ShutEvent DEF OneEvent
  <2> QED
    BY <1>4, <2>1, <2>2, DeferredStep
<1>5. CASE SendFromThread(c)
  BY <1>0, <1>5, ThreadShuts, ShutEvent DEF OneEvent
<1> QED
  BY <1>1, <1>2, <1>3, <1>4, <1>5 DEF Act

(* The events a component sees, as ConnectionEvents has them.              *)
Seen == [c \in Connections |->
           IF ~Polite THEN "quiet" ELSE IF c \in cut_off THEN "down" ELSE raised[c]]

LEMMA SeenUp ==
  ASSUME NEW c \in Connections, Seen[c] = "quiet", Seen' = [Seen EXCEPT ![c] = "up"]
  PROVE  [Events!Next]_Seen
  BY DEF Events!Next, Events!RaiseUp, Seen

LEMMA SeenDown ==
  ASSUME NEW lost \in SUBSET Connections, \A c \in lost : Seen[c] # "down",
         Seen' = [c \in Connections |-> IF c \in lost THEN "down" ELSE Seen[c]]
  PROVE  [Events!Next]_Seen
  BY DEF Events!Next, Events!RaiseDown, Seen

LEMMA SeenStep ==
  ASSUME OInv, [Next]_vars
  PROVE  [Events!Next]_Seen
<1>0. Basics /\ Types /\ PoliteInv
  BY DEF OInv, Basics
<1>1. CASE ~Polite
  <2>1. switches' = switches
    <3>1. CASE HandleDownEvent
      BY <3>1 DEF HandleDownEvent
    <3>2. CASE UNCHANGED vars
      BY <3>2 DEF vars
    <3> QED
      BY <1>0, <3>1, <3>2, OthersUntouched, Steps
  <2>2. ~Polite'
    BY <1>1, <2>1 DEF Polite
  <2> QED
    BY <1>1, <2>2 DEF Seen
<1>2. CASE Polite
  <2>0. \A c \in Connections : Courteous(c)
    BY <1>0, <1>2 DEF PoliteInv
  <2>1. ASSUME NEW c \in Connections, Act(c) PROVE [Events!Next]_Seen
    <3>1. /\ \A b \in Connections \ {c} : Untouched(b)
          /\ switches' = switches
      BY <1>0, <2>1, OthersUntouched
    <3>2. Polite'
      BY <1>2, <3>1 DEF Polite
    <3>3. cut_off' = cut_off \/ cut_off' = cut_off \cup {c}
      BY <1>0, <2>1, CutOffGrows
    <3>4. \A b \in Connections \ {c} : Seen'[b] = Seen[b]
      BY <1>2, <3>1, <3>2, <3>3 DEF Seen, Untouched
    <3>5. /\ Seen[c] = IF c \in cut_off THEN "down" ELSE raised[c]
          /\ Seen'[c] = IF c \in cut_off' THEN "down" ELSE raised'[c]
          /\ DOMAIN Seen = Connections /\ DOMAIN Seen' = Connections
          /\ Seen = [b \in Connections |-> Seen[b]] /\ Seen' = [b \in Connections |-> Seen'[b]]
      BY <1>2, <3>2 DEF Seen
    <3>6. \/ Seen'[c] = Seen[c] \/ (Seen[c] = "quiet" /\ Seen'[c] = "up")
          \/ (Seen[c] # "down" /\ Seen'[c] = "down")
      <4>1. CASE c \in cut_off
        BY <3>3, <3>5, <4>1
      <4>2. CASE c \notin cut_off
        <5>1. OneEvent(c)
          BY <1>0, <2>0, <2>1, <4>2, ActEvent
        <5> QED
          BY <3>5, <4>2, <5>1 DEF OneEvent
      <4> QED
        BY <4>1, <4>2
    <3> HIDE DEF Seen
    <3>7. CASE Seen'[c] = Seen[c]
      <4>1. Seen' = Seen
        BY <3>4, <3>5, <3>7
      <4> QED
        BY <4>1
    <3>8. CASE Seen[c] = "quiet" /\ Seen'[c] = "up"
      <4>1. Seen' = [Seen EXCEPT ![c] = "up"]
        BY <3>4, <3>5, <3>8
      <4> QED
        BY <3>8, <4>1, SeenUp
    <3>9. CASE Seen[c] # "down" /\ Seen'[c] = "down"
      <4>1. Seen' = [b \in Connections |-> IF b \in {c} THEN "down" ELSE Seen[b]]
        BY <3>4, <3>5, <3>9
      <4> DEFINE lost == {c}
      <4>2. lost \in SUBSET Connections /\ \A b \in lost : Seen[b] # "down"
        BY <3>9
      <4>3. Seen' = [b \in Connections |-> IF b \in lost THEN "down" ELSE Seen[b]]
        BY <4>1
      <4> HIDE DEF lost
      <4> QED
        BY <4>2, <4>3, SeenDown
    <3> QED
      BY <3>6, <3>7, <3>8, <3>9
  <2>2. CASE HandleDownEvent
    <3>1. Polite' /\ cut_off' = cut_off
      BY <1>2, <2>2 DEF HandleDownEvent, Polite
    <3>2. /\ \A c \in Connections : Seen[c] = IF c \in cut_off THEN "down" ELSE raised[c]
          /\ \A c \in Connections : Seen'[c] = IF c \in cut_off THEN "down" ELSE raised'[c]
          /\ Seen' = [b \in Connections |-> Seen'[b]]
      BY <1>2, <3>1 DEF Seen
    <3>3. ASSUME NEW c \in Connections
          PROVE  Seen'[c] = Seen[c] \/ (Seen[c] # "down" /\ Seen'[c] = "down")
      <4>1. CASE c \in cut_off
        BY <3>2, <4>1
      <4>2. CASE c \notin cut_off
        <5>1. raised'[c] = raised[c] \/ Shuts(c, FALSE)
          BY <1>0, <2>2, DownShuts
        <5>2. raised'[c] = raised[c] \/ (raised[c] # "down" /\ raised'[c] = "down")
          BY <2>0, <4>2, <5>1, ShutEvent DEF Courteous
        <5> QED
          BY <3>2, <4>2, <5>2
      <4> QED
        BY <4>1, <4>2
    <3> HIDE DEF Seen
    <3> DEFINE lost == {c \in Connections : Seen'[c] # Seen[c]}
    <3>4. Seen' = [c \in Connections |-> IF c \in lost THEN "down" ELSE Seen[c]]
      BY <3>2, <3>3
    <3>5. \A c \in lost : Seen[c] # "down"
      BY <3>3
    <3> QED
      BY <3>4, <3>5, SeenDown
  <2>3. CASE UNCHANGED vars
    BY <2>3 DEF vars, controller, Seen, Polite
  <2> QED
    BY <2>1, <2>2, <2>3, Steps
<1> QED
  BY <1>1, <1>2

(* The controller implements ConnectionEvents: for each connection one     *)
(* ConnectionUp at most, one ConnectionDown at most, and no Up after a     *)
(* Down, whichever thread disconnects it and however POX stops.            *)
THEOREM EventsInOrder == Spec => Lifecycle
<1>1. Init => Events!Init
  BY DEF Init, Events!Init
<1>2. OInv /\ [Next]_vars => [Events!Next]_Seen
  BY SeenStep
<1> QED
  BY <1>1, <1>2, ControllerInvariant, PTL DEF Spec, Lifecycle, Events!Spec, Seen
=============================================================================
