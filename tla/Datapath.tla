------------------------------ MODULE Datapath ------------------------------
(***************************************************************************)
(* The software switch of POX: SoftwareSwitch, ExpireMixin and             *)
(* OFConnection of pox/datapaths/switch.py with the FlowTable of           *)
(* pox/openflow/flow_table.py.  One action per frame, message, timer tick  *)
(* or change of ports; a handler runs to its end (POX is cooperative).     *)
(*                                                                         *)
(* Counters (packets, bytes, lookups) and descriptions are left out; a     *)
(* message is a record of what its receiver acts on.                       *)
(***************************************************************************)
EXTENDS OFMatch, SequencesExt, FiniteSets

CONSTANTS
  PortNos,       \* the numbers a port may have
  FirstPorts,    \* those the switch starts with
  Peers,         \* what hosts, controller and operator may do in one
                 \* behaviour: a set of
                 \* [packets, flow_mods, packet_outs, port_mods, requests,
                 \*  changing], with
                 \* flow_mods: [command, match, priority, actions, idle, hard,
                 \*    rem, overlap, emerg, out_port, buffer_id]
                 \* packet_outs: [actions, data or NoPacket, buffer_id, in_port]
                 \* port_mods: [port_no, flag, on, hw_addr]
                 \* requests: the other messages, [type, ...]
                 \* changing: the ports that are added and deleted
  MaxBuffers,    \* max_buffers
  MaxEntries,    \* max_entries
  Period         \* expire_period, in ticks

ASSUME SizesAssumption ==
  /\ FirstPorts \subseteq PortNos /\ IsFiniteSet(PortNos)
  /\ MaxBuffers \in Nat /\ MaxEntries \in Nat /\ Period \in Nat \ {0}

VARIABLES
  peers,         \* an element of Peers
  ports,         \* port number -> [config, link_down]
  port_stats,    \* the ports that have statistics: those there ever were
  table,         \* FlowTable._table
  buffer,        \* _packet_buffer: a slot is a packet with its port, or Free
  frag_drop,     \* config_flags & OFPC_FRAG_DROP
  conn,          \* _connection: [up, hello, starting]
  timer,         \* ticks until the expiry timer is due
  out,           \* what the last handler sent and forwarded, in order
  announced,     \* buffer number -> what the last packet-in said it holds,
                 \* Free for a slot that is not in use or was not announced
  view           \* the ports as the controller of this connection was told,
                 \* or NoView before the features reply

vars == <<peers, ports, port_stats, table, buffer, frag_drop, conn, timer, out, announced, view>>

NoPacket == <<>>
NONE == 0                              \* no buffer_id; OFPP_NONE for a port
IN_PORT == 65528
TABLE == 65529
FLOOD == 65531
ALL == 65532
CONTROLLER == 65533
STP_MAC == 9
Free == [packet |-> NoPacket, in_port |-> NONE]
NoView == [p \in {0} |-> FALSE]

(* What the set actions may name.                                          *)
Settable == {"dl_src", "dl_dst", "dl_vlan", "dl_vlan_pcp", "strip_vlan", "nw_tos"} \cup Nets \cup TP

Actions(list) ==
  /\ list \in Seq({list[i] : i \in DOMAIN list})
  /\ \A i \in DOMAIN list : list[i][1] = "set" => list[i][2] \in Settable

(* What the peers do is what the messages can carry: a frame has a place   *)
(* for the identity it gets on arrival, and OpenFlow 1.0 allows OFPP_TABLE *)
(* in a packet-out only.                                                   *)
ASSUME PeersAssumption ==
  \A pe \in Peers :
    /\ \A p \in pe.packets : "id" \in DOMAIN p
    /\ \A fm \in pe.flow_mods :
         /\ fm.command \in {"ADD", "MODIFY", "MODIFY_STRICT", "DELETE", "DELETE_STRICT", "UNKNOWN"}
         /\ Match(fm.match) /\ fm.priority \in Nat /\ fm.idle \in Nat /\ fm.hard \in Nat
         /\ fm.rem \in BOOLEAN /\ Actions(fm.actions)
         /\ \A i \in DOMAIN fm.actions : fm.actions[i][1] = "output" => fm.actions[i][2] # TABLE
    /\ \A po \in pe.packet_outs :
         /\ po.data = NoPacket \/ "id" \in DOMAIN po.data
         /\ Actions(po.actions) /\ po.in_port \in PortNos \cup {NONE}
    /\ \A pm \in pe.port_mods : pm.on \in BOOLEAN
    /\ \A r \in pe.requests :
         /\ r.type \in {"hello", "echo_request", "echo_reply", "features_request", "barrier_request",
                        "set_config", "get_config_request", "stats_request", "vendor",
                        "queue_get_config_request"}
         /\ r.type = "set_config" => r.frag_drop \in BOOLEAN
    /\ pe.changing \subseteq PortNos

-----------------------------------------------------------------------------
(* FlowTable                                                               *)

(* effective_priority: an exact match comes before every priority.         *)
effective_priority(e) == IF is_wildcarded(e.match) THEN e.priority ELSE 65537

from_flow_mod(fm, match) ==
  [match |-> match, priority |-> fm.priority, actions |-> fm.actions, idle |-> fm.idle,
   hard |-> fm.hard, rem |-> fm.rem, age |-> 0, untouched |-> 0]

(* is_matched_by; out_port NONE does not filter.                           *)
is_matched_by(e, match, priority, strict, out_port) ==
  /\ \/ out_port = NONE
     \/ \E i \in DOMAIN e.actions : e.actions[i] = <<"output", out_port>>
  /\ IF strict THEN e.match = match /\ e.priority = priority
     ELSE matches_with_wildcards(match, e.match, TRUE)

(* Fault: the search goes right of equal priorities and left of lower ones.*)
search_ascending(t, priority) ==
  LET low[w \in (0..Len(t)) \X (0..Len(t))] ==
        IF w[1] >= w[2] THEN w[1]
        ELSE LET middle == (w[1] + w[2]) \div 2
             IN IF priority <= effective_priority(t[middle + 1])
                THEN low[<<w[1], middle>>] ELSE low[<<middle + 1, w[2]>>]
  IN low[<<0, Len(t)>>]

(* The binary search of add_entry, for the place before equal priorities.  *)
search(t, priority) ==
  LET low[w \in (0..Len(t)) \X (0..Len(t))] ==
        IF w[1] >= w[2] THEN w[1]
        ELSE LET middle == (w[1] + w[2]) \div 2
             IN IF priority >= effective_priority(t[middle + 1])
                THEN low[<<w[1], middle>>] ELSE low[<<middle + 1, w[2]>>]
  IN low[<<0, Len(t)>>]

add_entry(t, e) == InsertAt(t, search(t, effective_priority(e)) + 1, e)

(* Places of the table, in its order.                                      *)
in_order(places) ==
  CHOOSE f \in [1..Cardinality(places) -> places] :
    /\ \A i \in places : \E k \in DOMAIN f : f[k] = i
    /\ \A j, k \in DOMAIN f : j < k => f[j] < f[k]

(* _remove_specific_entries: those at the places gone leave, and           *)
(* _handle_FlowTableModification reports those that ask for it.            *)
keep(t, gone) ==
  LET stay == in_order(DOMAIN t \ gone)
  IN [k \in DOMAIN stay |-> t[stay[k]]]

(* Fault: one notice for all that leave together.                          *)
flow_removed_once(t, gone, reason) ==
  LET told == in_order({i \in gone : t[i].rem})
  IN [k \in DOMAIN told \cap {1} |-> [type |-> "flow_removed", match |-> t[told[k]].match,
                                   priority |-> t[told[k]].priority, reason |-> reason]]

flow_removed(t, gone, reason) ==
  LET told == in_order({i \in gone : t[i].rem})
  IN [k \in DOMAIN told |-> [type |-> "flow_removed", match |-> t[told[k]].match,
                             priority |-> t[told[k]].priority, reason |-> reason]]

is_idle_timed_out(e) == e.idle > 0 /\ e.untouched > e.idle
is_hard_timed_out(e) == e.hard > 0 /\ e.age > e.hard

(* entry_for_packet: the first entry that matches, 0 if there is none.     *)
entry_for_packet(p, in_port) ==
  SelectInSeq(table, LAMBDA e : matches_with_wildcards(e.match, from_packet(p, in_port), FALSE))

(* check_for_overlapping_entry looks for an entry of the same priority     *)
(* that covers the new one or is covered by it.                            *)
check_for_overlapping_entry(t, new) ==
  \E i \in DOMAIN t :
    /\ effective_priority(t[i]) = effective_priority(new)
    /\ \/ matches_with_wildcards(new.match, t[i].match, TRUE)
       \/ matches_with_wildcards(t[i].match, new.match, TRUE)

-----------------------------------------------------------------------------
(* Messages to the controller.  send() drops them when there is no         *)
(* connection.  w is the switch while a handler runs: its buffer and out,  *)
(* the frame, the entries touched, and ok until an action raises or is     *)
(* unknown.                                                                *)
Send(w, msg) == IF conn.up THEN [w EXCEPT !.out = Append(@, msg)] ELSE w
SendAll(w, msgs) == IF conn.up THEN [w EXCEPT !.out = @ \o msgs] ELSE w
error(type) == [type |-> "error", error |-> type]

(* Fault: the pool grows by one slot too many.                             *)
buffer_packet_off_by_one(w, p, in_port) ==
  LET free == SelectInSeq(w.buffer, LAMBDA b : b = Free)
      held == [packet |-> p, in_port |-> in_port]
  IN IF free # 0 THEN <<free, [w.buffer EXCEPT ![free] = held]>>
     ELSE IF Len(w.buffer) > MaxBuffers THEN <<NONE, w.buffer>>
     ELSE <<Len(w.buffer) + 1, Append(w.buffer, held)>>

(* Fault: a full pool gives away its last slot.                            *)
buffer_packet_overwriting(w, p, in_port) ==
  LET free == SelectInSeq(w.buffer, LAMBDA b : b = Free)
      held == [packet |-> p, in_port |-> in_port]
  IN IF free # 0 THEN <<free, [w.buffer EXCEPT ![free] = held]>>
     ELSE IF Len(w.buffer) >= MaxBuffers THEN <<Len(w.buffer), w.buffer>>
     ELSE <<Len(w.buffer) + 1, Append(w.buffer, held)>>

(* _buffer_packet: the number of the slot, NONE if all are in use.         *)
buffer_packet(w, p, in_port) ==
  LET free == SelectInSeq(w.buffer, LAMBDA b : b = Free)
      held == [packet |-> p, in_port |-> in_port]
  IN IF free # 0 THEN <<free, [w.buffer EXCEPT ![free] = held]>>
     ELSE IF Len(w.buffer) >= MaxBuffers THEN <<NONE, w.buffer>>
     ELSE <<Len(w.buffer) + 1, Append(w.buffer, held)>>

(* send_packet_in: the data is cut to data_length only if it is buffered;  *)
(* every frame of the model is longer than that.                           *)
send_packet_in(w, p, in_port, reason) ==
  LET b == buffer_packet(w, p, in_port)
  IN Send([w EXCEPT !.buffer = b[2]],
          [type |-> "packet_in", buffer_id |-> b[1], in_port |-> in_port, packet |-> p,
           reason |-> reason, whole |-> b[1] = NONE])

-----------------------------------------------------------------------------
(* Forwarding                                                              *)

(* real_send                                                               *)
real_send(w, p, port_no, in_port, allow_in_port) ==
  IF \/ port_no = in_port /\ ~allow_in_port
     \/ port_no \notin DOMAIN ports
  THEN w
  ELSE IF ports[port_no].config \cap {"NO_FWD", "PORT_DOWN"} # {} \/ ports[port_no].link_down
  THEN w
  ELSE [w EXCEPT !.out = Append(@, [type |-> "forward", port |-> port_no, packet |-> p])]

(* real_send to each of some ports, in no particular order (a dictionary   *)
(* is read).                                                               *)
real_send_all(w, p, to, in_port) ==
  LET ready == {n \in to \ {in_port} :
                  ports[n].config \cap {"NO_FWD", "PORT_DOWN"} = {} /\ ~ports[n].link_down}
  IN [w EXCEPT !.out = @ \o [k \in 1..Cardinality(ready) |->
                               [type |-> "forward", port |-> SetToSeq(ready)[k], packet |-> p]]]

(* _output_packet, except for OFPP_TABLE.                                  *)
output_packet(w, p, port, in_port) ==
  CASE port \in PortNos -> real_send(w, p, port, in_port, FALSE)
    [] port = IN_PORT -> real_send(w, p, in_port, in_port, TRUE)
    [] port = FLOOD ->
         real_send_all(w, p, {n \in DOMAIN ports : "NO_FLOOD" \notin ports[n].config}, in_port)
    [] port = ALL -> real_send_all(w, p, DOMAIN ports, in_port)
    [] port = CONTROLLER -> send_packet_in(w, p, in_port, "action")
    [] OTHER -> w

(* What the set actions make of a frame: a tag is added when there is      *)
(* none; addresses and ports are set only where the header has them.       *)
rewritten(p, f, v) ==
  CASE f \in {"dl_src", "dl_dst"} -> [p EXCEPT ![f] = v]
    [] f = "dl_vlan" -> [p EXCEPT !["dl_vlan"] = v]
    [] f = "dl_vlan_pcp" ->
         [p EXCEPT !["dl_vlan_pcp"] = v,
                   !["dl_vlan"] = IF @ = OFP_VLAN_NONE THEN 0 ELSE @]
    [] f = "strip_vlan" -> [p EXCEPT !["dl_vlan"] = OFP_VLAN_NONE, !["dl_vlan_pcp"] = 0]
    [] f \in Nets \cup {"nw_tos"} -> IF is_ip(p) THEN [p EXCEPT ![f] = v] ELSE p
    [] f \in TP ->
         IF is_ip(p) /\ ~p["frag"] /\ p["nw_proto"] \in {6, 17} THEN [p EXCEPT ![f] = v] ELSE p

(* A slot refers to the object that was buffered, so every slot that holds *)
(* a frame sees what the actions write to it, in this handler or a later.  *)
rewrite(w, q) ==
  [w EXCEPT !.packet = q,
            !.buffer = [i \in DOMAIN @ |->
                          IF @[i] = Free THEN Free
                          ELSE IF @[i].packet["id"] = q["id"]
                          THEN [packet |-> q, in_port |-> @[i].in_port] ELSE @[i]]]

(* One action.  _action_enqueue reads an attribute the action lacks.       *)
apply_action(w, a, in_port) ==
  CASE ~w.ok -> w
    [] w.ok /\ a[1] = "output" -> output_packet(w, w.packet, a[2], in_port)
    [] w.ok /\ a[1] = "enqueue" -> [w EXCEPT !.ok = FALSE, !.raised = TRUE]
    [] w.ok /\ a[1] = "set" -> rewrite(w, rewritten(w.packet, a[2], a[3]))
    [] OTHER -> [Send(w, error("bad_action")) EXCEPT !.ok = FALSE]

(* _process_actions_for_packet, for an entry.  One that sends to the table *)
(* again may loop; entries do not.                                         *)
process_actions(w, actions, p, in_port) ==
  LET done[n \in 0..Len(actions)] ==
        IF n = 0 THEN [w EXCEPT !.ok = TRUE, !.packet = p]
        ELSE apply_action(done[n - 1], actions[n], in_port)
  IN done[Len(actions)]

(* rx_packet                                                               *)
rx_packet(w, p, in_port) ==
  LET port == ports[in_port]
      i == entry_for_packet(p, in_port)
  IN IF in_port \notin DOMAIN ports THEN w
     ELSE IF (IF p["dl_dst"] = STP_MAC THEN "NO_RECV_STP" ELSE "NO_RECV") \in port.config THEN w
     ELSE IF frag_drop /\ is_ip(p) /\ p["frag"] THEN w
     ELSE IF i # 0
     THEN process_actions([w EXCEPT !.touched = @ \cup {i}], table[i].actions, p, in_port)
     ELSE IF "NO_PACKET_IN" \in port.config THEN w
     ELSE send_packet_in(w, p, in_port, "no_match")

(* OFPP_TABLE: rx_packet called by an action.  What follows in the list    *)
(* goes on with the frame as the actions of the entry left it.             *)
to_table(w, in_port) ==
  LET u == rx_packet(w, w.packet, in_port)
  IN [u EXCEPT !.ok = ~u.raised]

apply_sent_action(w, a, in_port) ==
  IF w.ok /\ a[1] = "output" /\ a[2] = TABLE THEN to_table(w, in_port)
  ELSE apply_action(w, a, in_port)

(* _process_actions_for_packet, for the actions of a message.              *)
process_sent_actions(w, actions, p, in_port) ==
  LET done[n \in 0..Len(actions)] ==
        IF n = 0 THEN [w EXCEPT !.ok = TRUE, !.packet = p]
        ELSE apply_sent_action(done[n - 1], actions[n], in_port)
  IN done[Len(actions)]

Running == [buffer |-> buffer, out |-> <<>>, ok |-> TRUE, raised |-> FALSE,
            packet |-> NoPacket, touched |-> {}]

(* A frame that arrives, or comes in a message, becomes an object of its   *)
(* own: its identity is none that a slot refers to.                        *)
arrived(p) ==
  [p EXCEPT !["id"] = Min({n \in 1..(MaxBuffers + 1) :
                             ~\E i \in DOMAIN buffer : buffer[i] # Free /\ buffer[i].packet["id"] = n})]

(* _process_actions_for_packet_from_buffer: the slot is released after the *)
(* actions, and not at all if one of them raises.                          *)
from_buffer(w, actions, id) ==
  IF id \notin DOMAIN w.buffer THEN w
  ELSE IF w.buffer[id] = Free THEN w
  ELSE LET u == process_sent_actions(w, actions, w.buffer[id].packet, w.buffer[id].in_port)
       IN IF u.raised THEN u ELSE [u EXCEPT !.buffer[id] = Free]

-----------------------------------------------------------------------------
(* Flow modifications                                                      *)

(* Fault: an identical entry is not replaced.                              *)
flow_mod_add_twice(t, w, fm, new) ==
  IF fm.emerg THEN [table |-> t, w |-> Send(w, error("flow_mod_failed"))]
  ELSE IF fm.overlap /\ check_for_overlapping_entry(t, new)
  THEN [table |-> t, w |-> Send(w, error("overlap"))]
  ELSE IF Len(t) >= MaxEntries THEN [table |-> t, w |-> Send(w, error("all_tables_full"))]
  ELSE [table |-> add_entry(t, new), w |-> w]

(* _flow_mod_add: emergency entries are refused; ADD replaces an identical *)
(* entry without a notice; a full table refuses.                           *)
flow_mod_add(t, w, fm, new) ==
  LET same == {i \in DOMAIN t : is_matched_by(t[i], new.match, fm.priority, TRUE, NONE)}
      u == IF fm.command = "ADD" THEN keep(t, same) ELSE t
  IN IF fm.emerg THEN [table |-> t, w |-> Send(w, error("flow_mod_failed"))]
     ELSE IF fm.overlap /\ check_for_overlapping_entry(t, new)
     THEN [table |-> t, w |-> Send(w, error("overlap"))]
     ELSE IF Len(u) >= MaxEntries THEN [table |-> u, w |-> Send(w, error("all_tables_full"))]
     ELSE [table |-> add_entry(u, new), w |-> w]

(* _flow_mod_modify and _flow_mod_modify_strict                            *)
flow_mod_modify(t, w, fm, new, strict) ==
  LET hit == {i \in DOMAIN t : is_matched_by(t[i], new.match, fm.priority, strict, NONE)}
  IN IF hit # {}
     THEN [table |-> [i \in DOMAIN t |-> IF i \in hit THEN [t[i] EXCEPT !.actions = fm.actions]
                                         ELSE t[i]],
           w |-> w]
     ELSE flow_mod_add(t, w, fm, new)

(* _flow_mod_delete and _flow_mod_delete_strict                            *)
flow_mod_delete(t, w, fm, new, strict) ==
  LET gone == {i \in DOMAIN t : is_matched_by(t[i], new.match, fm.priority, strict, fm.out_port)}
  IN [table |-> keep(t, gone), w |-> SendAll(w, flow_removed(t, gone, "delete"))]

flow_mod(t, w, fm) ==
  LET new == from_flow_mod(fm, unwire(wire(fm.match)))
  IN CASE fm.command = "ADD" -> flow_mod_add(t, w, fm, new)
       [] fm.command = "MODIFY" -> flow_mod_modify(t, w, fm, new, FALSE)
       [] fm.command = "MODIFY_STRICT" -> flow_mod_modify(t, w, fm, new, TRUE)
       [] fm.command = "DELETE" -> flow_mod_delete(t, w, fm, new, FALSE)
       [] fm.command = "DELETE_STRICT" -> flow_mod_delete(t, w, fm, new, TRUE)

-----------------------------------------------------------------------------
(* Other requests                                                          *)
matching_entries(match, out_port) ==
  {i \in DOMAIN table : is_matched_by(table[i], match, 0, FALSE, out_port)}

(* _rx_stats_request: the handlers that return a body, and those that send *)
(* an error or raise.  A port that never was there raises KeyError.        *)
stats_reply(r) ==
  CASE r.stats \in {"desc", "table"} -> <<[type |-> "stats_reply", stats |-> r.stats]>>
    [] r.stats \in {"flow", "aggregate"} ->
         <<[type |-> "stats_reply", stats |-> r.stats,
            flows |-> Cardinality(matching_entries(r.match, r.out_port))]>>
    [] r.stats = "port" ->
         IF r.port \in port_stats \cup {NONE} THEN <<[type |-> "stats_reply", stats |-> "port"]>>
         ELSE <<>>
    [] r.stats = "queue" ->
         IF r.all THEN <<[type |-> "stats_reply", stats |-> "queue"]>> ELSE <<error("bad_queue")>>
    [] OTHER -> <<error("bad_stat")>>

(* The switch says hello once on a connection.                             *)
send_hello == IF conn.hello THEN <<>> ELSE <<[type |-> "hello"]>>

reply(r) ==
  CASE r.type = "hello" -> send_hello
    [] r.type = "echo_request" -> <<[type |-> "echo_reply"]>>
    [] r.type = "features_request" ->
         <<[type |-> "features_reply", ports |-> [n \in DOMAIN ports |-> ports[n].link_down]]>>
    [] r.type = "barrier_request" -> <<[type |-> "barrier_reply"]>>
    [] r.type = "get_config_request" -> <<[type |-> "get_config_reply", frag_drop |-> frag_drop]>>
    [] r.type = "stats_request" -> stats_reply(r)
    [] r.type = "vendor" -> <<error("bad_vendor")>>
    [] r.type = "queue_get_config_request" -> <<[type |-> "queue_get_config_reply"]>>
    [] r.type \in {"echo_reply", "set_config"} -> <<>>

-----------------------------------------------------------------------------
Init ==
  /\ peers \in Peers
  /\ ports = [n \in FirstPorts |-> [config |-> {"NO_STP"}, link_down |-> FALSE]]
  /\ port_stats = FirstPorts
  /\ table = <<>> /\ buffer = <<>> /\ frag_drop = FALSE
  /\ conn = [up |-> FALSE, hello |-> FALSE, starting |-> TRUE]
  /\ timer = Period /\ out = <<>>
  /\ announced = [i \in 1..MaxBuffers |-> Free]
  /\ view = NoView

(* What the packet-ins of a handler say about the buffers; a slot filled   *)
(* while nobody is connected is never announced.                           *)
Announce(w) ==
  [i \in 1..MaxBuffers |->
     LET told == {k \in DOMAIN w.out : w.out[k].type = "packet_in" /\ w.out[k].buffer_id = i}
         last == w.out[Max(told)]
     IN IF i \notin DOMAIN w.buffer THEN Free
        ELSE IF w.buffer[i] = Free THEN Free
        ELSE IF told # {} THEN [packet |-> last.packet, in_port |-> last.in_port]
        ELSE IF i \notin DOMAIN buffer THEN Free
        ELSE IF buffer[i] = Free THEN Free
        ELSE announced[i]]

Touch(t, touched) ==
  [i \in DOMAIN t |-> IF i \in touched THEN [t[i] EXCEPT !.untouched = 0] ELSE t[i]]

Finish(w) == buffer' = w.buffer /\ out' = w.out /\ announced' = Announce(w)
Received == conn.up /\ conn' = [conn EXCEPT !.starting = FALSE]

(* A frame arrives at a port.                                              *)
RxPacket(p, in_port) ==
  LET w == rx_packet(Running, arrived(p), in_port)
  IN /\ Finish(w) /\ table' = Touch(table, w.touched)
     /\ UNCHANGED <<ports, port_stats, frag_drop, conn, timer, view>>

(* _rx_flow_mod: whatever became of the entry, the actions are applied to  *)
(* the buffered packet.  An unknown command raises NameError.              *)
RxFlowMod(fm) ==
  /\ Received
  /\ LET r == IF fm.command = "UNKNOWN" THEN [table |-> table, w |-> Running]
              ELSE flow_mod(table, Running, fm)
         w == IF fm.command = "UNKNOWN" \/ fm.buffer_id = NONE THEN r.w
              ELSE from_buffer(r.w, fm.actions, fm.buffer_id)
     IN Finish(w) /\ table' = r.table
  /\ UNCHANGED <<ports, port_stats, frag_drop, timer, view>>

(* _rx_packet_out                                                          *)
RxPacketOut(po) ==
  /\ Received
  /\ LET w == IF po.data # NoPacket
              THEN process_sent_actions(Running, po.actions, arrived(po.data), po.in_port)
              ELSE from_buffer(Running, po.actions, po.buffer_id)
     IN Finish(w) /\ table' = Touch(table, w.touched)
  /\ UNCHANGED <<ports, port_stats, frag_drop, timer, view>>

(* A message that asks for an answer, or for none.                         *)
RxRequest(r) ==
  /\ conn.up
  /\ out' = reply(r)
  /\ conn' = [conn EXCEPT !.starting = FALSE, !.hello = @ \/ r.type = "hello"]
  /\ frag_drop' = IF r.type = "set_config" THEN r.frag_drop ELSE frag_drop
  /\ view' = IF r.type = "features_request" THEN out'[1].ports ELSE view
  /\ UNCHANGED <<ports, port_stats, table, buffer, timer, announced>>

(* send_port_status, and what the controller makes of it.                  *)
port_status(n, reason, link_down) ==
  IF conn.up THEN <<[type |-> "port_status", port |-> n, reason |-> reason, link_down |-> link_down]>>
  ELSE <<>>
Told(n, is) ==
  IF view = NoView \/ ~conn.up THEN view
  ELSE IF is = "deleted" THEN [m \in DOMAIN view \ {n} |-> view[m]]
  ELSE [m \in DOMAIN view \cup {n} |-> IF m = n THEN is = "down" ELSE view[m]]

(* Fault: the link state follows the flag, and nobody is told.             *)
set_port_down_quietly(n, on) ==
  /\ ports' = [ports EXCEPT ![n].config = IF on THEN @ \cup {"PORT_DOWN"} ELSE @ \ {"PORT_DOWN"},
                            ![n].link_down = on]
  /\ out' = <<>> /\ view' = view

(* _set_port_config_bit of OFPPC_PORT_DOWN                                 *)
set_port_down(n, on) ==
  LET changed == on # ("PORT_DOWN" \in ports[n].config)
      moved == changed /\ on # ports[n].link_down
  IN /\ ports' = [ports EXCEPT ![n].config = IF on THEN @ \cup {"PORT_DOWN"} ELSE @ \ {"PORT_DOWN"},
                               ![n].link_down = IF changed THEN on ELSE @]
     /\ out' = IF moved THEN port_status(n, "modify", on) ELSE <<>>
     /\ view' = IF moved THEN Told(n, IF on THEN "down" ELSE "up") ELSE view

(* Any other bit; OFPPC_NO_STP stays as it is.                             *)
set_port_flag(n, flag, on) ==
  /\ ports' = IF flag = "NO_STP" THEN ports
              ELSE [ports EXCEPT ![n].config = IF on THEN @ \cup {flag} ELSE @ \ {flag}]
  /\ out' = <<>> /\ view' = view

(* _rx_port_mod, for one bit of the mask                                   *)
RxPortMod(pm) ==
  /\ Received
  /\ IF pm.port_no \notin DOMAIN ports \/ ~pm.hw_addr
     THEN out' = <<error("port_mod_failed")>> /\ UNCHANGED <<ports, view>>
     ELSE IF pm.flag = "PORT_DOWN" THEN set_port_down(pm.port_no, pm.on)
     ELSE set_port_flag(pm.port_no, pm.flag, pm.on)
  /\ UNCHANGED <<port_stats, table, buffer, frag_drop, timer, announced>>

AddPort(n) ==
  /\ n \notin DOMAIN ports
  /\ ports' = [m \in DOMAIN ports \cup {n} |->
                IF m = n THEN [config |-> {"NO_STP"}, link_down |-> FALSE] ELSE ports[m]]
  /\ port_stats' = port_stats \cup {n}
  /\ out' = port_status(n, "add", FALSE) /\ view' = Told(n, "up")
  /\ UNCHANGED <<table, buffer, frag_drop, conn, timer, announced>>

DeletePort(n) ==
  /\ n \in DOMAIN ports
  /\ ports' = [m \in DOMAIN ports \ {n} |-> ports[m]]
  /\ out' = port_status(n, "delete", ports[n].link_down) /\ view' = Told(n, "deleted")
  /\ UNCHANGED <<port_stats, table, buffer, frag_drop, conn, timer, announced>>

(* A second passes; the expiry timer is served when it is due.             *)
Tick ==
  /\ timer > 0 /\ timer' = timer - 1
  /\ table' = [i \in DOMAIN table |->
       [table[i] EXCEPT !.age = IF table[i].hard > 0 THEN @ + 1 ELSE @,
                        !.untouched = IF table[i].idle > 0 THEN @ + 1 ELSE @]]
  /\ out' = <<>>
  /\ UNCHANGED <<ports, port_stats, buffer, frag_drop, conn, announced, view>>

(* Fault: only what is idle as well has a hard timeout.                    *)
hard_of_idle(e) == is_idle_timed_out(e) /\ is_hard_timed_out(e)

(* The second branch of remove_expired_entries.                            *)
hard_expired(e) == ~is_idle_timed_out(e) /\ is_hard_timed_out(e)

(* remove_expired_entries: idle entries first.                             *)
RemoveExpired ==
  LET idle == {i \in DOMAIN table : is_idle_timed_out(table[i])}
      hard == {i \in DOMAIN table : hard_expired(table[i])}
  IN /\ timer = 0 /\ timer' = Period
     /\ table' = keep(table, idle \cup hard)
     /\ out' = SendAll(Running, flow_removed(table, idle, "idle")
                               \o flow_removed(table, hard, "hard")).out
     /\ UNCHANGED <<ports, port_stats, buffer, frag_drop, conn, announced, view>>

-----------------------------------------------------------------------------
(* OFConnection                                                            *)

(* set_connection by the code that reconnects.                             *)
SetConnection ==
  /\ ~conn.up
  /\ conn' = [up |-> TRUE, hello |-> FALSE, starting |-> TRUE]
  /\ view' = NoView /\ out' = <<>>
  /\ UNCHANGED <<ports, port_stats, table, buffer, frag_drop, timer, announced>>

(* read and _error_handler, ERR_BAD_VERSION                                *)
RxBadVersion ==
  /\ conn.up
  /\ out' = IF conn.starting THEN <<error("hello_failed")>> ELSE <<>>
  /\ conn' = [conn EXCEPT !.up = FALSE]
  /\ UNCHANGED <<ports, port_stats, table, buffer, frag_drop, timer, announced, view>>

(* ERR_NO_UNPACKER and ERR_BAD_LENGTH: the message is skipped.             *)
RxUnreadable ==
  /\ conn.up
  /\ \E why \in {"bad_type", "bad_len"} : out' = <<error(why)>>
  /\ UNCHANGED <<ports, port_stats, table, buffer, frag_drop, conn, timer, announced, view>>

(* The other side closes.                                                  *)
Close ==
  /\ conn.up /\ conn' = [conn EXCEPT !.up = FALSE] /\ out' = <<>>
  /\ UNCHANGED <<ports, port_stats, table, buffer, frag_drop, timer, announced, view>>

Step ==
  \/ \E p \in peers.packets, n \in PortNos : RxPacket(p, n)
  \/ \E fm \in peers.flow_mods : RxFlowMod(fm)
  \/ \E po \in peers.packet_outs : RxPacketOut(po)
  \/ \E r \in peers.requests : RxRequest(r)
  \/ \E pm \in peers.port_mods : RxPortMod(pm)
  \/ \E n \in peers.changing : AddPort(n) \/ DeletePort(n)
  \/ Tick \/ RemoveExpired
  \/ SetConnection \/ RxBadVersion \/ RxUnreadable \/ Close

Next == Step /\ UNCHANGED peers

Spec == Init /\ [][Next]_vars

-----------------------------------------------------------------------------
(* Tables and buffers stay within their limits, and ports have numbers.    *)
TypeOK ==
  /\ DOMAIN ports \subseteq PortNos
  /\ Len(table) <= MaxEntries /\ Len(buffer) <= MaxBuffers
  /\ \A i \in DOMAIN buffer : buffer[i] = Free \/ buffer[i].in_port \in PortNos \cup {NONE}
  /\ DOMAIN ports \subseteq port_stats
  /\ timer \in 0..Period /\ frag_drop \in BOOLEAN
  /\ conn \in [up : BOOLEAN, hello : BOOLEAN, starting : BOOLEAN]

(* Whatever was added, modified, deleted or has expired, a frame is handled*)
(* by an entry of the highest effective priority among those that match it *)
(* (entry_for_packet takes the first one; add_entry keeps the table in     *)
(* order).                                                                 *)
BestEntryWins ==
  \A p \in peers.packets, n \in DOMAIN ports :
    LET i == entry_for_packet(p, n)
    IN \A j \in DOMAIN table :
         matches_with_wildcards(table[j].match, from_packet(p, n), FALSE)
           => i # 0 /\ effective_priority(table[j]) <= effective_priority(table[i])

(* The table never holds two entries with the same match and priority, so  *)
(* DELETE_STRICT and MODIFY_STRICT speak of one entry: ADD replaces, and   *)
(* MODIFY only adds what is not there.                                     *)
NoDuplicates ==
  \A i, j \in DOMAIN table :
    table[i].match = table[j].match /\ table[i].priority = table[j].priority => i = j

(* A match arrives as fix() would leave it at the sender: the wildcards    *)
(* cleared for the wire are set again, so no entry is kept from matching   *)
(* by a field that has no meaning.                                         *)
FixedOnArrival ==
  \A i \in DOMAIN table : \E fm \in peers.flow_mods : table[i].match = fix(fm.match)

(* A buffer number means one frame: a slot holds the very frame, from the  *)
(* port, that the last packet-in with its number announced, until it is    *)
(* released, and never another one that arrived since.  What the set       *)
(* actions have written to the frame meanwhile is another matter:          *)
(* BufferUnchanged.                                                        *)
BufferHonest ==
  \A i \in DOMAIN buffer :
    buffer[i] # Free /\ announced[i] # Free =>
      /\ announced[i].in_port = buffer[i].in_port
      /\ announced[i].packet["id"] = buffer[i].packet["id"]

(* An entry outlives its timeouts by at most one period of the timer.      *)
ExpiresInTime ==
  \A i \in DOMAIN table :
    /\ table[i].hard > 0 => table[i].age <= table[i].hard + Period
    /\ table[i].idle > 0 => table[i].untouched <= table[i].idle + Period

(* The controller of this connection knows which ports exist and which of  *)
(* their links are down, from the features reply and the port status       *)
(* messages since.                                                         *)
ControllerKnowsPorts ==
  conn.up /\ view # NoView => view = [n \in DOMAIN ports |-> ports[n].link_down]

(* An entry that asked for it leaves with exactly one flow-removed message *)
(* while a controller is connected, unless an ADD replaces it.             *)
RemovalReported ==
  [][conn.up /\ conn'.up =>
       \A i \in DOMAIN table :
         LET e == table[i]
             left == ~\E j \in DOMAIN table' :
                        table'[j].match = e.match /\ table'[j].priority = e.priority
             told == {k \in DOMAIN out' : /\ out'[k].type = "flow_removed"
                                          /\ out'[k].match = e.match
                                          /\ out'[k].priority = e.priority}
         IN e.rem => Cardinality(told) = IF left THEN 1 ELSE 0]_vars

(* The flow table: which entry handles a frame, that entries are unique,   *)
(* can match at all, and go in time.                                       *)
TableSound == TypeOK /\ BestEntryWins /\ NoDuplicates /\ FixedOnArrival /\ ExpiresInTime

(* What the controller was told of ports and of which frame a buffer holds *)
(* is so.                                                                  *)
ControllerToldTrue == BufferHonest /\ ControllerKnowsPorts

-----------------------------------------------------------------------------
(* _buffer_packet: "Buffer packet and return buffer ID".  The packet under *)
(* the number would be the packet that was buffered, but it is the object  *)
(* and later set actions write to it.  Does not hold.                      *)
BufferUnchanged ==
  \A i \in DOMAIN buffer :
    buffer[i] # Free /\ announced[i] # Free => buffer[i].packet = announced[i].packet

(* _process_actions_for_packet_from_buffer: "output and release a packet   *)
(* from the buffer".  An action that raises leaves the slot in use.  Does  *)
(* not hold.                                                               *)
BufferReleased ==
  [][\A po \in peers.packet_outs :
       RxPacketOut(po) /\ po.data = NoPacket /\ po.buffer_id \in DOMAIN buffer
         => buffer'[po.buffer_id] = Free]_vars
=============================================================================
