------------------------------- MODULE Codec -------------------------------
(***************************************************************************)
(* OpenFlow messages on a TCP stream: pack(), the reading loops of the     *)
(* controller (of_01.Connection.read) and of the software switch           *)
(* (switch.OFConnection.read), and unpack().                               *)
(*                                                                         *)
(* An object is [cls, version, fields, parts, rest, stype]: the attributes *)
(* as byte symbols, the objects of its list, its trailing bytes, and the   *)
(* statistics type.  A stream may be cut anywhere in Cuts.                 *)
(***************************************************************************)
EXTENDS Nicira

CONSTANTS
  Messages,   \* objects that may be sent
  Second,     \* those that may follow another one
  Cuts        \* bound: where the stream may be cut, counted from its start
              \* when positive and from the end of the first message else

VARIABLES
  sent,       \* objects packed, in order
  wire,       \* bytes under way
  buf,        \* bytes the reader has
  got,        \* objects the reader has unpacked, in order
  con         \* "open", or "dropped" by the reader

stream_vars == <<sent, wire, buf, got, con>>

-----------------------------------------------------------------------------
(* The classes by name; the registries _message_type_to_class,             *)
(* _action_type_to_class, _queue_prop_type_to_class and                    *)
(* _stats_type_to_class_info that the decorators fill.                     *)
Classes == [ofp_hello |-> ofp_hello, ofp_error |-> ofp_error,
      ofp_echo_request |-> ofp_echo_request, ofp_echo_reply |-> ofp_echo_reply,
      ofp_vendor_generic |-> ofp_vendor_generic,
      ofp_features_request |-> ofp_features_request,
      ofp_features_reply |-> ofp_features_reply,
      ofp_get_config_request |-> ofp_get_config_request,
      ofp_get_config_reply |-> ofp_get_config_reply,
      ofp_set_config |-> ofp_set_config, ofp_packet_in |-> ofp_packet_in,
      ofp_flow_removed |-> ofp_flow_removed, ofp_port_status |-> ofp_port_status,
      ofp_packet_out |-> ofp_packet_out, ofp_flow_mod |-> ofp_flow_mod,
      ofp_port_mod |-> ofp_port_mod, ofp_stats_request |-> ofp_stats_request,
      ofp_stats_reply |-> ofp_stats_reply,
      ofp_barrier_request |-> ofp_barrier_request,
      ofp_barrier_reply |-> ofp_barrier_reply,
      ofp_queue_get_config_request |-> ofp_queue_get_config_request,
      ofp_queue_get_config_reply |-> ofp_queue_get_config_reply,
      nx_role_request |-> nx_role_request, nx_role_reply |-> nx_role_reply,
      nx_flow_mod_table_id |-> nx_flow_mod_table_id,
      nx_packet_in_format |-> nx_packet_in_format,
      nx_async_config |-> nx_async_config, nx_flow_mod |-> nx_flow_mod,
      nxt_packet_in |-> nxt_packet_in, nx_action_learn |-> nx_action_learn,
      ofp_action_generic |-> ofp_action_generic,
      ofp_action_output |-> ofp_action_output,
      ofp_action_enqueue |-> ofp_action_enqueue,
      ofp_action_strip_vlan |-> ofp_action_strip_vlan,
      ofp_action_vlan_vid |-> ofp_action_vlan_vid,
      ofp_action_vlan_pcp |-> ofp_action_vlan_pcp,
      ofp_action_dl_addr |-> ofp_action_dl_addr,
      ofp_action_nw_addr |-> ofp_action_nw_addr,
      ofp_action_nw_tos |-> ofp_action_nw_tos,
      ofp_action_tp_port |-> ofp_action_tp_port,
      ofp_action_vendor_generic |-> ofp_action_vendor_generic,
      nx_action_resubmit |-> nx_action_resubmit,
      nx_action_set_tunnel |-> nx_action_set_tunnel,
      nx_reg_move |-> nx_reg_move, nx_reg_load |-> nx_reg_load,
      nx_action_set_tunnel64 |-> nx_action_set_tunnel64,
      nx_output_reg |-> nx_output_reg, nx_action_exit |-> nx_action_exit,
      nx_action_dec_ttl |-> nx_action_dec_ttl,
      nx_action_fin_timeout |-> nx_action_fin_timeout,
      nx_action_controller |-> nx_action_controller,
      nx_action_push_mpls |-> nx_action_push_mpls,
      nx_action_pop_mpls |-> nx_action_pop_mpls,
      ofp_packet_queue |-> ofp_packet_queue,
      ofp_queue_prop_none |-> ofp_queue_prop_none,
      ofp_queue_prop_min_rate |-> ofp_queue_prop_min_rate,
      ofp_phy_port |-> ofp_phy_port,
      empty_stats_request_body |-> empty_stats_request_body,
      ofp_desc_stats |-> ofp_desc_stats,
      ofp_flow_stats_request |-> ofp_flow_stats_request,
      ofp_flow_stats |-> ofp_flow_stats,
      ofp_aggregate_stats_request |-> ofp_aggregate_stats_request,
      ofp_aggregate_stats |-> ofp_aggregate_stats,
      ofp_table_stats |-> ofp_table_stats,
      ofp_port_stats_request |-> ofp_port_stats_request,
      ofp_port_stats |-> ofp_port_stats,
      ofp_queue_stats_request |-> ofp_queue_stats_request,
      ofp_queue_stats |-> ofp_queue_stats,
      ofp_vendor_stats_generic |-> ofp_vendor_stats_generic]

message_classes ==
  {"ofp_hello", "ofp_error", "ofp_echo_request", "ofp_echo_reply",
   "ofp_vendor_generic", "ofp_features_request", "ofp_features_reply",
   "ofp_get_config_request", "ofp_get_config_reply", "ofp_set_config",
   "ofp_packet_in", "ofp_flow_removed", "ofp_port_status", "ofp_packet_out",
   "ofp_flow_mod", "ofp_port_mod", "ofp_stats_request", "ofp_stats_reply",
   "ofp_barrier_request", "ofp_barrier_reply", "ofp_queue_get_config_request",
   "ofp_queue_get_config_reply"}
action_classes ==
  {"ofp_action_output", "ofp_action_enqueue", "ofp_action_strip_vlan",
   "ofp_action_vlan_vid", "ofp_action_vlan_pcp", "ofp_action_dl_addr",
   "ofp_action_nw_addr", "ofp_action_nw_tos", "ofp_action_tp_port",
   "ofp_action_vendor_generic"}
nx_action_classes ==
  {"nx_action_resubmit", "nx_action_set_tunnel", "nx_reg_move", "nx_reg_load",
   "nx_action_set_tunnel64", "nx_output_reg", "nx_action_exit",
   "nx_action_dec_ttl", "nx_action_fin_timeout", "nx_action_controller",
   "nx_action_push_mpls", "nx_action_pop_mpls", "nx_action_learn"}
queue_prop_classes == {"ofp_queue_prop_none", "ofp_queue_prop_min_rate"}

(* _StatsClassInfo by statistics type; a reply that is_list holds any      *)
(* number of bodies.                                                       *)
stats_info ==
  (0 :> [request |-> "empty_stats_request_body", reply |-> "ofp_desc_stats", is_list |-> FALSE])
  @@ (1 :> [request |-> "ofp_flow_stats_request", reply |-> "ofp_flow_stats", is_list |-> TRUE])
  @@ (2 :> [request |-> "ofp_aggregate_stats_request", reply |-> "ofp_aggregate_stats", is_list |-> FALSE])
  @@ (3 :> [request |-> "empty_stats_request_body", reply |-> "ofp_table_stats", is_list |-> TRUE])
  @@ (4 :> [request |-> "ofp_port_stats_request", reply |-> "ofp_port_stats", is_list |-> TRUE])
  @@ (5 :> [request |-> "ofp_queue_stats_request", reply |-> "ofp_queue_stats", is_list |-> TRUE])
  @@ (65535 :> [request |-> "ofp_vendor_stats_generic", reply |-> "ofp_vendor_stats_generic", is_list |-> FALSE])

(* make_type_to_unpacker_table: range(0, top) leaves out the highest type. *)
unpackers == 0..20

-----------------------------------------------------------------------------
(* pack() and __len__                                                      *)

OFP_VERSION == 1
New(cls, id, parts, rest, stype) ==
  LET attrs == Attributes(Classes[cls].pack)
  IN [cls |-> cls, version |-> OFP_VERSION, parts |-> parts, stype |-> stype,
      fields |-> [a \in {x[1] : x \in attrs} |->
                    Sym(a, id, (CHOOSE x \in attrs : x[1] = a)[2])],
      rest |-> Sym("rest", id, rest)]

Has(layout, kind) == \E it \in ToSet(layout) : it[1] = kind
align(n) == (8 - (n % 8)) % 8

(* The bytes of an object with the given layout: its items, "parts" bytes  *)
(* of its list, padded if the layout says so, and its trailing bytes.      *)
Fixed(layout) ==
  Sum([i \in DOMAIN layout |->
         IF layout[i][1] \in {"list", "rest", "align"} THEN 0 ELSE layout[i][3]])
Around(layout, fixed, parts, o) ==
  fixed + parts + Len(o.rest) + (IF Has(layout, "align") THEN align(parts) ELSE 0)

(* Bytes that pack() produces.                                             *)
RECURSIVE PackedWidth(_)
PackedWidth(o) ==
  LET whole(layout) ==
        Around(layout, Fixed(layout), Sum([i \in DOMAIN o.parts |-> PackedWidth(o.parts[i])]), o)
  IN IF o.cls = "nxm_entry" THEN Len(nxm_pack(o))
     ELSE IF o.cls = "flow_mod_spec" THEN Len(spec_pack(o))
     ELSE whole(Classes[o.cls].pack)

(* Fault: __len__ leaves out the trailing bytes.                           *)
length_without_rest(o) == PackedWidth(o) - Len(o.rest)

(* __len__                                                                 *)
RECURSIVE Length(_)
Length(o) ==
  LET said(c) ==
        IF o.cls \in {"nxm_entry", "flow_mod_spec"} \/ c.len = Packed THEN PackedWidth(o)
        ELSE Around(c.pack, c.len, Sum([i \in DOMAIN o.parts |-> Length(o.parts[i])]), o)
  IN said(Classes[o.cls])

(* An object whose __len__ raises is sent by other implementations only.   *)
PackedLength(o) ==
  LET known(n) == IF n < 0 THEN PackedWidth(o) ELSE n
  IN known(Length(o))

RECURSIVE Pack(_)
Pack(o) ==
  IF o.cls = "nxm_entry" THEN nxm_pack(o)
  ELSE IF o.cls = "flow_mod_spec" THEN spec_pack(o)
  ELSE
  LET parts == FlattenSeq([i \in DOMAIN o.parts |-> Pack(o.parts[i])])
      item(c, it) ==
        CASE it[1] = "field" -> o.fields[it[2]]
          [] it[1] = "pad" -> Zero(it[3])
          [] it[1] = "len" -> Bytes(PackedLength(o), it[3])
          [] it[1] = "type" -> Bytes(c.type, it[3])
          [] it[1] = "version" -> Bytes(o.version, 1)
          [] it[1] = "vendor" -> Bytes(NX_VENDOR_ID, it[3])
          [] it[1] = "subtype" -> Bytes(c.subtype, it[3])
          [] it[1] = "stype" -> Bytes(o.stype, it[3])
          [] it[1] = "plen" -> Bytes(Len(parts), it[3])
          [] it[1] = "list" -> parts
          [] it[1] = "align" -> Zero(align(Len(parts)))
          [] it[1] = "rest" -> o.rest
      all(c) == FlattenSeq([i \in DOMAIN c.pack |-> item(c, c.pack[i])])
  IN all(Classes[o.cls])

-----------------------------------------------------------------------------
(* unpack()                                                                *)

Failed == [ok |-> FALSE]

(* The class of a type, of the given classes, or "other".                  *)
of_type(classes, other, t) ==
  LET one(known) == IF known = {} THEN other ELSE CHOOSE c \in known : TRUE
  IN one({c \in classes : Classes[c].type = t})

(* The class of the object that starts at the front of bytes b, in a list  *)
(* of an object of class cls, and how many of the bytes it is given.       *)
part_class(cls, stype, b) ==
  CASE cls \in {"ofp_flow_mod", "ofp_packet_out", "ofp_flow_stats"} ->
         [cls |-> of_type(action_classes, "ofp_action_generic", Value(SubSeq(b, 1, 2))),
          len |-> Value(SubSeq(b, 3, 4))]
    [] cls = "ofp_packet_queue" ->
         [cls |-> of_type(queue_prop_classes, "none", Value(SubSeq(b, 1, 2))),
          len |-> Value(SubSeq(b, 3, 4))]
    [] cls \in {"nx_flow_mod", "nxt_packet_in"} -> [cls |-> "nxm_entry", len |-> Len(b)]
    [] cls = "nx_action_learn" -> [cls |-> "flow_mod_spec", len |-> Len(b)]
    [] cls = "ofp_features_reply" -> [cls |-> "ofp_phy_port", len |-> Len(b)]
    [] cls = "ofp_queue_get_config_reply" -> [cls |-> "ofp_packet_queue", len |-> Len(b)]
    [] cls = "ofp_stats_request" -> [cls |-> stats_info[stype].request, len |-> Len(b)]
    [] cls = "ofp_stats_reply" -> [cls |-> stats_info[stype].reply, len |-> Len(b)]

RECURSIVE Unpack(_, _), UnpackParts(_, _, _)

(* A list until its bytes are used up: _unpack_actions,                    *)
(* _unpack_queue_props, nx_match.unpack and the loops of the replies.  The *)
(* specs of a learn action also end at a zero word.  An empty request body *)
(* has no bytes.                                                           *)
UnpackParts(cls, stype, b) ==
  IF b = <<>> \/ (cls = "nx_action_learn" /\ SubSeq(b, 1, 2) = Zero(2))
  THEN [ok |-> TRUE, parts |-> <<>>, used |-> 0]
  ELSE LET first(p) == IF p.len > Len(b) THEN Failed ELSE Unpack(p.cls, SubSeq(b, 1, p.len))
           others(u) == IF u.ok THEN UnpackParts(cls, stype, SubSeq(b, u.off + 1, Len(b)))
                        ELSE Failed
           both(u, more) ==
             IF more.ok
             THEN [ok |-> TRUE, parts |-> <<u.obj>> \o more.parts, used |-> u.off + more.used]
             ELSE Failed
           all(u) == both(u, others(u))
       IN all(first(part_class(cls, stype, b)))

(* The items in turn.  _unpack, _read and _skip raise UnderrunError beyond *)
(* the end; a length that differs from len(self) or from what was read     *)
(* fails an assertion.                                                     *)
Unpack(cls, b) ==
  IF cls = "nxm_entry" THEN nxm_unpack(b)
  ELSE IF cls = "flow_mod_spec" THEN spec_unpack(b)
  ELSE
  LET listed(acc, u) ==
        IF u.ok THEN [acc EXCEPT !.parts = u.parts, !.used = u.used, !.off = @ + u.used]
        ELSE [acc EXCEPT !.ok = FALSE]
      read(acc, it) ==
        LET n == CASE it[1] = "list" -> IF it[3] < 0 THEN acc.plen ELSE acc.len - it[3]
                   [] it[1] = "rest" -> IF it[3] < 0 THEN acc.len - acc.off ELSE acc.len - it[3]
                   [] it[1] = "align" -> align(acc.used)
                   [] OTHER -> it[3]
            x == SubSeq(b, acc.off + 1, acc.off + n)
            next == [acc EXCEPT !.off = @ + n]
        IN IF ~acc.ok \/ n < 0 \/ acc.off + n > Len(b) THEN [acc EXCEPT !.ok = FALSE]
           ELSE CASE it[1] = "field" -> [next EXCEPT !.fields = (it[2] :> x) @@ @]
                  [] it[1] = "version" -> [next EXCEPT !.version = Value(x)]
                  [] it[1] = "len" -> [next EXCEPT !.len = Value(x)]
                  [] it[1] = "plen" -> [next EXCEPT !.plen = Value(x)]
                  [] it[1] = "stype" -> [next EXCEPT !.stype = Value(x)]
                  [] it[1] = "rest" -> [next EXCEPT !.rest = x]
                  [] it[1] = "list" -> listed(acc, UnpackParts(cls, acc.stype, x))
                  [] OTHER -> next
      start == [ok |-> TRUE, off |-> 0, len |-> Len(b), plen |-> 0, used |-> 0,
                stype |-> 0, version |-> OFP_VERSION, fields |-> <<>>, parts |-> <<>>, rest |-> <<>>]
      object(r) == [cls |-> cls, version |-> r.version, parts |-> r.parts, stype |-> r.stype,
                    fields |-> [a \in DOMAIN r.fields |-> r.fields[a]], rest |-> r.rest]
      asserted(layout, r) ==
        IF r.ok /\ Length(object(r)) = r.off /\ (Has(layout, "len") => r.len = r.off)
        THEN [ok |-> TRUE, off |-> r.off, obj |-> object(r)] ELSE Failed
      all(layout) == asserted(layout, FoldLeft(read, start, layout))
  IN all(Classes[cls].unpack)

(* The message class for a type byte; nicira.py, when launched, takes two  *)
(* of the vendor messages.                                                 *)
unpack_nx_vendor(b) ==
  LET subtype == Value(SubSeq(b, 13, 16))
  IN IF Len(b) < 16 \/ Value(SubSeq(b, 9, 12)) # NX_VENDOR_ID THEN "ofp_vendor_generic"
     ELSE IF subtype = nxt_packet_in.subtype THEN "nxt_packet_in"
     ELSE IF subtype = nx_role_reply.subtype THEN "nx_role_reply"
     ELSE "ofp_vendor_generic"

message_class(b) ==
  IF b[2][3] = 4 THEN unpack_nx_vendor(b)
  ELSE of_type(message_classes, "none", b[2][3])

-----------------------------------------------------------------------------
StreamInit == sent = <<>> /\ wire = <<>> /\ buf = <<>> /\ got = <<>> /\ con = "open"

(* flow_mod with data: ofp_flow_mod.pack appends a barrier request and a   *)
(* packet_out to what it packs, so one send() carries three messages.      *)
SendFlowModWithData(o, barrier, po) ==
  /\ sent = <<>>
  /\ sent' = <<o, barrier, po>>
  /\ wire' = FlattenSeq([i \in 1..3 |-> Pack(sent'[i])])
  /\ UNCHANGED <<buf, got, con>>

Send(o) ==
  /\ got = <<>> /\ buf = <<>>
  /\ sent = <<>> \/ (Len(sent) = 1 /\ o \in Second)
  /\ sent' = Append(sent, o)
  /\ wire' = wire \o Pack(o)
  /\ UNCHANGED <<buf, got, con>>

(* Fault: a message is handed on only when bytes follow it.                *)
read_step_late(s, min) ==
  LET n == Value(SubSeq(s.buf, 3, 4))
  IN IF s.con # "open" \/ Len(s.buf) < min THEN s
     ELSE IF Len(s.buf) <= n THEN s
     ELSE LET u == Unpack(message_class(s.buf), SubSeq(s.buf, 1, n))
          IN IF ~u.ok THEN [s EXCEPT !.con = "dropped"]
             ELSE [s EXCEPT !.buf = SubSeq(@, n + 1, Len(@)), !.got = Append(@, u.obj)]

(* Fault: a message stays in the buffer when it has been handed on.        *)
read_step_keep(s, min) ==
  LET n == Value(SubSeq(s.buf, 3, 4))
  IN IF s.con # "open" \/ Len(s.buf) < min THEN s
     ELSE IF Len(s.buf) < n THEN s
     ELSE LET u == Unpack(message_class(s.buf), SubSeq(s.buf, 1, n))
          IN IF ~u.ok THEN [s EXCEPT !.con = "dropped"]
             ELSE [s EXCEPT !.got = Append(@, u.obj)]

(* Both loops: while a whole message is in the buffer, unpack it.  The     *)
(* controller wants eight bytes before it looks at the length, the switch  *)
(* four.  A type without unpacker, a failed assertion or an UnderrunError  *)
(* ends the connection, and so does another version, which the controller  *)
(* lets pass in a HELLO.                                                   *)
read_step(s, min) ==
  LET n == Value(SubSeq(s.buf, 3, 4))
      bad_version == /\ Value(SubSeq(s.buf, 1, 1)) # OFP_VERSION
                     /\ min = 4 \/ s.buf[2][3] # ofp_hello.type
      handed_on(u) ==
        IF u.ok /\ u.off = n
        THEN [s EXCEPT !.buf = SubSeq(@, n + 1, Len(@)), !.got = Append(@, u.obj)]
        ELSE [s EXCEPT !.con = "dropped"]
  IN IF s.con # "open" \/ Len(s.buf) < min THEN s
     ELSE IF bad_version THEN [s EXCEPT !.con = "dropped"]
     ELSE IF Len(s.buf) < n THEN s
     ELSE handed_on(IF s.buf[2][3] \in unpackers
                    THEN Unpack(message_class(s.buf), SubSeq(s.buf, 1, n)) ELSE Failed)

(* At most three messages are under way.                                   *)
read(s, min) == FoldLeft(LAMBDA t, i : read_step(t, min), s, <<1, 2, 3>>)

(* recv returns the bytes up to a cut, or all there are.                   *)
cut_points ==
  IF buf # <<>> \/ got # <<>> THEN {}
  ELSE ({c \in Cuts : c > 0} \cup {Len(Pack(sent[1])) + c : c \in Cuts}) \cap 1..Len(wire)

Receive(min) ==
  /\ wire # <<>> /\ con = "open"
  /\ \E k \in cut_points \cup {Len(wire)} :
       \E s \in {read([buf |-> buf \o SubSeq(wire, 1, k), got |-> got, con |-> con], min)} :
         /\ buf' = s.buf /\ got' = s.got /\ con' = s.con
         /\ wire' = SubSeq(wire, k + 1, Len(wire))
  /\ UNCHANGED sent

StreamNext ==
  \/ \E o \in Messages \cup Second : Send(o)
  \/ \E o, po \in Messages, b \in Second :
       /\ o.cls = "ofp_flow_mod" /\ b.cls = "ofp_barrier_request" /\ po.cls = "ofp_packet_out"
       /\ [i \in DOMAIN po.parts |-> po.parts[i].cls] = <<"ofp_action_output">> /\ po.rest # <<>>
       /\ SendFlowModWithData(o, b, po)
  \/ \E min \in {8, 4} : Receive(min)

StreamSpec == StreamInit /\ [][StreamNext]_stream_vars

-----------------------------------------------------------------------------
(* The classes whose __len__ cannot run, and the message type that has no  *)
(* unpacker: no reader can take these.  Nor need it take another version.  *)
Unreadable(o) ==
  \/ o.version # OFP_VERSION
  \/ o.cls = "ofp_queue_get_config_reply"
  \/ \E p \in ToSet(o.parts) : p.cls \in DOMAIN Classes /\ Classes[p.cls].len = Raises

(* What a reader makes of an object: Nicira messages and actions it has   *)
(* no class for come out as the generic vendor classes, with the same      *)
(* bytes; so does a mask of ones come out as no mask.                      *)
Generic(a) ==
  \/ a.cls \in {"nx_role_request", "nx_flow_mod_table_id", "nx_packet_in_format",
                "nx_async_config", "nx_flow_mod", "nxt_packet_in"}
  \/ \E p \in ToSet(a.parts) : \E q \in {p} \cup ToSet(p.parts) : q.cls \in nx_action_classes
Received(a, b) == IF Generic(a) THEN Pack(a) = Pack(b) ELSE a = b

(* Ranges of the reader's variables.                                       *)
StreamTypeOK ==
  /\ con \in {"open", "dropped"} /\ Len(got) <= Len(sent)
  /\ \A i \in DOMAIN got : got[i].cls \in DOMAIN Classes

(* Every message a reader has unpacked is the one that was sent in its     *)
(* place, with every attribute, action, port and statistics body, wherever *)
(* the stream was cut and whatever was sent behind it.                     *)
InOrder == \A i \in DOMAIN got : Received(sent[i], got[i])

(* The length in the header is the number of bytes packed, so the buffer   *)
(* always starts with a message (of_01.py asserts new_offset - offset ==   *)
(* msg_length), and when everything has arrived nothing is left over.      *)
Aligned ==
  con = "open" =>
    buf \o wire = FlattenSeq([i \in 1..(Len(sent) - Len(got)) |-> Pack(sent[Len(got) + i])])

(* A connection is dropped only for the classes no reader can take.        *)
DropsOnlyUnreadable ==
  con = "dropped" => Unreadable(sent[Len(got) + 1])

(* unpack() of a Nicira class reads what its own pack() writes.  The load  *)
(* destination of a learn action is the exception: see Nicira.             *)
LoadSpec(p) == p.cls = "flow_mod_spec" /\ learn_dst(p.stype) = "load"
                 /\ words(learn_bits(p.stype)) # 6
OwnReader ==
  \A i \in DOMAIN sent : \A p \in ToSet(sent[i].parts) :
    (p.cls \in nx_action_classes /\ ~\E q \in ToSet(p.parts) : LoadSpec(q)) =>
      \E u \in {Unpack(p.cls, Pack(p))} : u.ok /\ u.obj = p

(* A whole message in the buffer has been handed on.                       *)
NothingHeld ==
  con = "open" /\ wire = <<>> /\ sent # <<>> => got # <<>> /\ Len(got) = Len(sent) /\ buf = <<>>

(* Whole messages come out as they went in, as soon as they are there.     *)
ReadAsSent == StreamTypeOK /\ InOrder /\ NothingHeld

(* Reader and stream stay in step, and part only over an unreadable class. *)
InStep == Aligned /\ DropsOnlyUnreadable
=============================================================================
