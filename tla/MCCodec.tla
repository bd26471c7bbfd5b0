------------------------------ MODULE MCCodec ------------------------------
(* Every class of libopenflow_01.py and nicira.py, with no, one or two     *)
(* actions, ports, queues, statistics or bytes.                            *)
EXTENDS Codec

(* A message as <<class, id, parts, trailing bytes, statistics type>>; an  *)
(* entry of a match and a spec of a learn action are given as they are.    *)
T(cls, id, parts, rest, stype) == <<cls, id, parts, rest, stype>>
Plain(cls, id) == T(cls, id, <<>>, 0, 0)
RECURSIVE Made(_)
Made(t) ==
  CASE t[1] = "nxm_entry" -> NxmEntry(t[2], t[3], t[4])
    [] t[1] = "flow_mod_spec" -> Spec_(t[2], t[3], t[4], t[5])
    [] OTHER -> New(t[1], t[2], [i \in DOMAIN t[3] |-> Made(t[3][i])], t[4], t[5])

LearnSpec(src, dst, n_bits, id) == <<"flow_mod_spec", src, dst, n_bits, id>>
LearnSpecs ==
  {<<LearnSpec("field", "match", 16, 5)>>, <<LearnSpec("immediate", "match", 32, 5)>>,
   <<LearnSpec("field", "output", 16, 5)>>, <<LearnSpec("field", "load", 48, 5)>>,
   <<LearnSpec("field", "load", 16, 5)>>, <<>>,
   <<LearnSpec("field", "match", 16, 5), LearnSpec("immediate", "load", 48, 6)>>}
Actions(id) ==
  {Plain(c, id) : c \in (action_classes \ {"ofp_action_vendor_generic"})
                         \cup (nx_action_classes \ {"nx_action_learn"})}
  \cup {T(c, id, <<>>, 4, 0) : c \in {"ofp_action_vendor_generic", "ofp_action_generic"}}
  \cup {T("nx_action_learn", id, s, 0, 0) : s \in LearnSpecs}
SomeActions == {<<>>} \cup {<<a>> : a \in Actions(2)}
               \cup {<<a, Plain("ofp_action_output", 3)>> : a \in Actions(2)}

Entry(t, id, mask) == <<"nxm_entry", t, id, mask>>
Matches ==
  {<<>>} \cup {<<Entry(t, 2, <<>>)>> : t \in {0, 5}}
  \cup {<<Entry(7, 2, _pack_mask(7, 20)), Entry(8, 3, _pack_mask(8, 33)), Entry(1, 3, ones(6))>>,
        <<Entry(147, 2, _pack_mask(147, 64)), Entry(144, 3, <<>>)>>}

Ports == {<<>>, <<Plain("ofp_phy_port", 2)>>, <<Plain("ofp_phy_port", 2), Plain("ofp_phy_port", 3)>>}
Queues == {<<T("ofp_packet_queue", 2, <<Plain("ofp_queue_prop_min_rate", 3)>>, 0, 0)>>, <<>>}

Bodies(cls) == {<<>>, <<Plain(cls, 2)>>, <<Plain(cls, 2), Plain(cls, 3)>>}
Requests == {T("ofp_stats_request", 1, <<>>, 0, t) : t \in {0, 3}}
  \cup {T("ofp_stats_request", 1, <<Plain(stats_info[t].request, 2)>>, 0, t) : t \in {1, 2, 4, 5}}
Replies == {T("ofp_stats_reply", 1, <<Plain(stats_info[t].reply, 2)>>, 0, t) : t \in {0, 2}}
  \cup UNION {{T("ofp_stats_reply", 1, b, 0, t) : b \in Bodies(stats_info[t].reply)} : t \in {3, 4, 5}}
  \cup {T("ofp_stats_reply", 1, <<T("ofp_flow_stats", 2, <<a>>, 0, 0), Plain("ofp_flow_stats", 4)>>, 0, 1)
          : a \in Actions(3)}
  \cup {T("ofp_stats_reply", 1, <<T("ofp_vendor_stats_generic", 2, <<>>, 4, 0)>>, 0, 65535)}

WithList == {"ofp_features_reply", "ofp_packet_out", "ofp_flow_mod", "ofp_stats_request",
             "ofp_stats_reply", "ofp_queue_get_config_reply"}
WithBody == {"ofp_error", "ofp_echo_request", "ofp_echo_reply", "ofp_vendor_generic",
             "ofp_packet_in"}
NxMessages == {"nx_role_request", "nx_role_reply", "nx_flow_mod_table_id",
               "nx_packet_in_format", "nx_async_config"}
MCMessages ==
  {Made(t) : t \in
     {T(c, 1, <<>>, n, 0) : c \in WithBody, n \in {0, 3}}
     \cup {Plain(c, 1) : c \in (message_classes \cup NxMessages) \ (WithBody \cup WithList)}
     \cup {T("ofp_packet_out", 1, a, n, 0) : a \in {x \in SomeActions : Len(x) < 2}, n \in {0, 3}}
     \cup {T("ofp_flow_mod", 1, a, 0, 0) : a \in SomeActions}
     \cup {T("nx_flow_mod", 1, m, 0, 0) : m \in Matches}
     \cup {T("nxt_packet_in", 1, m, 3, 0) : m \in Matches}
     \cup {T("ofp_features_reply", 1, p, 0, 0) : p \in Ports}
     \cup {T("ofp_queue_get_config_reply", 1, q, 0, 0) : q \in Queues}
     \cup Requests \cup Replies}
  \cup {[Made(Plain(c, 1)) EXCEPT !.version = 4] : c \in {"ofp_hello", "ofp_barrier_request"}}

MCSecond == {Made(t) : t \in {Plain("ofp_barrier_request", 9), T("ofp_echo_reply", 9, <<>>, 3, 0)}}
(* In the header of either message, and just before and at its end.        *)
MCCuts == {3, 6, -1, 0}
=============================================================================
