---------------------------- MODULE LibOpenFlow ----------------------------
(***************************************************************************)
(* The wire classes of pox/openflow/libopenflow_01.py: one definition per  *)
(* class, with its type number, what pack() writes, what unpack() reads,   *)
(* and the constant part of __len__ (parts and trailing bytes are added to *)
(* it).  show(), __eq__ and the checks of _validate on the types of Python *)
(* values are left out.                                                    *)
(***************************************************************************)
EXTENDS Struct

(* A class whose unpack() reads the formats its pack() writes, and one     *)
(* whose unpack() differs.                                                 *)
Same(type, layout, len) == [type |-> type, pack |-> layout, unpack |-> layout, len |-> len]
Differ(type, pack, unpack, len) == [type |-> type, pack |-> pack, unpack |-> unpack, len |-> len]

(* struct.pack("!BBHL", version, header_type, len(self), xid)              *)
ofp_header == <<Num("version", 1), Num("type", 1), Num("len", 2), L("xid")>>
(* An action or a queue property starts with type and length.              *)
tl == <<Num("type", 2), Num("len", 2)>>

ofp_match_layout ==
  <<L("wildcards"), H("in_port"), Raw("dl_src", 6), Raw("dl_dst", 6),
    H("dl_vlan"), B("dl_vlan_pcp"), Pad(1), H("dl_type"), B("nw_tos"),
    B("nw_proto"), Pad(2), L("nw_src"), L("nw_dst"), H("tp_src"), H("tp_dst")>>

ofp_phy_port_layout ==
  <<H("port_no"), Raw("hw_addr", 6), Raw("name", 16), L("config"), L("state"),
    L("curr"), L("advertised"), L("supported"), L("peer")>>
ofp_phy_port == Same(0, ofp_phy_port_layout, 48)

-----------------------------------------------------------------------------
(* Queues                                                                  *)
ofp_packet_queue == Same(0, <<L("queue_id"), Num("len", 2), Pad(2), List(8)>>, 8)
ofp_queue_prop_none == Same(0, tl \o <<Rest(4)>>, Raises)
ofp_queue_prop_min_rate == Same(1, tl \o <<Pad(4), H("rate"), Pad(6)>>, 16)

-----------------------------------------------------------------------------
(* Actions                                                                 *)
ofp_action_generic == Same(99, tl \o <<Rest(4)>>, 4)
ofp_action_output == Same(0, tl \o <<H("port"), H("max_len")>>, 8)
ofp_action_enqueue == Same(11, tl \o <<H("port"), Pad(6), L("queue_id")>>, 16)
ofp_action_strip_vlan == Same(3, tl \o <<Pad(4)>>, 8)
ofp_action_vlan_vid == Same(1, tl \o <<H("vlan_vid"), Pad(2)>>, 8)
ofp_action_vlan_pcp == Same(2, tl \o <<B("vlan_pcp"), Pad(3)>>, 8)
ofp_action_dl_addr == Same(4, tl \o <<Raw("dl_addr", 6), Pad(6)>>, 16)
ofp_action_nw_addr == Same(6, tl \o <<L("nw_addr")>>, 8)
ofp_action_nw_tos == Same(8, tl \o <<B("nw_tos"), Pad(3)>>, 8)
ofp_action_tp_port == Same(9, tl \o <<H("tp_port"), Pad(2)>>, 8)
ofp_action_vendor_generic == Same(65535, tl \o <<L("vendor"), Rest(8)>>, 8)

-----------------------------------------------------------------------------
(* Messages that are only a header: barrier, hello, features and config    *)
(* requests.                                                               *)
ofp_hello == Same(0, ofp_header, 8)
ofp_features_request == Same(5, ofp_header, 8)
ofp_get_config_request == Same(7, ofp_header, 8)
ofp_barrier_request == Same(18, ofp_header, 8)
ofp_barrier_reply == Same(19, ofp_header, 8)

(* Messages of fixed size.                                                 *)
ofp_get_config_reply == Same(8, ofp_header \o <<H("flags"), H("miss_send_len")>>, 12)
ofp_set_config == Same(9, ofp_header \o <<H("flags"), H("miss_send_len")>>, 12)

ofp_flow_removed ==
  Same(11, ofp_header \o ofp_match_layout
    \o <<Q("cookie"), H("priority"), B("reason"), Pad(1), L("duration_sec"),
         L("duration_nsec"), H("idle_timeout"), Pad(2), Q("packet_count"),
         Q("byte_count")>>, 48 + 40)

ofp_port_status ==
  Same(12, ofp_header \o <<B("reason"), Pad(7)>> \o ofp_phy_port_layout, 64)

ofp_port_mod ==
  Same(15, ofp_header \o <<H("port_no"), Raw("hw_addr", 6), L("config"),
                           L("mask"), L("advertise"), Pad(4)>>, 32)

ofp_queue_get_config_request == Same(20, ofp_header \o <<H("port"), Pad(2)>>, 12)

(* Messages that end in bytes or in a list.                                *)
ofp_error == Same(1, ofp_header \o <<H("etype"), H("code"), Rest(12)>>, 12)
ofp_echo_request == Same(2, ofp_header \o <<Rest(8)>>, 8)
ofp_echo_reply == Same(3, ofp_header \o <<Rest(8)>>, 8)
ofp_vendor_generic == Same(4, ofp_header \o <<L("vendor"), Rest(12)>>, 12)

ofp_features_reply ==
  Same(6, ofp_header \o <<Q("datapath_id"), L("n_buffers"), B("n_tables"),
                          Pad(3), L("capabilities"), L("actions"), List(32)>>, 32)

ofp_packet_in ==
  Same(10, ofp_header \o <<L("buffer_id"), H("total_len"), H("in_port"),
                           B("reason"), Pad(1), Rest(18)>>, 18)

ofp_packet_out ==
  Same(13, ofp_header \o <<L("buffer_id"), H("in_port"), Num("plen", 2),
                           List(-1), Rest(-1)>>, 16)

flow_mod_body ==
  <<Q("cookie"), H("command"), H("idle_timeout"), H("hard_timeout"),
    H("priority"), L("buffer_id"), H("out_port"), H("flags")>>

(* Fault: pack() and unpack() disagree about the order of the timeouts.    *)
flow_mod_swapped ==
  Differ(14, ofp_header \o ofp_match_layout \o flow_mod_body \o <<List(72)>>,
             ofp_header \o ofp_match_layout
             \o <<Q("cookie"), H("command"), H("hard_timeout"), H("idle_timeout"),
                  H("priority"), L("buffer_id"), H("out_port"), H("flags")>> \o <<List(72)>>, 72)

ofp_flow_mod ==
  Same(14, ofp_header \o ofp_match_layout \o flow_mod_body \o <<List(72)>>, 32 + 40)

ofp_queue_get_config_reply ==
  Same(21, ofp_header \o <<H("port"), Pad(6), List(16)>>, 16)

-----------------------------------------------------------------------------
(* Statistics: the body is the list of the message's parts.                *)
ofp_stats_request == Same(16, ofp_header \o <<Num("stype", 2), H("flags"), List(12)>>, 12)
ofp_stats_reply == Same(17, ofp_header \o <<Num("stype", 2), H("flags"), List(12)>>, 12)

empty_stats_request_body == Same(0, <<>>, 0)
ofp_desc_stats ==
  Same(0, <<Raw("mfr_desc", 256), Raw("hw_desc", 256), Raw("sw_desc", 256),
            Raw("serial_num", 32), Raw("dp_desc", 256)>>, 1056)
ofp_flow_stats_request == Same(1, ofp_match_layout \o <<B("table_id"), Pad(1), H("out_port")>>, 4 + 40)
ofp_flow_stats ==
  Same(1, <<Num("len", 2), B("table_id"), Pad(1)>> \o ofp_match_layout
     \o <<L("duration_sec"), L("duration_nsec"), H("priority"),
          H("idle_timeout"), H("hard_timeout"), Pad(6), Q("cookie"),
          Q("packet_count"), Q("byte_count"), List(88)>>, 48 + 40)
ofp_aggregate_stats_request == Same(2, ofp_match_layout \o <<B("table_id"), Pad(1), H("out_port")>>, 44)
ofp_aggregate_stats == Same(2, <<Q("packet_count"), Q("byte_count"), L("flow_count"), Pad(4)>>, 24)
ofp_table_stats ==
  Same(3, <<B("table_id"), Pad(3), Raw("name", 32), L("wildcards"),
            L("max_entries"), L("active_count"), Q("lookup_count"),
            Q("matched_count")>>, 64)
ofp_port_stats_request == Same(4, <<H("port_no"), Pad(6)>>, 8)
ofp_port_stats ==
  Same(4, <<H("port_no"), Pad(6), Q("rx_packets"), Q("tx_packets"),
            Q("rx_bytes"), Q("tx_bytes"), Q("rx_dropped"), Q("tx_dropped"),
            Q("rx_errors"), Q("tx_errors"), Q("rx_frame_err"),
            Q("rx_over_err"), Q("rx_crc_err"), Q("collisions")>>, 104)
ofp_queue_stats_request == Same(5, <<H("port_no"), Pad(2), L("queue_id")>>, 8)
ofp_queue_stats ==
  Same(5, <<H("port_no"), Pad(2), L("queue_id"), Q("tx_bytes"),
            Q("tx_packets"), Q("tx_errors")>>, 32)
ofp_vendor_stats_generic == Same(65535, <<L("vendor"), Rest(4)>>, Raises)
=============================================================================
