----------------------------- MODULE MCDatapath -----------------------------
(* Three kinds of peers: a controller that changes the flow table, with    *)
(* matches that cover and cross each other; one that works with buffered   *)
(* frames; and one that configures a switch whose ports come and go.       *)
EXTENDS Datapath

Address(a, b) == [i \in 1..2 |-> IF i = 1 THEN a ELSE b]

Tcp == ("id" :> 1) @@ ("dl_src" :> 1) @@ ("dl_dst" :> 2) @@ ("dl_vlan" :> OFP_VLAN_NONE)
       @@ ("dl_vlan_pcp" :> 0) @@ ("dl_type" :> IP) @@ ("nw_tos" :> 0) @@ ("nw_proto" :> 6)
       @@ ("tp_src" :> 80) @@ ("tp_dst" :> 81) @@ ("nw_src" :> Address(1, 0))
       @@ ("nw_dst" :> Address(0, 1)) @@ ("frag" :> FALSE)
Fragment == [Tcp EXCEPT !["id"] = 2, !["frag"] = TRUE, !["nw_src"] = Address(1, 1)]
ArpFrame == [Tcp EXCEPT !["id"] = 3, !["dl_type"] = ARP, !["dl_dst"] = STP_MAC, !["nw_proto"] = 1]

Set(set) == set @@ ofp_match
Net(a, b, n) == [addr |-> Address(a, b), bits |-> n]
Every == ofp_match
IpNet == Set(("dl_type" :> IP) @@ ("nw_src" :> Net(1, 0, 1)))
HostPart == Set(("dl_type" :> IP) @@ ("nw_src" :> Net(1, 1, 1)))
NoPrerequisite == Set(("in_port" :> 1) @@ ("tp_src" :> 80) @@ ("nw_src" :> Net(1, 0, 2)))
Exact == from_packet(Tcp, 1)

Mod(command, match, priority, actions) ==
  [command |-> command, match |-> match, priority |-> priority, actions |-> actions, idle |-> 0,
   hard |-> 0, rem |-> FALSE, overlap |-> FALSE, emerg |-> FALSE, out_port |-> NONE, buffer_id |-> NONE]

Out(n) == <<"output", n>>
Packet(actions, id) == [actions |-> actions, data |-> NoPacket, buffer_id |-> id, in_port |-> NONE]
PortMod(n, flag, on) == [port_no |-> n, flag |-> flag, on |-> on, hw_addr |-> TRUE]
Stats(s) == [type |-> "stats_request", stats |-> s]
ToController == Mod("ADD", Every, 1, <<Out(CONTROLLER), <<"set", "dl_dst", 4>>, Out(2)>>)

Flows ==
  [packets |-> {Tcp},
   flow_mods |->
     {Mod("ADD", Every, 1, <<Out(2)>>),
      [Mod("ADD", IpNet, 2, <<Out(2)>>) EXCEPT !.rem = TRUE, !.idle = 1],
      [Mod("ADD", NoPrerequisite, 1, <<Out(IN_PORT)>>) EXCEPT !.rem = TRUE, !.hard = 1, !.overlap = TRUE],
      Mod("ADD", Exact, 1, <<<<"set", "tp_src", 9>>, <<"set", "dl_vlan_pcp", 3>>,
                             <<"set", "nw_src", Address(0, 0)>>, Out(ALL)>>),
      Mod("MODIFY", HostPart, 2, <<Out(2)>>),
      Mod("MODIFY_STRICT", Every, 1, <<Out(2)>>),
      [Mod("DELETE", IpNet, 0, <<>>) EXCEPT !.out_port = 2], Mod("DELETE", Every, 0, <<>>),
      Mod("DELETE_STRICT", IpNet, 2, <<>>)},
   packet_outs |-> {}, port_mods |-> {}, changing |-> {},
   requests |-> {("match" :> IpNet) @@ ("out_port" :> 2) @@ Stats("flow")}]

Buffers ==
  [packets |-> {Tcp, Fragment},
   flow_mods |-> {ToController,
                  [Mod("ADD", NoPrerequisite, 1, <<Out(IN_PORT)>>) EXCEPT !.buffer_id = 1]},
   packet_outs |->
     {Packet(<<Out(FLOOD)>>, 1), Packet(<<<<"set", "dl_dst", 4>>, Out(CONTROLLER)>>, 2),
      Packet(<<<<"enqueue", 2>>>>, 1),
      [Packet(<<<<"set", "strip_vlan", 0>>, Out(TABLE), <<"vendor", 1>>>>, NONE)
         EXCEPT !.data = Tcp, !.in_port = 1]},
   port_mods |-> {}, changing |-> {}, requests |-> {[type |-> "set_config", frag_drop |-> TRUE]}]

PortsChange ==
  [packets |-> {ArpFrame}, packet_outs |-> {}, changing |-> {1, 2},
   flow_mods |-> {Mod("MODIFY", Every, 1, <<Out(FLOOD)>>), [Mod("ADD", Every, 1, <<>>) EXCEPT !.emerg = TRUE],
                  Mod("UNKNOWN", Every, 0, <<>>)},
   port_mods |-> {PortMod(2, "PORT_DOWN", TRUE), PortMod(2, "PORT_DOWN", FALSE), PortMod(2, "NO_STP", FALSE),
                  PortMod(1, "NO_RECV_STP", TRUE), [PortMod(1, "NO_FWD", TRUE) EXCEPT !.hw_addr = FALSE]},
   requests |->
     {[type |-> t] : t \in {"hello", "echo_request", "echo_reply", "features_request", "barrier_request",
                            "get_config_request", "vendor", "queue_get_config_request"}}
     \cup {Stats("desc"), Stats("vendor"),
           ("all" :> TRUE) @@ Stats("queue"), ("all" :> FALSE) @@ Stats("queue"), ("port" :> 2) @@ Stats("port")}]

MCPeers == {Flows, Buffers, PortsChange}
=============================================================================
