------------------------------ MODULE OFMatch ------------------------------
(***************************************************************************)
(* ofp_match of pox/openflow/libopenflow_01.py: what a match looks like    *)
(* after it has crossed the wire, and when one match covers another.       *)
(*                                                                         *)
(* A match gives every field a value or Wild (wildcarded).  Values are      *)
(* natural numbers; a network address is a sequence of AddrBits bits with  *)
(* the number of bits that count, 0 of them being Wild.                     *)
(***************************************************************************)
EXTENDS Integers, Sequences, TLC

CONSTANT AddrBits
ASSUME AddrBitsAssumption == AddrBits \in Nat \ {0}

Wild == -1
TP == {"tp_src", "tp_dst"}
Nets == {"nw_src", "nw_dst"}
Fields == {"in_port", "dl_src", "dl_dst", "dl_vlan", "dl_vlan_pcp", "dl_type",
           "nw_tos", "nw_proto"} \cup TP

IP == 2048
ARP == 2054
Transports == {1, 6, 17}
OFP_VLAN_NONE == 65535

Addr == [1..AddrBits -> {0, 1}]
NoNet == [addr |-> [i \in 1..AddrBits |-> 0], bits |-> 0]

(* ofp_match(): everything is wildcarded.                                  *)
ofp_match == [f \in Fields |-> Wild] @@ [n \in Nets |-> NoNet]

(* get_nw_src, get_nw_dst: an address of which no bit counts reads as none.*)
Match(m) ==
  \A n \in Nets : /\ m[n] = [addr |-> m[n].addr, bits |-> m[n].bits]
                  /\ m[n].bits \in 0..AddrBits /\ (m[n].bits = 0 => m[n] = NoNet)

is_wildcarded(m) ==
  (\E f \in Fields : m[f] = Wild) \/ (\E n \in Nets : m[n].bits < AddrBits)

-----------------------------------------------------------------------------
(* The fields without a meaning under the prerequisites that the match     *)
(* specifies.                                                              *)
ignored(dl_type, nw_proto) ==
  IF dl_type = IP THEN IF nw_proto \in Transports THEN {} ELSE TP
  ELSE IF dl_type = ARP THEN {"nw_tos"} \cup TP
  ELSE {"nw_tos", "nw_proto"} \cup Nets \cup TP

(* pack(flow_mod=True): _wire_wildcards clears the wildcards of ignored    *)
(* fields and their value is written as zero, as is a wildcarded one.      *)
wire(m) ==
  LET none == ignored(m["dl_type"], m["nw_proto"])
  IN [wildcards |-> {f \in Fields : m[f] = Wild} \ none,
      bits |-> [n \in Nets |-> IF n \in none THEN 0 ELSE AddrBits - m[n].bits],
      value |-> [f \in Fields |-> IF m[f] = Wild \/ f \in none THEN 0 ELSE m[f]],
      addr |-> [n \in Nets |-> IF n \in none THEN NoNet.addr ELSE m[n].addr]]

(* Fault: the fields without a meaning stay exact.                         *)
unwire_raw(w) ==
  [f \in Fields |-> IF f \in w.wildcards THEN Wild ELSE w.value[f]]
  @@ [n \in Nets |-> [addr |-> w.addr[n], bits |-> AddrBits - w.bits[n]]]

(* unpack(flow_mod=True): _unwire_wildcards looks at the values that were  *)
(* read, and sets the wildcards again.  A wildcarded field reads as None.  *)
unwire(w) ==
  LET none == ignored(w.value["dl_type"], w.value["nw_proto"])
  IN [f \in Fields \cup Nets |->
        IF f \in Fields
        THEN IF f \in w.wildcards \cup none THEN Wild ELSE w.value[f]
        ELSE IF f \in none \/ w.bits[f] = AddrBits THEN NoNet
             ELSE [addr |-> w.addr[f], bits |-> AddrBits - w.bits[f]]]

(* fix(): the match without the fields that have no meaning.               *)
fix(m) ==
  LET none == ignored(m["dl_type"], m["nw_proto"])
  IN [f \in Fields \cup Nets |->
        IF f \notin none THEN m[f] ELSE IF f \in Fields THEN Wild ELSE NoNet]

-----------------------------------------------------------------------------
(* IPAddr.inNetwork masks the address, not the network: a network with a   *)
(* host part contains nothing.                                             *)
inNetwork(a, net) ==
  \A i \in 1..AddrBits : (IF i <= net.bits THEN a[i] ELSE 0) = net.addr[i]

net_fail(mine, others) ==
  mine.bits > 0 /\ (mine.bits > others.bits \/ ~inNetwork(others.addr, mine))

matches_with_wildcards(m, other, consider_other_wildcards) ==
  \/ m = other
  \/ /\ consider_other_wildcards => \A f \in Fields : other[f] = Wild => m[f] = Wild
     /\ \A f \in Fields : m[f] = Wild \/ m[f] = other[f]
     /\ \A n \in Nets : ~net_fail(m[n], other[n])

-----------------------------------------------------------------------------
(* A packet is a record of its header fields under the names they have in  *)
(* a match, and whether it is a fragment.  dl_type is the type behind a    *)
(* VLAN tag.                                                               *)
is_ip(p) == p["dl_type"] = IP

(* from_packet with spec_frags: a fragment has no ports.                   *)
from_packet(p, in_port) ==
  LET read == {"dl_src", "dl_dst", "dl_type", "dl_vlan", "dl_vlan_pcp"}
              \cup (IF is_ip(p) THEN {"nw_proto", "nw_tos"} ELSE {})
              \cup (IF p["dl_type"] = ARP THEN {"nw_proto"} ELSE {})
      ports == is_ip(p) /\ (p["frag"] \/ p["nw_proto"] \in Transports)
  IN [f \in Fields |->
        IF f = "in_port" THEN in_port
        ELSE IF f \in read THEN p[f]
        ELSE IF f \in TP /\ ports THEN IF p["frag"] THEN 0 ELSE p[f]
        ELSE Wild]
     @@ [n \in Nets |-> IF p["dl_type"] \in {IP, ARP}
                        THEN [addr |-> p[n], bits |-> AddrBits] ELSE NoNet]

=============================================================================
