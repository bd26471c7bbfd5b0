------------------------------ MODULE MCPacket ------------------------------
(* Frames of every protocol the library parses, as hosts send them, and    *)
(* with padding, options, wrong checksums and truncated headers; and       *)
(* addresses in every notation.                                            *)
EXTENDS PacketLib, Addresses

N(v) == Bytes(v, 1)
W(v) == Bytes(v, 2)
X(a, n) == Sym(a, 1, n)

Eth(type, payload) == X("dst", 6) \o X("src", 6) \o W(type) \o payload
Frame(b) == [bytes |-> b, canonical |-> TRUE, misplaced |-> FALSE]
Odd(b) == [bytes |-> b, canonical |-> FALSE, misplaced |-> FALSE]
Misplaced(b) == [bytes |-> b, canonical |-> FALSE, misplaced |-> TRUE]

(* Headers as the sender computes them.                                    *)
IpHead(words, len, proto, csum) ==
  N(64 + words) \o X("tos", 1) \o W(len) \o X("id", 2) \o W(16384) \o X("ttl", 1) \o N(proto)
  \o csum \o X("ip", 8)
IpLen(len, proto, payload) ==
  IpHead(5, len, proto, Checksum(IpHead(5, len, proto, Zero(2)))) \o payload
Ip(proto, payload) == IpLen(20 + Len(payload), proto, payload)
Ph(proto, len) == X("ip", 8) \o Zero(1) \o N(proto) \o W(len)
UdpHead(sport, dport, len, csum) == W(sport) \o W(dport) \o W(len) \o csum
Udp(sport, dport, payload) ==
  LET n == 8 + Len(payload)
  IN UdpHead(sport, dport, n, Checksum(Ph(17, n) \o UdpHead(sport, dport, n, Zero(2)) \o payload))
     \o payload
TcpHead(words, csum, options) ==
  X("ports", 4) \o X("seq", 8) \o N(words * 16) \o X("flags", 1) \o X("win", 2) \o csum
  \o X("urg", 2) \o options
Tcp(options, payload) ==
  LET w == 5 + Len(options) \div 4
  IN TcpHead(w, Checksum(Ph(6, 4 * w + Len(payload)) \o TcpHead(w, Zero(2), options) \o payload), options)
     \o payload
Icmp(type, payload) ==
  LET h == N(type) \o X("code", 1) IN h \o Checksum(h \o Zero(2) \o payload) \o payload

Ip6Head(len, nht) == N(96) \o X("flow", 3) \o W(len) \o N(nht) \o X("hops", 1) \o X("ip", 32)
Ip6(nht, payload) == Ip6Head(Len(payload), nht) \o payload
Ph6(nht, len) == X("ip", 32) \o Bytes(len, 4) \o Zero(3) \o N(nht)
Icmp6(type, payload) ==
  LET h == N(type) \o X("code", 1)
  IN h \o Checksum(Ph6(58, 4 + Len(payload)) \o h \o Zero(2) \o payload) \o payload
Udp6(payload) ==
  LET n == 8 + Len(payload)
  IN UdpHead(9, 9, n, Checksum(Ph6(17, n) \o UdpHead(9, 9, n, Zero(2)) \o payload)) \o payload

Body == X("data", 3)
Mss == N(2) \o N(4) \o X("mss", 2)
Nop == N(1)
Scale == N(3) \o N(3) \o X("scale", 1)
Stamp == N(8) \o N(10) \o X("stamp", 8)
SackOk == N(4) \o N(2)
Sack == N(5) \o N(10) \o X("sack", 8)

Arp(hw) == W(hw) \o W(2048) \o N(6) \o N(4) \o W(1) \o X("hwsrc", 6) \o X("src", 4) \o X("hwdst", 6) \o X("dst", 4)

Tlv(type, d) == W(type * 512 + Len(d)) \o d
Lldp(others) ==
  Tlv(1, N(4) \o X("mac", 6)) \o Tlv(2, N(2) \o X("port", 2)) \o Tlv(3, X("ttl", 2)) \o others
Management == N(5) \o N(1) \o X("addr", 4) \o N(1) \o X("if", 4) \o N(2) \o X("oid", 2)

Dhcp(hlen, names, magic, options) ==
  N(1) \o N(1) \o N(hlen) \o X("hops", 1) \o X("xid", 8) \o X("addrs", 16) \o X("chaddr", 6)
  \o Zero(10) \o names \o magic \o options
Discover == N(53) \o N(1) \o N(1) \o Zero(1) \o N(255)

A == <<<<"a", 0, 1>>>>
C == <<<<"c", 0, 1>>, <<"c", 0, 2>>>>
Label(l) == N(Len(l)) \o l
Dns(bits, counts, rest) ==
  X("id", 2) \o N(bits) \o N(128) \o FlattenSeq([i \in 1..4 |-> W(counts[i])]) \o rest
Question == Label(A) \o Label(C) \o Zero(1) \o W(1) \o W(1)
Rr(name, type, d) == name \o W(type) \o W(1) \o X("ttl", 4) \o W(Len(d)) \o d
Pointer(at) == W(49152 + at)

Rip(z, n) == N(2) \o N(2) \o W(z) \o Sym("route", 1, n)
Opt(type, units) == N(type) \o N(units) \o Sym("opt", type, 8 * units - 2)
NdTarget == Zero(4) \o X("target", 16)

Layer4 ==
  {Ip(6, Tcp(<<>>, Body)), Ip(6, Tcp(Mss, <<>>)), Ip(6, Tcp(Mss \o SackOk \o Nop \o Nop, <<>>)),
   Ip(6, Tcp(Nop \o Nop \o Stamp, Body)), Ip(6, Tcp(Nop \o Scale, Body)),
   Ip(17, Udp(9, 9, Body)), Ip(17, Udp(9, 9, <<>>)), Ip(1, Icmp(8, X("echo", 4) \o Body)),
   Ip(1, Icmp(0, X("echo", 2))), Ip(1, Icmp(5, Body)), Ip(1, Icmp(11, X("unused", 4) \o Ip(17, Udp(9, 9, Body)))),
   Ip(1, Icmp(3, X("unused", 4) \o Ip(17, Udp(9, 9, Body)))), Ip(1, Icmp(3, X("unused", 4))),
   Ip(89, Body), Ip(2, N(17) \o Zero(1) \o Checksum(N(17) \o Zero(3) \o X("group", 4)) \o X("group", 4)),
   Ip(2, X("igmp", 8)), Ip(17, X("udp", 4)), Ip(6, X("tcp", 12)), Ip(1, X("icmp", 2))}
Applications ==
  {Udp(68, 67, Dhcp(6, Zero(192), MAGIC, Discover)), Udp(67, 68, Dhcp(6, Zero(192), MAGIC, N(255))),
   Udp(68, 67, X("short", 9)), Udp(520, 520, Rip(0, 20)), Udp(520, 520, Rip(0, 40)), Udp(520, 520, Rip(1, 20)),
   Udp(9, 53, Dns(1, <<1, 0, 0, 0>>, Question)), Udp(53, 9, Dns(129, <<1, 1, 0, 0>>, Question \o Rr(Pointer(12), 1, X("a", 4)))),
   Udp(5353, 5353, Dns(129, <<1, 1, 0, 0>>, Question \o Rr(Pointer(12), 5, Label(C) \o Pointer(12)))),
   Udp(53, 9, Dns(129, <<1, 1, 0, 0>>, Question \o Rr(Pointer(12), 28, X("a", 16)))), Udp(53, 9, X("short", 5))}
Layer4v6 ==
  {Udp6(Body), X("udp", 5), Icmp6(128, X("echo", 4)), Icmp6(3, Zero(4) \o Body), Icmp6(133, Zero(4) \o Opt(1, 1)),
   Icmp6(135, NdTarget \o Opt(1, 1)), Icmp6(136, N(96) \o Zero(3) \o X("target", 16) \o Opt(2, 1)), Icmp6(143, Body),
   Icmp6(135, NdTarget)}
Canonical ==
  {Eth(2048, p) : p \in Layer4} \cup {Eth(2048, Ip(17, u)) : u \in Applications}
  \cup {Eth(33024, W(24578) \o W(2048) \o p) : p \in {Ip(17, Udp(9, 9, Body)), Ip(1, Icmp(8, X("echo", 4)))}}
  \cup {Eth(34525, Ip6(IF Len(p) > 4 /\ p[1][1] = "#" /\ p[1][3] = 0 THEN 17 ELSE 58, p)) : p \in Layer4v6}
  \cup {Eth(2054, Arp(1)), Eth(2054, Arp(6)), Eth(2054, Arp(1) \o Zero(18)), Eth(32821, Arp(1)),
        Eth(2048, X("short", 9)), Eth(34525, Ip6Head(0, 59)), Eth(34525, N(80) \o X("v5", 39)),
        Eth(35020, Lldp(Tlv(0, <<>>))),
        Eth(35020, Lldp(Tlv(4, Body) \o Tlv(8, Management) \o Tlv(127, X("oui", 4) \o Body) \o Tlv(5, Body) \o Tlv(0, <<>>))),
        Eth(35020, Lldp(Tlv(4, Body))), Eth(35020, X("short", 9)), Eth(34958, N(1) \o N(1) \o W(0)),
        Eth(34887, W(9) \o N(17) \o X("ttl", 1) \o Body), Eth(34887, W(9) \o N(16) \o X("ttl", 1) \o W(8) \o N(17) \o X("ttl", 1)),
        Eth(38, N(66) \o N(66) \o N(3) \o Body), Eth(38, N(66) \o N(66) \o N(4) \o N(0) \o Body), Eth(38, N(66) \o N(66)),
        Eth(60, N(170) \o N(170) \o N(3) \o Zero(3) \o W(2048) \o Ip(17, Udp(9, 9, Body))),
        Eth(60, N(170) \o N(170) \o N(3) \o X("oui", 3) \o W(2048) \o Body), Eth(60, N(170) \o N(170) \o N(3) \o Zero(3)),
        Eth(35000, Body), Eth(33024, X("short", 3)), Eth(34887, X("short", 3))}

(* Padding, rewritten checksums and lengths, lost payloads.                *)
Strange ==
  {Eth(2048, Ip(17, Udp(9, 9, Body)) \o Zero(15)), Eth(2048, Ip(89, Body) \o Zero(20)),
   Eth(2048, IpHead(5, 23, 89, X("bad", 2)) \o Body), Eth(2048, IpLen(60, 89, Body)),
   Eth(2048, IpLen(60, 17, Udp(9, 9, Body))), Eth(2048, Ip(17, UdpHead(9, 9, 11, Zero(2)) \o Body)),
   Eth(2048, Ip(17, UdpHead(9, 9, 30, Zero(2)) \o Body)), Eth(2048, Ip(17, UdpHead(9, 9, 4, Zero(2)) \o Body)),
   Eth(2048, Ip(1, Icmp(3, X("unused", 4) \o IpLen(90, 6, X("tcp", 8))))),
   Eth(2048, Ip(17, Udp(68, 67, Dhcp(6, Zero(192), MAGIC, N(12) \o N(3) \o Body \o N(255))))),
   Eth(2048, Ip(17, Udp(68, 67, Dhcp(16, Zero(192), MAGIC, Discover)))),
   Eth(2048, Ip(17, Udp(68, 67, Dhcp(6, Zero(192), X("magic", 4), Discover)))),
   Eth(2048, Ip(17, Udp(520, 520, Rip(0, 23)))),
   Eth(2048, Ip(17, Udp(53, 9, Dns(137, <<1, 1, 0, 0>>, Question \o Rr(Pointer(12), 15, W(10) \o Label(C) \o Pointer(12)))))),
   Eth(2048, Ip(17, Udp(53, 9, Dns(129, <<1, 1, 0, 0>>, Question \o Rr(Label(A) \o Label(C) \o Zero(1), 1, X("a", 4)))))),
   Eth(2048, Ip(17, Udp(53, 9, Dns(129, <<1, 0, 0, 0>>, Zero(1) \o W(1) \o W(1))))),
   Eth(33024, W(4098) \o W(2048) \o Ip(89, Body)), Eth(34525, Ip6(58, Icmp6(1, X("unused", 4) \o Body))),
   Eth(34525, Ip6(58, Icmp6(2, X("mtu", 4) \o Body))), Eth(34525, Ip6(58, Icmp6(135, NdTarget \o Opt(5, 2)))),
   Eth(34525, Ip6(58, Icmp6(135, NdTarget \o Opt(9, 2) \o Opt(9, 1)))), Eth(34525, Ip6(58, Icmp6(135, NdTarget \o N(9) \o N(3) \o X("t", 6)))),
   Eth(34525, Ip6(44, N(89) \o X("frag", 7) \o Body)), Eth(34525, Ip6(60, N(89) \o N(9) \o X("hop", 6))),
   Eth(35020, Lldp(Tlv(0, <<>>)) \o Zero(9)), Eth(35020, Lldp(Tlv(7, W(4) \o W(0)) \o Tlv(0, <<>>))),
   Eth(35020, Lldp(Tlv(3, Body) \o Tlv(0, <<>>))), Eth(35020, Lldp(W(4 * 512 + 4) \o Body)),
   Eth(34958, N(1) \o N(3) \o W(3) \o Body),
   Eth(34958, N(1) \o N(0) \o W(4) \o N(1) \o X("id", 1) \o W(4)), X("short", 9)}
(* Headers that pack() leaves out or writes differently.                   *)
Headers ==
  {Eth(2048, Ip(17, Udp(68, 67, Dhcp(6, X("names", 192), MAGIC, Discover)))),
   Eth(2048, IpHead(6, 27, 89, X("csum", 2)) \o X("options", 4) \o Body),
   Eth(2048, Ip(6, Tcp(Mss \o N(0) \o X("eol", 3), Body))), Eth(2048, Ip(6, Tcp(Nop \o Nop \o Sack, <<>>))),
   Eth(2048, Ip(6, Tcp(Nop \o Nop \o Sack, Body))), Eth(2048, Ip(6, Tcp(N(30) \o N(4) \o X("unknown", 2), Body))),
   Eth(34525, Ip6(0, N(89) \o N(0) \o X("hop", 6) \o Body)),
   Eth(34525, Ip6(44, N(89) \o X("frag", 7) \o X("long", 60))),
   Eth(34525, Ip6(58, Icmp6(134, X("ra", 1) \o N(192) \o X("ra", 10)))),
   Eth(34525, Ip6(58, Icmp6(134, X("ra", 1) \o N(0) \o X("ra", 10) \o Opt(3, 4)))),
   Eth(34958, N(1) \o N(0) \o W(8) \o N(2) \o X("id", 1) \o W(8) \o X("eap", 4))}

MCFrames == {Frame(b) : b \in Canonical} \cup {Odd(b) : b \in Strange} \cup {Misplaced(b) : b \in Headers}

(* Networks with every prefix, with masks that have a hole, and without    *)
(* either; IPv6 addresses with every pattern of zeros, and mapped ones.    *)
Masks == {cidr_to_netmask(b) : b \in 0..Width} \cup {1, 90, 129, 253}
Networks ==
  {[kind |-> "network", addr |-> a, form |-> f[1], with |-> f[2], allow_host |-> h] :
     a \in AllAddresses, h \in BOOLEAN,
     f \in ({"bits"} \X (0..Width)) \cup ({"mask"} \X Masks) \cup ({"none", "infer"} \X {0})}
Orders == {[kind |-> "order", little |-> l, bytes |-> big(a)] : l \in BOOLEAN, a \in AllAddresses}
Segments == [1..8 -> {0, 9}] \cup {Zeros(5) \o <<65535, x, y>> : x, y \in {0, 9}}
Texts ==
  {[kind |-> "text", addr |-> o, section_drop |-> d, ipv4 |-> q] :
     o \in Segments, d \in BOOLEAN, q \in {"auto", "yes", "no"}}
NoQuestion == [kind |-> "nothing"]
MCQuestions == Networks \cup Orders \cup Texts
AnyFrame == CHOOSE f \in MCFrames : f.canonical
=============================================================================
