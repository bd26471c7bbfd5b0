----------------------------- MODULE PacketLib -----------------------------
(***************************************************************************)
(* pox.lib.packet, second part: the headers that contain other headers,    *)
(* packet_base.pack, and what the controller does with a packet-in: parse  *)
(* the frame, pack it again and send the result to chirouter               *)
(* (RouterController._handle_PacketIn).                                    *)
(***************************************************************************)
EXTENDS Packet

CONSTANT Frames   \* what a switch may send: [bytes, canonical,
                  \* misplaced]

VARIABLES
  frame,    \* the frame in the packet-in message
  packet,   \* event.parsed
  out,      \* the frame sent to chirouter
  again,    \* that frame, parsed and packed once more
  phase

vars == <<frame, packet, out, again, phase>>

-----------------------------------------------------------------------------
(* parse()                                                                 *)

(* The pseudo-header of tcp.checksum, udp.checksum and icmpv6.hdr.         *)
pseudo_header(prev, len) ==
  IF prev.cls = "ipv4"
  THEN Cut(prev.raw, 12, 20) \o Zero(1) \o Cut(prev.raw, 9, 10) \o Bytes(len, 2)
  ELSE Cut(prev.raw, 8, 40) \o Bytes(len, 4) \o Zero(3) \o Cut(prev.raw, 6, 7)

(* icmpv6._calc_checksum uses 58 for the protocol, whatever the header says.*)
icmpv6_checksum(prev, zeroed) ==
  Checksum(Cut(prev.raw, 8, 40) \o Bytes(Len(zeroed), 4) \o Zero(3) \o Bytes(58, 1) \o zeroed)

RECURSIVE parse_next(_, _, _), ipv4(_), ipv6_payload(_, _, _), mpls(_), icmp_unreach(_)

vlan(raw) ==
  LET written(node) ==
        IF (Byte(raw, 0) \div 16) % 2 = 1      \* cfi is shifted out of range
        THEN HdrRaises(node) ELSE node
  IN IF Len(raw) < 4 THEN Unparsed("vlan", raw)
     ELSE written(Node("vlan", raw, Cut(raw, 0, 4), parse_next(Word(raw, 2), From(raw, 4), TRUE)))

llc(raw) ==
  LET control == IF Byte(raw, 2) % 2 = 0 THEN 4 ELSE 3
      snap == Byte(raw, 0) \div 2 = 85 /\ Byte(raw, 1) \div 2 = 85
      length == IF snap THEN control + 5 ELSE control
  IN IF Len(raw) < 3 THEN Unparsed("llc", raw)
     ELSE IF Len(raw) < length THEN Unparsed("llc", raw)
     ELSE Node("llc", raw, Cut(raw, 0, length),
               IF snap /\ Cut(raw, control, control + 3) = Zero(3)
               THEN parse_next(Word(raw, control + 3), From(raw, length), FALSE)
               ELSE Data(From(raw, length)))

mpls(raw) ==
  IF Len(raw) < 4 THEN Unparsed("mpls", raw)
  ELSE Node("mpls", raw, Cut(raw, 0, 4),
            IF Len(raw) >= 8 /\ Byte(raw, 2) % 2 = 0 THEN mpls(From(raw, 4)) ELSE Data(From(raw, 4)))

icmp_unreach(raw) ==
  IF Len(raw) < 4 THEN Unparsed("unreach", raw)
  ELSE Node("unreach", raw, Cut(raw, 0, 4),
            IF Len(raw) >= 28 THEN ipv4(From(raw, 4)) ELSE Data(From(raw, 4)))

icmp(raw) ==
  IF Len(raw) < 4 THEN Unparsed("icmp", raw)
  ELSE Node("icmp", raw, Cut(raw, 0, 2),
            CASE Byte(raw, 0) \in {0, 8} -> echo(From(raw, 4))
              [] Byte(raw, 0) = 3 -> icmp_unreach(From(raw, 4))
              [] OTHER -> Data(From(raw, 4)))

(* parsed = True is set before the length is looked at, so a datagram that *)
(* is shorter than it says loses its payload.                              *)
udp(raw) ==
  LET ports == {Word(raw, 0), Word(raw, 2)}
      body == From(raw, 8)
  IN IF Len(raw) < 8 THEN Unparsed("udp", raw)
     ELSE Node("udp", raw, Cut(raw, 0, 4),
               IF Word(raw, 4) < 8 THEN None
               ELSE IF Word(raw, 2) \in {67, 68} THEN dhcp(body)
               ELSE IF ports \cap {53, 5353} # {} THEN dns(body)
               ELSE IF 520 \in ports THEN rip(body)
               ELSE IF Len(raw) < Word(raw, 4) THEN None
               ELSE Data(body))

(* A payload that cannot be parsed is kept as bytes.                       *)
bytes_if_unparsed(node, raw) ==
  IF node.kind = "packet" /\ ~node.parsed THEN Data(raw) ELSE node

ipv4(raw) ==
  LET hl == 4 * (Byte(raw, 0) % 16)
      iplen == Word(raw, 2)
      body == Cut(raw, hl, iplen)
      protocol == Byte(raw, 9)
  IN IF Len(raw) < 20 THEN Unparsed("ipv4", raw)
     ELSE IF Byte(raw, 0) \div 16 # 4 \/ hl < 20 \/ iplen < 20 \/ hl >= iplen \/ hl > Len(raw)
     THEN Unparsed("ipv4", raw)
     ELSE Node("ipv4", raw, Cut(raw, 0, 20),
               CASE protocol = 17 -> bytes_if_unparsed(udp(body), body)
                 [] protocol = 6 -> bytes_if_unparsed(tcp(body), body)
                 [] protocol = 1 -> bytes_if_unparsed(icmp(body), body)
                 [] protocol = 2 -> bytes_if_unparsed(igmp(body), body)
                 [] OTHER -> IF Len(raw) < iplen THEN None ELSE Data(body))

(* The payload starts four bytes into raw for all but the classes that     *)
(* take an offset.                                                         *)
icmpv6(raw, prev) ==
  LET zeroed == Cut(raw, 0, 2) \o Zero(2) \o From(raw, 4)
      type == Byte(raw, 0)
  IN IF Len(raw) < 4 THEN Unparsed("icmpv6", raw)
     ELSE IF Cut(raw, 2, 4) # icmpv6_checksum(prev, zeroed) THEN Unparsed("icmpv6", raw)
     ELSE Node("icmpv6", raw, Cut(raw, 0, 2),
               CASE type \in {128, 129} -> echo(From(raw, 4))
                 [] type = 2 -> PacketTooBig(raw)
                 [] type = 3 -> TimeExceeded(raw)
                 [] type = 1 -> unreach6(raw)
                 [] type = 133 -> NDRouterSolicitation(raw)
                 [] type = 135 -> NDNeighborSolicitation(raw)
                 [] type = 134 -> NDRouterAdvertisement(raw)
                 [] type = 136 -> NDNeighborAdvertisement(raw)
                 [] OTHER -> Data(From(raw, 4)))

(* The loop over extension headers, then the payload.  NormalExtension-    *)
(* Header counts its length in units of eight bytes, so "length" shrinks   *)
(* by too little; FixedExtensionHeader compares the length with an offset. *)
ipv6_payload(raw, nht, at) ==
  LET body == Cut(raw, at.offset, at.offset + at.length)
      prev == [cls |-> "ipv6", raw |-> raw]
      bytes == 8 * (Byte(raw, at.offset + 1) + 1)
      next(n, len) == ipv6_payload(raw, Byte(raw, at.offset), [offset |-> at.offset + n, length |-> len])
  IN CASE nht \in {0, 43, 60} ->
            IF at.length < 8 THEN Unparsed("ipv6", raw)
            ELSE IF at.offset + 2 > Len(raw) THEN Raise
            ELSE IF at.length < bytes THEN Unparsed("ipv6", raw)
            ELSE next(bytes, at.length - (bytes \div 8 - 1))
       [] nht = 44 ->
            IF at.length < 8 \/ at.length - at.offset < 8 THEN Unparsed("ipv6", raw)
            ELSE next(8, at.length - 8)
       [] nht = 17 -> bytes_if_unparsed(udp(body), body)
       [] nht = 6 -> bytes_if_unparsed(tcp(body), body)
       [] nht = 58 -> bytes_if_unparsed(icmpv6(body, prev), body)
       [] nht = 59 -> None
       [] OTHER -> Data(body)

ipv6(raw) ==
  LET len == Word(raw, 4)
      around(payload) ==
        IF payload.kind = "packet" /\ payload.cls = "ipv6" THEN payload
        ELSE Node("ipv6", raw, Cut(raw, 0, 40), payload)
  IN IF Len(raw) < 40 THEN Unparsed("ipv6", raw)
     ELSE IF Byte(raw, 0) \div 16 # 6 THEN Unparsed("ipv6", raw)
     ELSE around(ipv6_payload(raw, Byte(raw, 6),
                   [offset |-> 40, length |-> IF len > Len(raw) THEN Len(raw) ELSE len]))

parse_next(type, raw, allow_llc) ==
  CASE type = 33024 -> vlan(raw)
    [] type \in {2054, 32821} -> arp(raw)
    [] type = 2048 -> ipv4(raw)
    [] type = 34525 -> ipv6(raw)
    [] type = 35020 -> lldp(raw)
    [] type = 34958 -> eapol(raw)
    [] type \in {34887, 34888} -> mpls(raw)
    [] type < 1536 /\ allow_llc -> llc(raw)
    [] OTHER -> Data(raw)

(* Fault: the header is packed without its addresses.                      *)
ethernet_without_addresses(raw) ==
  IF Len(raw) < 14 THEN Unparsed("ethernet", raw)
  ELSE Node("ethernet", raw, Cut(raw, 12, 14), parse_next(Word(raw, 12), From(raw, 14), TRUE))

ethernet(raw) ==
  IF Len(raw) < 14 THEN Unparsed("ethernet", raw)
  ELSE Node("ethernet", raw, Cut(raw, 0, 14), parse_next(Word(raw, 12), From(raw, 14), TRUE))

-----------------------------------------------------------------------------
(* hdr() and pack()                                                        *)

(* Fault: the time to live is written into the type of service.            *)
ipv4_hdr_shifted(p, payload) ==
  LET h(csum) == Cut(p.head, 0, 1) \o Cut(p.head, 8, 9)
                 \o Bytes(4 * (Byte(p.head, 0) % 16) + Len(payload), 2)
                 \o Cut(p.head, 4, 10) \o csum \o Cut(p.head, 12, 20)
  IN h(Checksum(h(Zero(2))))

(* ipv4.hdr: length and checksum are computed, options are not written.    *)
ipv4_hdr(p, payload) ==
  LET h(csum) == Cut(p.head, 0, 2) \o Bytes(4 * (Byte(p.head, 0) % 16) + Len(payload), 2)
                 \o Cut(p.head, 4, 10) \o csum \o Cut(p.head, 12, 20)
  IN h(Checksum(h(Zero(2))))

(* Fault: the length is one byte too large.                                *)
udp_hdr_longer(p, payload, prev) ==
  LET len == Len(payload) + 9
      h(csum) == p.head \o Bytes(len, 2) \o csum
  IN h(Checksum(pseudo_header(prev, len) \o h(Zero(2)) \o payload))

udp_hdr(p, payload, prev) ==
  LET len == Len(payload) + 8
      h(csum) == p.head \o Bytes(len, 2) \o csum
  IN h(Checksum(pseudo_header(prev, len) \o h(Zero(2)) \o payload))

tcp_hdr(p, payload, prev) ==
  LET h(csum) == Cut(p.head, 0, 16) \o csum \o From(p.head, 18)
  IN h(Checksum(pseudo_header(prev, Len(p.head) + Len(payload)) \o h(Zero(2)) \o payload))

icmp_hdr(p, payload) == p.head \o Checksum(p.head \o Zero(2) \o payload)
icmpv6_hdr(p, payload, prev) ==
  p.head \o icmpv6_checksum(prev, p.head \o Zero(2) \o payload)

ipv6_hdr(p, payload) == Cut(p.head, 0, 4) \o Bytes(Len(payload), 2) \o From(p.head, 6)

hdr(p, payload, prev) ==
  CASE p.cls = "ipv4" -> ipv4_hdr(p, payload)
    [] p.cls = "ipv6" -> ipv6_hdr(p, payload)
    [] p.cls = "udp" -> udp_hdr(p, payload, prev)
    [] p.cls = "tcp" -> tcp_hdr(p, payload, prev)
    [] p.cls = "icmp" -> icmp_hdr(p, payload)
    [] p.cls = "icmpv6" -> icmpv6_hdr(p, payload, prev)
    [] OTHER -> p.head

(* packet_base.pack                                                        *)
RECURSIVE pack(_, _)
pack(p, prev) ==
  LET rest == CASE p.next.kind = "none" -> [ok |-> TRUE, b |-> <<>>]
                [] p.next.kind = "bytes" -> [ok |-> TRUE, b |-> p.next.b]
                [] OTHER -> pack(p.next, p)
  IN IF ~p.parsed /\ p.next.kind = "none" THEN [ok |-> TRUE, b |-> p.raw]
     ELSE IF ~rest.ok \/ ~p.hdr_ok THEN [ok |-> FALSE]
     ELSE [ok |-> TRUE, b |-> hdr(p, rest.b, prev) \o rest.b]

-----------------------------------------------------------------------------
Init == /\ frame \in Frames /\ phase = "received"
        /\ packet = None /\ out = <<>> /\ again = <<>>

(* event.parsed; an exception ends the handler and is logged by revent.    *)
Parse ==
  /\ phase = "received"
  /\ packet' = ethernet(frame.bytes)
  /\ phase' = IF packet'.kind = "raise" THEN "lost" ELSE "parsed"
  /\ UNCHANGED <<frame, out, again>>

(* "if not packet.parsed: return", else packet.pack() is sent.             *)
Relay ==
  /\ phase = "parsed"
  /\ LET p == pack(packet, None)
     IN IF ~packet.parsed THEN phase' = "ignored" /\ out' = out
        ELSE IF ~p.ok THEN phase' = "lost" /\ out' = out
        ELSE phase' = "relayed" /\ out' = p.b
  /\ UNCHANGED <<frame, packet, again>>

(* The frame is routed and reaches the next controller.                    *)
RelayAgain ==
  /\ phase = "relayed" /\ again = <<>>
  /\ \E q \in {ethernet(out)} :
       LET p == IF q.kind = "raise" THEN [ok |-> FALSE] ELSE pack(q, None)
       IN again' = IF p.ok THEN p.b ELSE <<>>
  /\ phase' = "done"
  /\ UNCHANGED <<frame, packet, out>>

Next == Parse \/ Relay \/ RelayAgain
Spec == Init /\ [][Next]_vars

-----------------------------------------------------------------------------
(* Each variable has its type, and what is sent has an Ethernet header.    *)
TypeOK ==
  /\ phase \in {"received", "parsed", "relayed", "done", "ignored", "lost"}
  /\ packet.kind \in {"none", "packet", "raise"}
  /\ phase \in {"relayed", "done"} => Len(out) >= 14

(* A frame of the kinds hosts send in a chirouter network, with no bytes   *)
(* behind the datagram and no header the library drops, is relayed byte    *)
(* for byte.                                                               *)
CanonicalUnchanged ==
  frame.canonical /\ phase \notin {"received", "parsed"} =>
    phase \in {"relayed", "done"} /\ out = frame.bytes

(* Whatever the library drops or rewrites further on, chirouter sees the   *)
(* Ethernet addresses, the type and the IPv4 fields it routes by as they   *)
(* were received: type of service, id, fragment, time to live, protocol    *)
(* and addresses.                                                          *)
RoutingFieldsKept ==
  phase \in {"relayed", "done"} =>
    /\ Cut(out, 0, 14) = Cut(frame.bytes, 0, 14)
    /\ Word(out, 12) = 2048 =>
         /\ Cut(out, 14, 16) = Cut(frame.bytes, 14, 16)
         /\ Cut(out, 18, 24) = Cut(frame.bytes, 18, 24)
         /\ Cut(out, 26, 34) = Cut(frame.bytes, 26, 34)

(* Relaying normalises: a relayed frame passes the next controller as it   *)
(* is, unless a header promises more bytes than hdr() writes (IPv4         *)
(* options, TCP options and EAP data that are not packed, IPv6 extension   *)
(* headers), pack() writes more than parse() read (router advertisements), *)
(* or parse() reads a field from the wrong place (the DHCP boot file).     *)
Normalises ==
  phase = "done" /\ ~frame.misplaced => again = out

(* A frame with a whole IPv4 datagram that has options is sent on with as  *)
(* many bytes as its header then says: pack() converts header and payload  *)
(* to bytes, the options of the header included.                           *)
holds_datagram(b) == Len(b) >= 14 + Word(b, 16)
OptionsPacked ==
  phase \in {"relayed", "done"} /\ packet.next.kind = "packet" /\ packet.next.cls = "ipv4"
    /\ Byte(frame.bytes, 14) % 16 > 5 /\ holds_datagram(frame.bytes)
    => holds_datagram(out)

(* What relaying keeps and what it makes of the rest.                      *)
FramesSurvive == TypeOK /\ CanonicalUnchanged /\ RoutingFieldsKept /\ Normalises
=============================================================================
