------------------------------- MODULE Packet -------------------------------
(***************************************************************************)
(* pox.lib.packet, first part: packet_base and the headers that contain no *)
(* other parsed header.  Bytes are the symbols of Struct.                  *)
(*                                                                         *)
(* parse() of a class is an operator from bytes to a node; Raise stands    *)
(* for an exception that leaves the constructor.  A node remembers what    *)
(* hdr() will write.                                                       *)
(***************************************************************************)
EXTENDS Struct

(* raw[i:j] and raw[i:]                                                    *)
Cut(b, i, j) == SubSeq(b, i + 1, IF j < Len(b) THEN j ELSE Len(b))
From(b, i) == Cut(b, i, Len(b))
Word(b, i) == Value(Cut(b, i, i + 2))
Byte(b, i) == b[i + 1][3]

(* packet_base.next: None, bytes or a packet.                              *)
None == [kind |-> "none"]
Data(b) == [kind |-> "bytes", b |-> b]
Raise == [kind |-> "raise"]

(* packet_base with parsed = True; an exception in the payload is one here.*)
Node(cls, raw, head, next) ==
  IF next.kind = "raise" THEN Raise
  ELSE [kind |-> "packet", cls |-> cls, parsed |-> TRUE, raw |-> raw, head |-> head,
        next |-> next, hdr_ok |-> TRUE]
(* parse() returned early: parsed = False, next = None.                    *)
Unparsed(cls, raw) ==
  [kind |-> "packet", cls |-> cls, parsed |-> FALSE, raw |-> raw, head |-> <<>>,
   next |-> None, hdr_ok |-> TRUE]
HdrRaises(node) == IF node.kind = "raise" THEN node ELSE [node EXCEPT !.hdr_ok = FALSE]

(* packet_utils.checksum, of data in which the checksum is zero: equal for *)
(* equal data, taken to differ for different data.                         *)
Checksum(data) == <<<<"sum", 1, data>>, <<"sum", 2, data>>>>

-----------------------------------------------------------------------------
arp(raw) ==
  IF \/ Len(raw) < 28 \/ Word(raw, 0) # 1 \/ Byte(raw, 4) # 6
     \/ Word(raw, 2) # 2048 \/ Byte(raw, 5) # 4
  THEN Unparsed("arp", raw)
  ELSE Node("arp", raw, Cut(raw, 0, 28), Data(From(raw, 28)))

(* eap: hdr() writes the first four bytes; type and data are not kept.     *)
eap(raw) ==
  IF Len(raw) < 4 THEN Unparsed("eap", raw)
  ELSE IF Byte(raw, 0) \in {1, 2} /\ Len(raw) < 5 THEN Raise
  ELSE Node("eap", raw, Cut(raw, 0, 4), None)

(* eapol: only an EAP body is kept.                                        *)
eapol(raw) ==
  IF Len(raw) < 4 THEN Unparsed("eapol", raw)
  ELSE Node("eapol", raw, Cut(raw, 0, 4), IF Byte(raw, 1) = 0 THEN eap(From(raw, 4)) ELSE None)

(* rip and RIPEntry: entries of 20 bytes, a partial one is dropped.        *)
rip(raw) ==
  IF Len(raw) < 24 \/ Word(raw, 2) # 0 THEN Unparsed("rip", raw)
  ELSE Node("rip", raw, Cut(raw, 0, 4 + 20 * ((Len(raw) - 4) \div 20)), None)

igmp(raw) ==
  LET zeroed == Cut(raw, 0, 2) \o Zero(2) \o From(raw, 4)
  IN IF Len(raw) < 8 \/ Cut(raw, 2, 4) # Checksum(zeroed) THEN Unparsed("igmp", raw)
     ELSE Node("igmp", raw, raw, None)

(* echo of icmp.py and of icmpv6.py.                                       *)
echo(raw) ==
  IF Len(raw) < 4 THEN Unparsed("echo", raw)
  ELSE Node("echo", raw, Cut(raw, 0, 4), Data(From(raw, 4)))

-----------------------------------------------------------------------------
(* tcp.parse_options and tcp_opt.to_bytes: what the options from byte i on *)
(* are packed to.  The end-of-list option and what follows it, a SACK      *)
(* option's kind and length and unknown options are not packed.  SACK      *)
(* unpacks all that is left, so it parses only as the last bytes.          *)
option_length == (2 :> 4) @@ (3 :> 3) @@ (4 :> 2) @@ (8 :> 10)

(* Fault: no-operation options are not kept.                               *)
option_without_nop(raw, i, n) ==
  CASE raw[i + 1][3] \in DOMAIN option_length -> Cut(raw, i, i + n)
    [] raw[i + 1][3] = 5 -> Cut(raw, i + 2, i + n)
    [] OTHER -> <<>>

(* tcp_opt.to_bytes of the option in bytes i to i + n                      *)
option_bytes(raw, i, n) ==
  CASE raw[i + 1][3] \in DOMAIN option_length \cup {1} -> Cut(raw, i, i + n)
    [] raw[i + 1][3] = 5 -> Cut(raw, i + 2, i + n)
    [] OTHER -> <<>>

RECURSIVE parse_options(_, _, _)
parse_options(raw, i, hdr_len) ==
  IF i >= hdr_len THEN [ok |-> TRUE, b |-> <<>>]
  ELSE LET kind == Byte(raw, i)
           n == IF kind = 1 THEN 1 ELSE IF i + 2 > Len(raw) THEN 0 ELSE Byte(raw, i + 1)
           legal == /\ n >= (IF kind = 1 THEN 1 ELSE 2) /\ i + n <= Len(raw)
                    /\ kind \in DOMAIN option_length => n = option_length[kind]
                    /\ kind = 5 => (n - 2) % 8 = 0 /\ Len(raw) = i + n
           more == parse_options(raw, i + n, hdr_len)
       IN IF kind = 0 THEN [ok |-> TRUE, b |-> <<>>]
          ELSE IF ~legal \/ ~more.ok THEN [ok |-> FALSE]
          ELSE [ok |-> TRUE, b |-> option_bytes(raw, i, n) \o more.b]

(* The head is without the checksum; hdr() inserts it.                     *)
tcp(raw) ==
  LET hdr_len == 4 * (Byte(raw, 12) \div 16)
      options == parse_options(raw, 20, hdr_len)
  IN IF Len(raw) < 20 THEN Unparsed("tcp", raw)
     ELSE IF hdr_len < 20 \/ hdr_len > Len(raw) THEN Unparsed("tcp", raw)
     ELSE IF ~options.ok THEN Unparsed("tcp", raw)
     ELSE Node("tcp", raw, Cut(raw, 0, 20) \o options.b, Data(From(raw, hdr_len)))

-----------------------------------------------------------------------------
(* simple_tlv and its subclasses: what _parse_data and _pack_data make of  *)
(* the data.  system_capabilities tests "cap and (1 << i)", so a nonzero   *)
(* word comes out as ones.                                                 *)
capabilities(word) == IF word = Zero(2) THEN word ELSE <<<<"#", 0, 255>>, <<"#", 0, 255>>>>
management_address(d) ==
  LET asl == Byte(d, 0) - 1
      n == 8 + asl + Byte(d, 7 + asl)
  IN IF d = <<>> THEN [ok |-> FALSE]
     ELSE IF Len(d) < 8 + asl THEN [ok |-> FALSE]
     ELSE [ok |-> TRUE, b |-> Cut(d, 0, n)]
tlv_data(type, d) ==
  CASE type \in {1, 2} -> [ok |-> Len(d) >= 2, b |-> d]
    [] type = 3 -> [ok |-> Len(d) = 2, b |-> d]
    [] type = 0 -> [ok |-> Len(d) = 0, b |-> d]
    [] type = 8 -> management_address(d)
    [] type = 127 -> [ok |-> Len(d) >= 4, b |-> d]
    [] type = 7 -> [ok |-> Len(d) = 4, b |-> capabilities(Cut(d, 0, 2)) \o capabilities(From(d, 2))]
    [] OTHER -> [ok |-> TRUE, b |-> d]

(* lldp.next_tlv and the loop of lldp.parse: chassis, port, time to live,  *)
(* then others up to the end TLV; what follows that is dropped.            *)
RECURSIVE tlvs(_, _)
tlvs(b, k) ==
  LET type == Word(b, 0) \div 512
      n == Word(b, 0) % 512
      d == tlv_data(type, Cut(b, 2, 2 + n))
      more == tlvs(From(b, 2 + n), k + 1)
  IN IF Len(b) < 2 THEN [is |-> "unparsed"]
     ELSE IF Len(b) < n THEN [is |-> "unparsed"]
     ELSE IF Len(b) < 2 + n \/ ~d.ok THEN [is |-> "raise"]
     ELSE IF k <= 3 /\ type # k THEN [is |-> "unparsed"]
     ELSE IF k > 3 /\ type = 0 THEN [is |-> "parsed", b |-> Cut(b, 0, 2) \o d.b]
     ELSE IF k > 3 /\ Len(b) = 2 + n THEN [is |-> "unparsed"]
     ELSE IF more.is # "parsed" THEN more
     ELSE [is |-> "parsed", b |-> Bytes(type * 512 + Len(d.b), 2) \o d.b \o more.b]

lldp(raw) ==
  LET t == tlvs(raw, 1)
  IN IF Len(raw) < 14 THEN Unparsed("lldp", raw)
     ELSE IF t.is = "raise" THEN Raise
     ELSE IF t.is = "unparsed" THEN Unparsed("lldp", raw)
     ELSE Node("lldp", raw, t.b, None)

-----------------------------------------------------------------------------
(* dhcp.parseOptionSegment, unpackOptions and packOptions, for the first   *)
(* option (a message with more options comes out in the order of the       *)
(* dictionary): padded to an even length, END added, the rest dropped.     *)
RECURSIVE dhcp_option(_)
dhcp_option(b) ==
  IF b = <<>> \/ Byte(b, 0) = 255 THEN <<>>
  ELSE IF Byte(b, 0) = 0 THEN dhcp_option(From(b, 1))
  ELSE IF Len(b) < 2 THEN <<>>
  ELSE IF Len(b) < 2 + Byte(b, 1) THEN <<>>
  ELSE Cut(b, 0, 2 + Byte(b, 1)) \o Zero(Byte(b, 1) % 2)

dhcp_options(raw_options) ==
  LET o == dhcp_option(raw_options)
  IN IF o = <<>> THEN raw_options ELSE o \o <<<<"#", 0, 255>>>>

(* dhcp.parse reads file from byte 102, six too early; '128s' cuts it.     *)
dhcp_file(raw) == Cut(raw, 102, 230)

MAGIC == <<<<"#", 0, 99>>, <<"#", 0, 130>>, <<"#", 0, 83>>, <<"#", 0, 99>>>>
dhcp(raw) ==
  LET legal == Byte(raw, 2) <= 16 /\ Cut(raw, 236, 240) = MAGIC
      head == Cut(raw, 0, 34) \o Zero(10) \o Cut(raw, 44, 108) \o dhcp_file(raw) \o Cut(raw, 236, 240)
              \o (IF legal THEN dhcp_options(From(raw, 240)) ELSE <<>>)
  IN IF Len(raw) < 240 THEN Unparsed("dhcp", raw)
     ELSE IF ~legal \/ Byte(raw, 2) # 6     \* no options attribute; no chaddr
     THEN HdrRaises(Node("dhcp", raw, <<>>, None))
     ELSE Node("dhcp", raw, head, None)

-----------------------------------------------------------------------------
(* dns._read_dns_name_from_index: the labels at index, and the index       *)
(* behind the name.  A pointer keeps ten bits of its offset.               *)
RECURSIVE read_dns_name(_, _)
read_dns_name(l, index) ==
  IF index >= Len(l) THEN [ok |-> FALSE]
  ELSE LET n == Byte(l, index)
       IN IF n >= 192
          THEN IF index + 1 >= Len(l) THEN [ok |-> FALSE]
               ELSE LET r == read_dns_name(l, (n % 4) * 256 + Byte(l, index + 1))
                    IN IF r.ok THEN [r EXCEPT !.next = index + 2] ELSE r
          ELSE IF n = 0 THEN [ok |-> TRUE, labels |-> <<>>, next |-> index + 1]
          ELSE LET r == read_dns_name(l, index + 1 + n)
               IN IF r.ok
                  THEN [r EXCEPT !.labels = <<Cut(l, index + 1, index + 1 + n)>> \o @]
                  ELSE r

makeName(labels, term) ==
  (IF labels = <<>> THEN Zero(1)
   ELSE FlattenSeq([i \in DOMAIN labels |-> Bytes(Len(labels[i]), 1) \o labels[i]]))
  \o (IF term THEN Zero(1) ELSE <<>>)

find(s, t) ==
  LET at == {i \in 0..(Len(s) - Len(t)) : Cut(s, i, i + Len(t)) = t}
  IN IF at = {} THEN -1 ELSE Min(at)

(* putName: the longest suffix of the name already written in full, or as *)
(* a name of its own (name_map), is replaced by a pointer.                 *)
RECURSIVE putName(_, _, _, _)
putName(o, name, pre, post) ==
  LET found == find(o.s, makeName(post, TRUE))
      at == IF found = -1 /\ post \in DOMAIN o.name_map THEN o.name_map[post] ELSE found
      mapped == (name :> Len(o.s)) @@ o.name_map
  IN IF at >= 0
     THEN [s |-> o.s \o (IF pre = <<>> THEN <<>> ELSE makeName(pre, FALSE)) \o Bytes(at + 49152, 2),
           name_map |-> IF pre = <<>> THEN o.name_map ELSE mapped]
     ELSE IF name = <<>> THEN [o EXCEPT !.s = @ \o Zero(1)]
     ELSE IF Len(post) = 1 THEN [s |-> o.s \o makeName(name, TRUE), name_map |-> mapped]
     ELSE putName(o, name, Append(pre, Head(post)), Tail(post))

(* next_question, next_rr with get_rddata, and hdr for each record.  acc   *)
(* is the reading position and the message packed so far.  A mail          *)
(* exchanger's preference is not kept; an IPv6 address fails to parse.     *)
dns_record(raw, acc, is_question) ==
  LET name == read_dns_name(raw, acc.index)
      fixed == IF is_question THEN 4 ELSE 10
      at == name.next + fixed
      type == Word(raw, name.next)
      rdlen == IF is_question THEN 0 ELSE Word(raw, name.next + 8)
      target == read_dns_name(raw, IF type = 15 THEN at + 2 ELSE at)
      named == putName(acc.out, name.labels, <<>>, name.labels)
      data(s) == IF type \in {2, 5, 12, 15} THEN putName(s, target.labels, <<>>, target.labels)
                 ELSE [s EXCEPT !.s = @ \o Cut(raw, at, at + rdlen)]
      fixup(packed, n) ==
        [packed EXCEPT !.s = Cut(@, 0, n - 2) \o Bytes(Len(@) - n, 2) \o From(@, n)]
      packed(s) == IF is_question THEN s ELSE fixup(data(s), Len(s.s))
  IN IF ~acc.ok \/ ~name.ok THEN [acc EXCEPT !.ok = FALSE]
     ELSE IF at + rdlen > Len(raw) THEN [acc EXCEPT !.ok = FALSE]
     ELSE IF ~is_question /\ (type = 28 \/ (type = 1 /\ rdlen # 4)
                                \/ (type \in {2, 5, 12, 15} /\ ~target.ok))
     THEN [acc EXCEPT !.ok = FALSE]
     ELSE [ok |-> TRUE, index |-> at + rdlen,
           out |-> packed([named EXCEPT !.s = @ \o Cut(raw, name.next, name.next + fixed)])]

(* bits0: opcode is taken from three of its four bits.                     *)
dns(raw) ==
  LET questions == Word(raw, 4)
      records == Word(raw, 6) + Word(raw, 8) + Word(raw, 10)
      head == Cut(raw, 0, 2) \o Bytes(((Byte(raw, 2) \div 16) * 16) + (Byte(raw, 2) % 8), 1)
              \o Cut(raw, 3, 12)
      start == [ok |-> TRUE, index |-> 12, out |-> [s |-> head, name_map |-> [x \in {} |-> 0]]]
      whole(r) == IF r.ok THEN Node("dns", raw, r.out.s, None) ELSE Unparsed("dns", raw)
  IN IF Len(raw) < 12 THEN Unparsed("dns", raw)
     ELSE whole(FoldLeft(LAMBDA acc, i : dns_record(raw, acc, i <= questions), start,
                         [i \in 1..(questions + records) |-> i]))

-----------------------------------------------------------------------------
(* Neighbour discovery options: what pack() makes of those from offset i   *)
(* on.  NDOptPrefixInformation and NDOptMTU override pack() and write no   *)
(* type and length.                                                        *)
option_units == (1 :> 1) @@ (2 :> 1) @@ (3 :> 4) @@ (5 :> 1)
nd_option(raw, i, n) ==
  CASE Byte(raw, i) = 3 ->
         Cut(raw, i + 2, i + 3) \o Bytes((Byte(raw, i + 3) \div 64) * 64, 1)
         \o Cut(raw, i + 4, i + 12) \o Zero(4) \o Cut(raw, i + 16, i + 32)
    [] Byte(raw, i) = 5 -> Zero(2) \o Cut(raw, i + 4, i + 8)
    [] OTHER -> Cut(raw, i, i + n)

RECURSIVE ndp_options(_, _)
ndp_options(raw, i) ==
  IF i >= Len(raw) - 2 THEN [is |-> "parsed", b |-> <<>>]
  ELSE LET units == Byte(raw, i + 1)
           more == ndp_options(raw, i + 8 * units)
       IN IF (Len(raw) - i) % 8 # 0 \/ units = 0 THEN [is |-> "raise"]
          ELSE IF Len(raw) - i < 8 * units THEN [is |-> "truncated", b |-> <<>>]
          ELSE IF Byte(raw, i) \in DOMAIN option_units /\ units # option_units[Byte(raw, i)]
          THEN [is |-> "raise"]
          ELSE IF more.is # "parsed" THEN more
          ELSE [is |-> "parsed", b |-> nd_option(raw, i, 8 * units) \o more.b]

(* An NDP message: pack() writes head and the options.                     *)
nd_message(cls, raw, head, i) ==
  LET o == ndp_options(raw, i)
  IN IF o.is = "raise" THEN Raise ELSE Node(cls, raw, head \o o.b, None)

NDRouterSolicitation(raw) == nd_message("NDRouterSolicitation", raw, Zero(4), 8)
NDNeighborSolicitation(raw) ==
  nd_message("NDNeighborSolicitation", raw, Zero(4) \o Cut(raw, 8, 24), 24)
NDNeighborAdvertisement(raw) ==
  IF Len(raw) < 5 THEN Raise
  ELSE nd_message("NDNeighborAdvertisement", raw,
                  Bytes((Byte(raw, 4) \div 32) * 32, 1) \o Zero(3) \o Cut(raw, 8, 24), 24)
(* pack() puts four bytes of padding in front.                             *)
NDRouterAdvertisement(raw) ==
  IF Len(raw) < 16 THEN Raise
  ELSE nd_message("NDRouterAdvertisement", raw,
                  Zero(4) \o Cut(raw, 4, 5) \o Bytes((Byte(raw, 5) \div 64) * 64, 1)
                  \o Cut(raw, 6, 16), 16)
TimeExceeded(raw) == Node("TimeExceeded", raw, Zero(4), Data(From(raw, 8)))
(* mtu is the tuple that struct.unpack_from returns; hdr() cannot pack it. *)
PacketTooBig(raw) ==
  IF Len(raw) < 8 THEN Raise ELSE HdrRaises(Node("PacketTooBig", raw, <<>>, Data(From(raw, 8))))
(* icmpv6.unreach unpacks one value into two names.                        *)
unreach6(raw) == IF Len(raw) >= 8 THEN Raise ELSE HdrRaises(Node("unreach6", raw, <<>>, None))
=============================================================================
