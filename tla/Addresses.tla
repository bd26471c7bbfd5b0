----------------------------- MODULE Addresses ------------------------------
(***************************************************************************)
(* IPAddr, IPAddr6 and the network functions of pox/lib/addresses.py: the  *)
(* two byte orders of an address, prefixes written as a number of bits, as *)
(* a netmask or not at all, and the text of an IPv6 address.               *)
(*                                                                         *)
(* A byte of an IPv4 address has ByteBits bits; the code's 32 is Width and *)
(* its 8, 16 and 24 are whole bytes.  Only the arithmetic depends on it.   *)
(* Text is what split(':') makes of it: a sequence of segments, each <<n>> *)
(* for a number, <<>> for the empty string, or <<hi, lo>> for a dotted     *)
(* quad at the end.                                                        *)
(***************************************************************************)
EXTENDS Integers, Sequences, SequencesExt

CONSTANTS ByteBits,   \* Bits of a byte of an IPv4 address
          Questions   \* What the library is asked

ASSUME ByteBitsAssumption == ByteBits \in Nat \ {0}

VARIABLES asked,      \* The question
          answer      \* The answer, or NoAnswer

address_vars == <<asked, answer>>

Base == 2 ^ ByteBits
Width == 4 * ByteBits
AllAddresses == 0..(2 ^ Width - 1)
NoAnswer == [ok |-> FALSE, error |-> "none"]
Refused(e) == [ok |-> FALSE, error |-> e]

-----------------------------------------------------------------------------
(* struct.pack and struct.unpack of an unsigned number, "!I" and "I".      *)

big(n) == [i \in 1..4 |-> (n \div Base ^ (4 - i)) % Base]
unbig(b) == ((b[1] * Base + b[2]) * Base + b[3]) * Base + b[4]
native(little, n) == IF little THEN Reverse(big(n)) ELSE big(n)
unnative(little, b) == unbig(IF little THEN Reverse(b) ELSE b)
htonl(little, n) == unbig(native(little, n))

(* IPAddr.__init__: the value of four bytes, and of a number.  The sign of *)
(* _value plays no part: every reader of it masks it away.                 *)
IPAddr_bytes(little, b) == unnative(little, b)
(* Fault: networkOrder is not looked at.                                   *)
IPAddr_number_host(little, n, networkOrder) == unbig(native(little, n))

IPAddr_number(little, n, networkOrder) ==
  unbig(IF networkOrder THEN big(n) ELSE native(little, n))

raw(little, value) == native(little, value)
toUnsigned(little, value, networkOrder) ==
  IF networkOrder THEN value ELSE htonl(little, value)

-----------------------------------------------------------------------------
(* Networks.  An address is its host order number from here on.            *)

cidr_to_netmask(bits) == (2 ^ bits - 1) * 2 ^ (Width - bits)

(* "while v & 0x80000000": the number of ones the mask begins with.        *)
leading_ones(m) ==
  CHOOSE c \in 0..Width :
    /\ m >= cidr_to_netmask(c)
    /\ c < Width => m < cidr_to_netmask(c + 1)

(* netmask_to_cidr, and the same loop in parse_cidr.                       *)
netmask_to_cidr(m) ==
  LET c == leading_ones(m)
  IN IF m # cidr_to_netmask(c) THEN Refused("netmask") ELSE [ok |-> TRUE, bits |-> c]

(* infer_netmask.  The return of class E stands behind the return of class *)
(* D, in its block, so class E gets None and 32 - None raises TypeError.   *)
infer_netmask(a) ==
  LET top(n) == a \div 2 ^ (Width - n)
  IN CASE a = 0 -> [ok |-> TRUE, bits |-> 0]
       [] a # 0 /\ top(1) = 0 -> [ok |-> TRUE, bits |-> ByteBits]
       [] top(2) = 2 -> [ok |-> TRUE, bits |-> 2 * ByteBits]
       [] top(3) = 6 -> [ok |-> TRUE, bits |-> 3 * ByteBits]
       [] top(4) = 14 -> [ok |-> TRUE, bits |-> Width]
       [] OTHER -> Refused("TypeError")

host_part(a, wild) == a % 2 ^ wild

(* parse_cidr's check.                                                     *)
check(a, wild, allow_host) ==
  IF ~allow_host /\ host_part(a, wild) # 0 THEN Refused("host part")
  ELSE [ok |-> TRUE, addr |-> a, bits |-> Width - wild]

(* IPAddr6.parse_cidr, and what parse_cidr does when it is not to infer:   *)
(* the network q.addr "/" q.with, where q.form says whether it is written  *)
(* as bits, as a netmask or left out.                                      *)
IPAddr6_parse_cidr(q) ==
  CASE q.form = "bits" ->
         IF q.with \notin 0..Width THEN Refused("assert")
         ELSE check(q.addr, Width - q.with, q.allow_host)
    [] q.form = "mask" ->
         LET m == netmask_to_cidr(q.with)
         IN IF m.ok THEN check(q.addr, Width - m.bits, q.allow_host) ELSE m
    [] q.form = "none" -> check(q.addr, 0, q.allow_host)

(* parse_cidr: without bits and mask, the network of the address's class,  *)
(* or the address alone if bits are set behind it.                         *)
parse_cidr(q) ==
  LET m == infer_netmask(q.addr)
      b == Width - m.bits
  IN IF q.form # "infer" THEN IPAddr6_parse_cidr(q)
     ELSE IF ~m.ok THEN m
     ELSE check(q.addr, IF host_part(q.addr, b) = 0 THEN b ELSE 0, q.allow_host)

(* Fault: one more bit of the address is masked away.                      *)
inNetwork_wider(a, n, b) ==
  LET w == 2 ^ (Width - b + 1) IN (a \div w) * w = n

(* inNetwork, IPAddr6.in_network: only the address is masked.              *)
inNetwork(a, n, b) == LET w == 2 ^ (Width - b) IN (a \div w) * w = n

-----------------------------------------------------------------------------
(* IPv6: an address is its eight 16-bit segments.                          *)

Zeros(n) == [i \in 1..n |-> 0]

(* in_network('::ffff:0:0/96').                                            *)
is_ipv4_mapped(o) == SubSeq(o, 1, 6) = Append(Zeros(5), 65535)

(* [length, pos] of the zero runs; to_str drops the first longest.         *)
runs(o) == {r \in (1..8) \X (1..8) : /\ r[1] + r[2] <= 9
                                     /\ \A i \in r[2]..(r[1] + r[2] - 1) : o[i] = 0}
dropped(o) ==
  CHOOSE r \in runs(o) : \A s \in runs(o) : s[1] < r[1] \/ (s[1] = r[1] /\ r[2] <= s[2])

fmt(n) == IF n = <<>> THEN <<<<>>>> ELSE [i \in DOMAIN n |-> <<n[i]>>]

(* to_str.  A dotted quad hides the last two segments, which are 1 until   *)
(* finalize puts it in their place.  zero_drop changes the digits only.    *)
to_str(addr, section_drop, ipv4) ==
  LET quad == (ipv4 = "auto" /\ is_ipv4_mapped(addr)) \/ ipv4 = "yes"
      o == IF quad THEN SubSeq(addr, 1, 6) \o <<1, 1>> ELSE addr
      r == dropped(o)
      text == IF section_drop /\ runs(o) # {} /\ r[1] > 1
              THEN fmt(SubSeq(o, 1, r[2] - 1)) \o <<<<>>>> \o fmt(SubSeq(o, r[1] + r[2], 8))
              ELSE fmt(o)
  IN IF quad THEN Append(SubSeq(text, 1, Len(text) - 2), <<addr[7], addr[8]>>) ELSE text

(* addr.count('::'): the empty segments inside (":::" is not asked).       *)
gaps(segs) == {i \in 2..(Len(segs) - 1) : segs[i] = <<>>}

(* Fault: the zeros are put behind both sides.                             *)
fill_behind(left, right) == left \o right \o Zeros(8 - Len(left) - Len(right))

(* "p[0] + ([0] * (8-len(p[0])-len(p[1]))) + p[1]".                        *)
fill(left, right) == left \o Zeros(8 - Len(left) - Len(right)) \o right

(* IPAddr6.__init__ of text: the numbers before and after the first empty  *)
(* segment are the two sides.                                              *)
IPAddr6_text(text) ==
  LET last == text[Len(text)]
      quad == Len(last) = 2
      segs == IF quad THEN Front(text) \o <<<<0>>, <<0>>>> ELSE text
      left == SelectInSeq(Append(segs, <<>>), LAMBDA s : s = <<>>) - 1
      o == fill(FlattenSeq(SubSeq(segs, 1, left)), FlattenSeq(SubSeq(segs, left + 1, Len(segs))))
  IN IF Len(segs) \notin 3..8 \/ \E i, j \in gaps(segs) : i # j THEN Refused("format")
     ELSE [ok |-> TRUE, addr |-> IF quad THEN SubSeq(o, 1, 6) \o last ELSE o]

-----------------------------------------------------------------------------
AskInit ==
  /\ asked \in Questions
  /\ answer = NoAnswer

(* An address is converted to numbers and back.                            *)
Convert ==
  LET l == asked.little
      value == IPAddr_bytes(l, asked.bytes)
      n == toUnsigned(l, value, TRUE)
      h == toUnsigned(l, value, FALSE)
  IN answer' = [ok |-> TRUE, host |-> h,
                bytes |-> {raw(l, IPAddr_number(l, n, TRUE)), raw(l, IPAddr_number(l, h, FALSE))}]

(* A network is read and asked about every address.                        *)
Network ==
  LET p == parse_cidr(asked)
  IN answer' = IF ~p.ok THEN p
               ELSE [ok |-> TRUE, bits |-> p.bits,
                     inside |-> {a \in AllAddresses : inNetwork(a, p.addr, p.bits)}]

(* An IPv6 address is written and read.                                    *)
Text == answer' = IPAddr6_text(to_str(asked.addr, asked.section_drop, asked.ipv4))

Ask ==
  /\ answer = NoAnswer
  /\ \/ asked.kind = "order" /\ Convert
     \/ asked.kind = "network" /\ Network
     \/ asked.kind = "text" /\ Text
  /\ UNCHANGED asked

-----------------------------------------------------------------------------
(* Whatever the byte order of the machine, the host order number of an     *)
(* address is its bytes read from the left, and both numbers lead back to  *)
(* the same bytes.                                                         *)
ByteOrderKept ==
  asked.kind = "order" /\ answer.ok =>
    answer.host = unbig(asked.bytes) /\ answer.bytes = {asked.bytes}

(* The bits a notation stands for: as many as written, as the mask says,   *)
(* the whole address, or those of its class (all of them if bits are set   *)
(* behind the class's, and in classes D and E).                            *)
prefix(a, b) == a \div 2 ^ (Width - b)
whole(b) == asked.addr = prefix(asked.addr, b) * 2 ^ (Width - b)
begins(b) == {a \in AllAddresses : prefix(a, b) = prefix(asked.addr, b)}
class == {c \in 1..4 : prefix(asked.addr, c) = 2 ^ c - 2}
class_e == asked.form = "infer" /\ prefix(asked.addr, 4) = 15
meant ==
  CASE asked.form = "bits" -> {asked.with}
    [] asked.form = "mask" -> {b \in 0..Width : asked.with = 2 ^ Width - 2 ^ (Width - b)}
    [] asked.form = "none" -> {Width}
    [] asked.form = "infer" ->
         IF asked.addr = 0 THEN {0}
         ELSE {IF whole(c * ByteBits) THEN c * ByteBits ELSE Width : c \in class}

question_read == asked.kind = "network" /\ answer # NoAnswer

(* A network in any notation without a host part holds the addresses that  *)
(* begin as it does, and no others; only a mask with a hole and a host     *)
(* part that is not allowed are refused.  Said of what is not inferred to  *)
(* be class E; of a network whose host part was allowed only the bits.     *)
NetworkMembership ==
  question_read /\ ~class_e =>
    /\ answer.ok <=> meant # {} /\ (asked.allow_host \/ \A b \in meant : whole(b))
    /\ answer.ok => \A b \in meant :
         answer.bits = b /\ (whole(b) => answer.inside = begins(b))

(* An address of class E alone is a network, of that address ("Must be a   *)
(* Class E", return 32-0).                                                 *)
ClassEInferred == question_read /\ class_e => answer.ok /\ answer.bits = Width

(* What parse_cidr returns can be given to inNetwork, which says that it   *)
(* takes such a tuple: the addresses that begin as the network are in it,  *)
(* the address it was made from to begin with.                             *)
ParsedNetworkHolds == question_read /\ answer.ok => answer.inside = begins(answer.bits)

(* str() of an IPv6 address is read back as that address, wherever its     *)
(* zeros are and whether its end is written as a dotted quad.              *)
TextRoundTrip ==
  asked.kind = "text" /\ answer # NoAnswer => answer.ok /\ answer.addr = asked.addr

(* Every notation and conversion of an address means the same address.     *)
AddressesKept == ByteOrderKept /\ NetworkMembership /\ TextRoundTrip
=============================================================================
