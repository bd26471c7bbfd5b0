------------------------------ MODULE Routing ------------------------------
(***************************************************************************)
(* chirouter_get_matching_entry of router.c: one pass over the routing     *)
(* table that keeps the best matching entry found so far.                  *)
(*                                                                         *)
(* Addresses and masks are four octets in network order.  The code takes   *)
(* them for uint32_t without converting them (in_addr_to_uint32), so on    *)
(* the little-endian machines it is built for the last octet is the most   *)
(* significant one when two masks are compared.  Masks come from the       *)
(* controller, whose ipaddress library only makes contiguous ones, so a    *)
(* mask is given by its prefix length.                                     *)
(***************************************************************************)
EXTENDS Integers, Sequences

CONSTANTS
  MaxEntries,  \* bound: the longest routing table considered
  Address,     \* the destinations looked up
  Entry        \* the routing table entries considered: [dest, plen]

Octets == 1..4
Octet == 0..255
PrefixLen == 0..32

(* How many of the leading p bits fall into octet k.                       *)
BitsIn(p, k) ==
  CASE p <= 8 * (k - 1) -> 0
    [] p >= 8 * k -> 8
    [] OTHER -> p - 8 * (k - 1)

Mask(p) == [k \in Octets |-> 256 - 2^(8 - BitsIn(p, k))]

(* a & m on octets, for an m whose ones come first.                        *)
and_octet(a, m) == a - (a % (256 - m))

And(a, m) == [k \in Octets |-> and_octet(a[k], m[k])]

(* m < n as little-endian unsigned integers.                               *)
mask_less(m, n) ==
  \E k \in Octets : m[k] < n[k] /\ \A j \in (k + 1)..4 : m[j] = n[j]

(* current_mask < entry_mask                                               *)
longer(p, q) == mask_less(Mask(p), Mask(q))

ASSUME TableAssumption ==
  /\ MaxEntries \in Nat
  /\ Address \subseteq [Octets -> Octet]
  /\ Entry \subseteq [dest: [Octets -> Octet], plen: PrefixLen]

(* The order in which the code compares masks is that of their lengths,    *)
(* for all 33 of them.                                                     *)
ASSUME MaskAssumption ==
  \A p, q \in PrefixLen : longer(p, q) <=> p < q

-----------------------------------------------------------------------------
VARIABLES
  table,   \* routing_table
  dst,     \* ip_hdr->dst
  i,       \* how many entries the loop has looked at
  result   \* position of the entry in result, 0 for NULL

vars == <<table, dst, i, result>>

(* Fault: the last octet is not compared.                                  *)
matches_three(e, d) ==
  \A k \in 1..3 : And(d, Mask(e.plen))[k] = e.dest[k]

matches(e, d) == And(d, Mask(e.plen)) = e.dest

Init ==
  /\ table \in UNION {[1..n -> Entry] : n \in 0..MaxEntries}
  /\ dst \in Address
  /\ i = 0 /\ result = 0

(* Fault: result is set to the entry after the matching one.               *)
look_one_off ==
  /\ i < Len(table)
  /\ i' = i + 1
  /\ result' = IF matches(table[i'], dst) /\ result = 0 THEN i' + 1 ELSE result
  /\ UNCHANGED <<table, dst>>

(* Fault: the masks are not compared, so that the last match wins.         *)
look_last_match ==
  /\ i < Len(table)
  /\ i' = i + 1
  /\ result' = IF matches(table[i'], dst) THEN i' ELSE result
  /\ UNCHANGED <<table, dst>>

(* One turn of the loop.                                                   *)
Look ==
  /\ i < Len(table)
  /\ i' = i + 1
  /\ result' = IF /\ matches(table[i'], dst)
                  /\ result # 0 => longer(table[result].plen, table[i'].plen)
               THEN i' ELSE result
  /\ UNCHANGED <<table, dst>>

Done == i = Len(table) /\ UNCHANGED vars

Next == Look \/ Done

Spec == Init /\ [][Next]_vars

-----------------------------------------------------------------------------
(* The bits of an address, from the most significant one of octet 1.       *)
Bit(a, b) == (a[(b - 1) \div 8 + 1] \div 2^(7 - ((b - 1) % 8))) % 2

(* Reference: a lies in the network of entry e.                            *)
Covers(e, a) == \A b \in 1..e.plen : Bit(a, b) = Bit(e.dest, b)

(* Reference: e has no bit behind its prefix.  ip_interface in topology.py *)
(* takes others too, and the controller sends them as they are.            *)
IsNetwork(e) == \A b \in (e.plen + 1)..32 : Bit(e.dest, b) = 0

(* Ranges: the loop counter and the position kept in result.               *)
TypeOK ==
  /\ table \in Seq(Entry) /\ dst \in Address
  /\ i \in 0..Len(table)
  /\ result \in 0..i

(* Longest-prefix matching: of the entries looked at, result is the        *)
(* matching one with the longest prefix, the first of them when several    *)
(* have it, and NULL only if none matches, although masks are compared as  *)
(* integers in the wrong byte order.                                       *)
BestMatch ==
  /\ result = 0 => \A k \in 1..i : ~matches(table[k], dst)
  /\ result # 0 =>
       /\ matches(table[result], dst)
       /\ \A k \in 1..i : matches(table[k], dst) =>
            \/ table[k].plen < table[result].plen
            \/ table[k].plen = table[result].plen /\ result <= k

(* An entry matches exactly when it is a network and the destination       *)
(* agrees with it in all the bits of the prefix: masking whole words tests *)
(* the right bits, and an entry with bits behind its prefix never matches. *)
MatchIsPrefix ==
  \A k \in 1..Len(table) :
    matches(table[k], dst) <=> Covers(table[k], dst) /\ IsNetwork(table[k])

=============================================================================
