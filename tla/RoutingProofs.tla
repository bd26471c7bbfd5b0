--------------------------- MODULE RoutingProofs ---------------------------
(***************************************************************************)
(* Longest-prefix matching for routing tables of any length.               *)
(***************************************************************************)
EXTENDS Routing, TLAPS

(* Before the first turn nothing has been looked at.                       *)
LEMMA RoutingInit == Init => TypeOK /\ BestMatch
  <1> SUFFICES ASSUME Init PROVE TypeOK /\ BestMatch
    OBVIOUS
  <1>1. PICK n \in 0..MaxEntries : table \in [1..n -> Entry]
    BY DEF Init
  <1>2. table \in Seq(Entry) /\ n \in Nat /\ Len(table) = n
    BY <1>1, TableAssumption
  <1> QED
    BY <1>2 DEF Init, TypeOK, BestMatch

(* A turn of the loop keeps result the best match of a longer prefix of    *)
(* the table: the new entry replaces it only if it matches and its mask is *)
(* greater, which is to say longer (MaskAssumption).                       *)
LEMMA LookStep == TypeOK /\ BestMatch /\ Look => TypeOK' /\ BestMatch'
  <1> SUFFICES ASSUME TypeOK, BestMatch, Look PROVE TypeOK' /\ BestMatch'
    OBVIOUS
  <1>1. /\ table \in Seq(Entry) /\ i \in Nat /\ Len(table) \in Nat /\ i < Len(table)
        /\ result \in 0..i /\ dst \in Address
        /\ i' = i + 1 /\ table' = table /\ dst' = dst
    BY DEF TypeOK, Look
  <1>2. PICK n \in 1..Len(table) : n = i + 1
    BY <1>1
  <1>3. \A k \in 1..Len(table) : table[k] \in Entry /\ table[k].plen \in PrefixLen
                                  /\ table[k].plen \in Nat
    <2>1. \A e \in Entry : e.plen \in PrefixLen /\ e.plen \in Nat
      <3>1. Entry \subseteq [dest: [Octets -> Octet], plen: PrefixLen]
        BY TableAssumption
      <3>2. \A e \in Entry : e.plen \in PrefixLen
        BY <3>1
      <3>3. \A p \in PrefixLen : p \in Nat
        BY DEF PrefixLen
      <3> QED BY <3>2, <3>3
    <2>2. \A k \in 1..Len(table) : table[k] \in Entry
      BY <1>1
    <2> QED
      BY <2>1, <2>2
  <1> DEFINE new == matches(table[n], dst) /\ (result # 0 => longer(table[result].plen, table[n].plen))
  <1>4. result' = IF new THEN n ELSE result
    BY <1>1, <1>2 DEF Look
  <1>5. \A k \in 1..n : k \in 1..i \/ k = n
    BY <1>1, <1>2
  <1>6. result # 0 => result \in 1..Len(table)
    BY <1>1
  <1>t. TypeOK'
    BY <1>1, <1>2, <1>4 DEF TypeOK
  <1>7. CASE new
    <2>1. result' = n /\ n # 0 /\ i' = n /\ matches(table[n], dst)
      BY <1>1, <1>2, <1>4, <1>7
    <2>2. ASSUME NEW k \in 1..i, matches(table[k], dst)
          PROVE  table[k].plen < table[n].plen
      <3>1. result # 0
        BY <2>2 DEF BestMatch
      <3>2. \/ table[k].plen < table[result].plen
            \/ table[k].plen = table[result].plen
        BY <2>2, <3>1 DEF BestMatch
      <3>3. table[result].plen < table[n].plen
        BY <3>1, <1>3, <1>6, <1>7, MaskAssumption
      <3>4. k \in 1..Len(table)
        BY <1>1
      <3> QED BY <3>1, <3>2, <3>3, <3>4, <1>3, <1>6
    <2>3. \A k \in 1..n : matches(table[k], dst) =>
            \/ table[k].plen < table[n].plen
            \/ table[k].plen = table[n].plen /\ n <= k
      BY <2>2, <1>5, <1>2, <1>1
    <2> HIDE DEF new
    <2> QED BY <2>1, <2>3, <1>1, <1>t DEF BestMatch
  <1>8. CASE ~new /\ result = 0
    <2>1. result' = 0 /\ ~matches(table[n], dst)
      BY <1>4, <1>8
    <2>2. \A k \in 1..i : ~matches(table[k], dst)
      BY <1>8 DEF BestMatch
    <2> HIDE DEF new
    <2> QED BY <2>1, <2>2, <1>1, <1>2, <1>5, <1>t DEF BestMatch
  <1>9. CASE ~new /\ result # 0
    <2>1. result' = result
      BY <1>4, <1>9
    <2>2. matches(table[n], dst) => ~(table[result].plen < table[n].plen)
      BY <1>9, <1>3, <1>6, MaskAssumption
    <2>3. matches(table[n], dst) =>
            \/ table[n].plen < table[result].plen
            \/ table[n].plen = table[result].plen /\ result <= n
      BY <2>2, <1>1, <1>2, <1>3, <1>6, <1>9
    <2>4. /\ matches(table[result], dst)
          /\ \A k \in 1..i : matches(table[k], dst) =>
               \/ table[k].plen < table[result].plen
               \/ table[k].plen = table[result].plen /\ result <= k
      BY <1>9 DEF BestMatch
    <2> HIDE DEF new
    <2> QED BY <2>1, <2>3, <2>4, <1>1, <1>2, <1>5, <1>9, <1>t DEF BestMatch
  <1> QED
    BY <1>7, <1>8, <1>9

(* The step relation as a whole.                                           *)
LEMMA RoutingStep == TypeOK /\ BestMatch /\ [Next]_vars => TypeOK' /\ BestMatch'
  <1> SUFFICES ASSUME TypeOK, BestMatch, [Next]_vars PROVE TypeOK' /\ BestMatch'
    OBVIOUS
  <1>1. CASE Look
    BY <1>1, LookStep
  <1>2. CASE UNCHANGED vars
    BY <1>2 DEF vars, TypeOK, BestMatch
  <1> QED
    BY <1>1, <1>2 DEF Next, Done

(* The loop counter and the kept position stay inside the table.           *)
THEOREM RoutingType == Spec => []TypeOK
  BY RoutingInit, RoutingStep, PTL DEF Spec

(* chirouter_get_matching_entry returns the longest match, the first of    *)
(* equals, for every routing table of contiguous masks.                    *)
THEOREM LongestPrefixMatch == Spec => []BestMatch
  BY RoutingInit, RoutingStep, PTL DEF Spec

-----------------------------------------------------------------------------
(* Bit j of an octet, from its most significant one, and what is in front  *)
(* of it and behind it.                                                    *)
OctetBit(x, j) == (x \div 2^(8 - j)) % 2
Front(x, j) == x \div 2^(8 - j)
Back(x, j) == x % 2^(8 - j)

LEMMA Powers ==
  /\ 2^(8 - 0) = 256 /\ 2^(8 - 1) = 128 /\ 2^(8 - 2) = 64 /\ 2^(8 - 3) = 32 /\ 2^(8 - 4) = 16
  /\ 2^(8 - 5) = 8 /\ 2^(8 - 6) = 4 /\ 2^(8 - 7) = 2 /\ 2^(8 - 8) = 1
  OBVIOUS

(* One bit moves from the back to the front.                               *)
LEMMA OneBit ==
  ASSUME NEW x \in Octet, NEW j \in 1..8
  PROVE  /\ OctetBit(x, j) \in {0, 1}
         /\ Front(x, j) = 2 * Front(x, j - 1) + OctetBit(x, j)
         /\ Back(x, j - 1) = 0 <=> Back(x, j) = 0 /\ OctetBit(x, j) = 0
         /\ Front(x, j) \in Nat /\ Front(x, j - 1) \in Nat
<1>0. x \in Int /\ 0 <= x /\ x <= 255
  BY DEF Octet
<1>1. CASE j = 1
  <2>1. /\ OctetBit(x, j) = (x \div 128) % 2 /\ Front(x, j) = x \div 128 /\ Back(x, j) = x % 128
        /\ Front(x, j - 1) = x \div 256 /\ Back(x, j - 1) = x % 256
    BY <1>1, Powers DEF OctetBit, Front, Back
  <2> QED
    BY <1>0, <2>1
<1>2. CASE j = 2
  <2>1. /\ OctetBit(x, j) = (x \div 64) % 2 /\ Front(x, j) = x \div 64 /\ Back(x, j) = x % 64
        /\ Front(x, j - 1) = x \div 128 /\ Back(x, j - 1) = x % 128
    BY <1>2, Powers DEF OctetBit, Front, Back
  <2> QED
    BY <1>0, <2>1
<1>3. CASE j = 3
  <2>1. /\ OctetBit(x, j) = (x \div 32) % 2 /\ Front(x, j) = x \div 32 /\ Back(x, j) = x % 32
        /\ Front(x, j - 1) = x \div 64 /\ Back(x, j - 1) = x % 64
    BY <1>3, Powers DEF OctetBit, Front, Back
  <2> QED
    BY <1>0, <2>1
<1>4. CASE j = 4
  <2>1. /\ OctetBit(x, j) = (x \div 16) % 2 /\ Front(x, j) = x \div 16 /\ Back(x, j) = x % 16
        /\ Front(x, j - 1) = x \div 32 /\ Back(x, j - 1) = x % 32
    BY <1>4, Powers DEF OctetBit, Front, Back
  <2> QED
    BY <1>0, <2>1
<1>5. CASE j = 5
  <2>1. /\ OctetBit(x, j) = (x \div 8) % 2 /\ Front(x, j) = x \div 8 /\ Back(x, j) = x % 8
        /\ Front(x, j - 1) = x \div 16 /\ Back(x, j - 1) = x % 16
    BY <1>5, Powers DEF OctetBit, Front, Back
  <2> QED
    BY <1>0, <2>1
<1>6. CASE j = 6
  <2>1. /\ OctetBit(x, j) = (x \div 4) % 2 /\ Front(x, j) = x \div 4 /\ Back(x, j) = x % 4
        /\ Front(x, j - 1) = x \div 8 /\ Back(x, j - 1) = x % 8
    BY <1>6, Powers DEF OctetBit, Front, Back
  <2> QED
    BY <1>0, <2>1
<1>7. CASE j = 7
  <2>1. /\ OctetBit(x, j) = (x \div 2) % 2 /\ Front(x, j) = x \div 2 /\ Back(x, j) = x % 2
        /\ Front(x, j - 1) = x \div 4 /\ Back(x, j - 1) = x % 4
    BY <1>7, Powers DEF OctetBit, Front, Back
  <2> QED
    BY <1>0, <2>1
<1>8. CASE j = 8
  <2>1. /\ OctetBit(x, j) = (x \div 1) % 2 /\ Front(x, j) = x \div 1 /\ Back(x, j) = x % 1
        /\ Front(x, j - 1) = x \div 2 /\ Back(x, j - 1) = x % 2
    BY <1>8, Powers DEF OctetBit, Front, Back
  <2> QED
    BY <1>0, <2>1
<1> QED
  BY <1>1, <1>2, <1>3, <1>4, <1>5, <1>6, <1>7, <1>8

(* The front of two octets is the same exactly when their first bits are;  *)
(* the back of one is zero exactly when its last bits are.                 *)
SameFront(a, d, n) == Front(a, n) = Front(d, n) <=> \A j \in 1..n : OctetBit(a, j) = OctetBit(d, j)
ZeroBack(d, n) == Back(d, n) = 0 <=> \A j \in (n + 1)..8 : OctetBit(d, j) = 0

LEMMA FrontStep ==
  ASSUME NEW a \in Octet, NEW d \in Octet, NEW n \in 1..8, SameFront(a, d, n - 1)
  PROVE  SameFront(a, d, n)
<1>1. Front(a, n) = Front(d, n) <=> Front(a, n - 1) = Front(d, n - 1) /\ OctetBit(a, n) = OctetBit(d, n)
  <2>1. /\ OctetBit(a, n) \in {0, 1} /\ Front(a, n) = 2 * Front(a, n - 1) + OctetBit(a, n)
        /\ OctetBit(d, n) \in {0, 1} /\ Front(d, n) = 2 * Front(d, n - 1) + OctetBit(d, n)
        /\ Front(a, n - 1) \in Nat /\ Front(d, n - 1) \in Nat
    BY OneBit
  <2> QED
    BY <2>1
<1>2. \A j : j \in 1..n <=> j \in 1..(n - 1) \/ j = n
  OBVIOUS
<1> QED
  BY <1>1, <1>2 DEF SameFront

LEMMA BackStep ==
  ASSUME NEW d \in Octet, NEW n \in 1..8, NEW m \in 0..7, n = m + 1, ZeroBack(d, n)
  PROVE  ZeroBack(d, m)
<1>1. Back(d, m) = 0 <=> Back(d, n) = 0 /\ OctetBit(d, n) = 0
  <2>1. n - 1 = m
    OBVIOUS
  <2> QED
    BY <2>1, OneBit
<1>2. \A j : j \in (m + 1)..8 <=> j \in (n + 1)..8 \/ j = n
  OBVIOUS
<1> QED
  BY <1>1, <1>2 DEF ZeroBack

LEMMA FrontAndBack ==
  ASSUME NEW a \in Octet, NEW d \in Octet, NEW n \in 0..8
  PROVE  SameFront(a, d, n) /\ ZeroBack(d, n)
<1>0. a \in Int /\ 0 <= a /\ a <= 255 /\ d \in Int /\ 0 <= d /\ d <= 255
  BY DEF Octet
<1>1. SameFront(a, d, 0)
  <2>1. Front(a, 0) = 0 /\ Front(d, 0) = 0
    BY <1>0, Powers DEF Front
  <2> QED
    BY <2>1 DEF SameFront
<1>2. ZeroBack(d, 8)
  <2>1. Back(d, 8) = 0
    BY <1>0, Powers DEF Back
  <2> QED
    BY <2>1 DEF ZeroBack
<1>3. \A m \in 1..8 : SameFront(a, d, m - 1) => SameFront(a, d, m)
  BY FrontStep
<1>4. \A m \in 0..7, l \in 1..8 : l = m + 1 /\ ZeroBack(d, l) => ZeroBack(d, m)
  BY BackStep
<1>5. /\ SameFront(a, d, 1) /\ SameFront(a, d, 2) /\ SameFront(a, d, 3) /\ SameFront(a, d, 4)
      /\ SameFront(a, d, 5) /\ SameFront(a, d, 6) /\ SameFront(a, d, 7) /\ SameFront(a, d, 8)
  BY <1>1, <1>3
<1>6. /\ ZeroBack(d, 7) /\ ZeroBack(d, 6) /\ ZeroBack(d, 5) /\ ZeroBack(d, 4)
      /\ ZeroBack(d, 3) /\ ZeroBack(d, 2) /\ ZeroBack(d, 1) /\ ZeroBack(d, 0)
  <2>1. ZeroBack(d, 7)
    BY <1>2, BackStep
  <2>2. ZeroBack(d, 6)
    BY <1>4, <2>1
  <2>3. ZeroBack(d, 5)
    BY <1>4, <2>2
  <2>4. ZeroBack(d, 4)
    BY <1>4, <2>3
  <2>5. ZeroBack(d, 3)
    BY <1>4, <2>4
  <2>6. ZeroBack(d, 2)
    BY <1>4, <2>5
  <2>7. ZeroBack(d, 1)
    BY <1>4, <2>6
  <2>8. ZeroBack(d, 0)
    BY <1>4, <2>7
  <2> QED
    BY <2>1, <2>2, <2>3, <2>4, <2>5, <2>6, <2>7, <2>8
<1>7. n \in {0, 1, 2, 3, 4, 5, 6, 7, 8}
  OBVIOUS
<1> QED
  BY <1>1, <1>2, <1>5, <1>6, <1>7

(* Masking one octet with n ones gives d exactly when d has the first n    *)
(* bits of a, and nothing behind them.                                     *)
OctetFits(n, a, d) ==
  and_octet(a, 256 - 2^(8 - n)) = d <=>
    /\ \A j \in 1..n : OctetBit(a, j) = OctetBit(d, j)
    /\ \A j \in (n + 1)..8 : OctetBit(d, j) = 0

LEMMA OctetMatch ==
  ASSUME NEW n \in 0..8, NEW a \in Octet, NEW d \in Octet
  PROVE  OctetFits(n, a, d)
<1>0. a \in Int /\ 0 <= a /\ a <= 255 /\ d \in Int /\ 0 <= d /\ d <= 255
  BY DEF Octet
<1>1. and_octet(a, 256 - 2^(8 - n)) = d <=> Front(a, n) = Front(d, n) /\ Back(d, n) = 0
  <2>1. ASSUME NEW p \in {1, 2, 4, 8, 16, 32, 64, 128, 256}
        PROVE  a - (a % (256 - (256 - p))) = d <=> a \div p = d \div p /\ d % p = 0
    BY <1>0, <2>1
  <2>2. 2^(8 - n) \in {1, 2, 4, 8, 16, 32, 64, 128, 256}
    <3>1. n \in {0, 1, 2, 3, 4, 5, 6, 7, 8}
      OBVIOUS
    <3>2. CASE n = 0
      BY <3>2, Powers
    <3>3. CASE n = 1
      BY <3>3, Powers
    <3>4. CASE n = 2
      BY <3>4, Powers
    <3>5. CASE n = 3
      BY <3>5, Powers
    <3>6. CASE n = 4
      BY <3>6, Powers
    <3>7. CASE n = 5
      BY <3>7, Powers
    <3>8. CASE n = 6
      BY <3>8, Powers
    <3>9. CASE n = 7
      BY <3>9, Powers
    <3>10. CASE n = 8
      BY <3>10, Powers
    <3> QED
      BY <3>1, <3>2, <3>3, <3>4, <3>5, <3>6, <3>7, <3>8, <3>9, <3>10
  <2> QED
    BY <2>1, <2>2 DEF and_octet, Front, Back
<1> QED
  BY <1>1, FrontAndBack DEF SameFront, ZeroBack, OctetFits

-----------------------------------------------------------------------------
(* Bit b of an address is a bit of one of its octets.                      *)
LEMMA BitOf ==
  ASSUME NEW a, NEW k \in Octets, NEW j \in 1..8
  PROVE  Bit(a, 8 * (k - 1) + j) = OctetBit(a[k], j)
<1> DEFINE b == 8 * (k - 1) + j
<1>1. k \in {1, 2, 3, 4}
  BY DEF Octets
<1>2. (b - 1) \div 8 + 1 = k /\ 7 - ((b - 1) % 8) = 8 - j
  BY <1>1
<1> QED
  BY <1>2 DEF Bit, OctetBit

(* Bit j of octet k belongs to the prefix exactly when j is one of the     *)
(* BitsIn of that octet.                                                   *)
LEMMA BitsInOctet ==
  ASSUME NEW p \in PrefixLen, NEW k \in Octets
  PROVE  /\ BitsIn(p, k) \in 0..8
         /\ \A j \in 1..8 : j <= BitsIn(p, k) <=> 8 * (k - 1) + j <= p
<1>1. k \in {1, 2, 3, 4} /\ p \in Nat
  BY DEF Octets, PrefixLen
<1>2. BitsIn(p, k) = IF p <= 8 * (k - 1) THEN 0 ELSE IF p >= 8 * k THEN 8 ELSE p - 8 * (k - 1)
  BY <1>1 DEF BitsIn
<1> QED
  BY <1>1, <1>2

(* Every bit of an address is bit j of octet k.                            *)
LEMMA BitPosition ==
  ASSUME NEW b \in 1..32
  PROVE  \E k \in Octets, j \in 1..8 : b = 8 * (k - 1) + j
<1>1. CASE b <= 8
  <2>1. 1 \in Octets /\ b \in 1..8 /\ b = 8 * (1 - 1) + b
    BY <1>1 DEF Octets
  <2> QED
    BY <2>1
<1>2. CASE 8 < b /\ b <= 16
  <2>1. 2 \in Octets /\ b - 8 \in 1..8 /\ b = 8 * (2 - 1) + (b - 8)
    BY <1>2 DEF Octets
  <2> QED
    BY <2>1
<1>3. CASE 16 < b /\ b <= 24
  <2>1. 3 \in Octets /\ b - 16 \in 1..8 /\ b = 8 * (3 - 1) + (b - 16)
    BY <1>3 DEF Octets
  <2> QED
    BY <2>1
<1>4. CASE 24 < b
  <2>1. 4 \in Octets /\ b - 24 \in 1..8 /\ b = 8 * (4 - 1) + (b - 24)
    BY <1>4 DEF Octets
  <2> QED
    BY <2>1
<1> QED
  BY <1>1, <1>2, <1>3, <1>4

(* What the code computes is what the reference says.                      *)
LEMMA MatchMeansPrefix ==
  ASSUME NEW e \in [dest: [Octets -> Octet], plen: PrefixLen], NEW d \in [Octets -> Octet]
  PROVE  matches(e, d) <=> Covers(e, d) /\ IsNetwork(e)
<1> DEFINE p == e.plen
           n(k) == BitsIn(p, k)
           OK(k) == /\ \A j \in 1..n(k) : OctetBit(d[k], j) = OctetBit(e.dest[k], j)
                    /\ \A j \in (n(k) + 1)..8 : OctetBit(e.dest[k], j) = 0
<1>0. p \in PrefixLen /\ p \in 0..32 /\ e.dest \in [Octets -> Octet]
  BY DEF PrefixLen
<1>1. matches(e, d) <=> \A k \in Octets : and_octet(d[k], 256 - 2^(8 - n(k))) = e.dest[k]
  BY <1>0 DEF matches, And, Mask
<1>2. \A k \in Octets : and_octet(d[k], 256 - 2^(8 - n(k))) = e.dest[k] <=> OK(k)
  <2> TAKE k \in Octets
  <2>1. n(k) \in 0..8 /\ d[k] \in Octet /\ e.dest[k] \in Octet
    BY <1>0, BitsInOctet
  <2>2. OctetFits(n(k), d[k], e.dest[k])
    BY <2>1, OctetMatch
  <2> QED
    BY <2>2 DEF OctetFits
<1>3. \A k \in Octets : n(k) \in 0..8 /\ \A j \in 1..8 : j <= n(k) <=> 8 * (k - 1) + j <= p
  BY <1>0, BitsInOctet
<1>4. \A k \in Octets, j \in 1..8 :
        /\ Bit(d, 8 * (k - 1) + j) = OctetBit(d[k], j)
        /\ Bit(e.dest, 8 * (k - 1) + j) = OctetBit(e.dest[k], j)
  BY BitOf
<1>5. ASSUME \A k \in Octets : OK(k)
      PROVE  Covers(e, d) /\ IsNetwork(e)
  <2>1. ASSUME NEW b \in 1..32
        PROVE  /\ b <= p => Bit(d, b) = Bit(e.dest, b)
               /\ b > p => Bit(e.dest, b) = 0
    <3>1. PICK k \in Octets, j \in 1..8 : b = 8 * (k - 1) + j
      BY BitPosition
    <3>2. n(k) \in 0..8 /\ (j <= n(k) <=> b <= p)
      BY <1>3, <3>1
    <3>3. Bit(d, b) = OctetBit(d[k], j) /\ Bit(e.dest, b) = OctetBit(e.dest[k], j)
      BY <1>4, <3>1
    <3>4. CASE b <= p
      <4>1. j \in 1..n(k)
        BY <3>2, <3>4
      <4> QED
        BY <1>0, <1>5, <3>3, <3>4, <4>1
    <3>5. CASE b > p
      <4>1. j \in (n(k) + 1)..8
        BY <1>0, <3>2, <3>5
      <4> QED
        BY <1>0, <1>5, <3>3, <3>5, <4>1
    <3> QED
      BY <1>0, <3>4, <3>5
  <2>2. Covers(e, d)
    BY <1>0, <2>1 DEF Covers
  <2>3. IsNetwork(e)
    BY <1>0, <2>1 DEF IsNetwork
  <2> QED
    BY <2>2, <2>3
<1>6. ASSUME Covers(e, d), IsNetwork(e), NEW k \in Octets
      PROVE  OK(k)
  <2>0. n(k) \in 0..8 /\ k \in 1..4
    BY <1>3 DEF Octets
  <2>1. ASSUME NEW j \in 1..n(k)
        PROVE  OctetBit(d[k], j) = OctetBit(e.dest[k], j)
    <3>1. j \in 1..8 /\ j <= n(k)
      BY <2>0
    <3>2. 8 * (k - 1) + j \in 1..p
      BY <1>0, <1>3, <2>0, <3>1
    <3> QED
      BY <1>4, <1>6, <3>1, <3>2 DEF Covers
  <2>2. ASSUME NEW j \in (n(k) + 1)..8
        PROVE  OctetBit(e.dest[k], j) = 0
    <3>1. j \in 1..8 /\ ~(j <= n(k))
      BY <2>0
    <3>2. 8 * (k - 1) + j \in (p + 1)..32
      BY <1>0, <1>3, <2>0, <3>1
    <3> QED
      BY <1>4, <1>6, <3>1, <3>2 DEF IsNetwork
  <2> QED
    BY <2>1, <2>2
<1> HIDE DEF OK
<1> QED
  BY <1>1, <1>2, <1>5, <1>6

(* Masking whole words tests exactly the bits of the prefix, for every     *)
(* address and every entry, and an entry that is no network never matches. *)
THEOREM MatchingTestsThePrefix == Spec => []MatchIsPrefix
<1>1. TypeOK => MatchIsPrefix
  <2> SUFFICES ASSUME TypeOK, NEW k \in 1..Len(table)
               PROVE  matches(table[k], dst) <=> Covers(table[k], dst) /\ IsNetwork(table[k])
    BY DEF MatchIsPrefix
  <2>1. table[k] \in Entry /\ dst \in Address
    BY DEF TypeOK
  <2>2. table[k] \in [dest: [Octets -> Octet], plen: PrefixLen] /\ dst \in [Octets -> Octet]
    BY <2>1, TableAssumption
  <2> QED
    BY <2>2, MatchMeansPrefix
<1> QED
  BY <1>1, RoutingType, PTL
=============================================================================
