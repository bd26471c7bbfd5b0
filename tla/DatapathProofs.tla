--------------------------- MODULE DatapathProofs ---------------------------
(***************************************************************************)
(* Proofs about Datapath: the flow table stays in order, without           *)
(* duplicates and within its timeouts, a buffer holds the announced frame, *)
(* the controller knows the ports, and every removal is reported once, for *)
(* all ports, sizes, frames and messages.                                  *)
(***************************************************************************)
EXTENDS Datapath, FiniteSetTheorems, SequenceTheorems, WellFoundedInduction, TLAPS

-----------------------------------------------------------------------------
(* The inductive invariant                                                 *)

EntryT ==
  [match: {fix(fm.match) : fm \in peers.flow_mods}, priority: Nat,
   actions: {fm.actions : fm \in peers.flow_mods}, idle: Nat, hard: Nat, rem: BOOLEAN,
   age: Nat, untouched: Nat]

(* A slot is free or holds a frame with its port.                          *)
Slot(b) == b = Free \/ ("id" \in DOMAIN b.packet /\ b.in_port \in PortNos \cup {NONE})

Slots(b) ==
  /\ b \in Seq({b[i] : i \in DOMAIN b}) /\ Len(b) <= MaxBuffers
  /\ \A i \in DOMAIN b : Slot(b[i])

Sorted(t) ==
  \A i, j \in DOMAIN t : i < j => effective_priority(t[j]) <= effective_priority(t[i])

Unique(t) ==
  \A i, j \in DOMAIN t : t[i].match = t[j].match /\ t[i].priority = t[j].priority => i = j

(* While the timer runs, an entry is over its time by no more than the     *)
(* timer has run.                                                          *)
InTime(t, tm) ==
  \A i \in DOMAIN t :
    /\ t[i].hard > 0 => t[i].age <= t[i].hard + (Period - tm)
    /\ t[i].idle > 0 => t[i].untouched <= t[i].idle + (Period - tm)

TableInv(t, tm) ==
  t \in Seq(EntryT) /\ Len(t) <= MaxEntries /\ Sorted(t) /\ Unique(t) /\ InTime(t, tm)

PortsInv ==
  /\ DOMAIN ports \subseteq PortNos /\ DOMAIN ports \subseteq port_stats
  /\ ports = [n \in DOMAIN ports |-> [config |-> ports[n].config, link_down |-> ports[n].link_down]]

Types ==
  /\ peers \in Peers /\ PortsInv /\ Slots(buffer)
  /\ timer \in 0..Period /\ frag_drop \in BOOLEAN
  /\ conn \in [up : BOOLEAN, hello : BOOLEAN, starting : BOOLEAN]

IInv == Types /\ TableInv(table, timer) /\ BufferHonest /\ ControllerKnowsPorts

-----------------------------------------------------------------------------
(* A non-empty set of positions has a first and a last one.                *)
LEMMA FirstPlace ==
  ASSUME NEW T, T \subseteq Nat, T # {}
  PROVE  \E x \in T : \A y \in T : x <= y
<1> DEFINE Less == {p \in Nat \X Nat : p[1] < p[2]}
<1>1. OpToRel(<, Nat) = Less
  BY DEF OpToRel
<1>2. IsWellFoundedOn(Less, Nat)
  BY <1>1, NatLessThanWellFounded
<1> HIDE DEF Less
<1>3. PICK x \in T : \A y \in T : ~(<<y, x>> \in Less)
  BY <1>2, WFMin
<1>4. \A y \in T : ~(y < x)
  BY <1>3 DEF Less
<1>5. QED
  BY <1>4

LEMMA LastPlace ==
  ASSUME NEW n \in Nat, NEW T, T \subseteq 1..n, T # {}
  PROVE  \E x \in T : \A y \in T : y <= x
<1> DEFINE U == {k \in 0..n : n - k \in T}
<1>1. U \subseteq Nat /\ U # {}
  <2>1. PICK y \in T : TRUE
    OBVIOUS
  <2>2. n - y \in 0..n /\ n - (n - y) = y
    OBVIOUS
  <2>3. n - y \in U
    BY <2>1, <2>2
  <2>4. U \subseteq Nat
    OBVIOUS
  <2> HIDE DEF U
  <2>5. QED
    BY <2>3, <2>4
<1>2. PICK u \in U : \A v \in U : u <= v
  BY <1>1, FirstPlace
<1>3. \A y \in T : y <= n - u
  <2> TAKE y \in T
  <2>1. n - y \in U
    <3>1. n - y \in 0..n /\ n - (n - y) = y
      OBVIOUS
    <3>2. QED
      BY <3>1
  <2>2. u <= n - y
    BY <2>1, <1>2
  <2>3. QED
    BY <2>2, <1>2
<1>4. QED
  BY <1>2, <1>3

(* The places of a part of a table can be put in order.                    *)
Ordered(f, S) ==
  /\ f \in [1..Cardinality(S) -> S]
  /\ \A i \in S : \E k \in DOMAIN f : f[k] = i
  /\ \A j, k \in DOMAIN f : j < k => f[j] < f[k]

LEMMA OrderStep ==
  ASSUME NEW k \in Nat, NEW S \in SUBSET (1..(k + 1)), k + 1 \in S,
         NEW f, Ordered(f, S \ {k + 1})
  PROVE  \E g : Ordered(g, S)
<1> DEFINE R == S \ {k + 1}
<1> DEFINE c == Cardinality(R)
<1>0. IsFiniteSet(1..(k + 1))
  BY FS_Interval
<1>1. IsFiniteSet(S) /\ R \in SUBSET (1..k)
  <2>1. R \in SUBSET (1..k)
    OBVIOUS
  <2>2. IsFiniteSet(S)
    BY <1>0, FS_Subset
  <2>3. QED
    BY <2>1, <2>2
<1>2. IsFiniteSet(R)
  BY <1>1, FS_Subset
<1>3. c \in Nat /\ Cardinality(S) \in Nat
  BY <1>1, <1>2, FS_CardinalityType
<1>4. Cardinality(R) = Cardinality(S) - 1
  BY <1>1, FS_RemoveElement
<1>5. Cardinality(S) = c + 1
  BY <1>3, <1>4
<1> DEFINE g == [x \in 1..(c + 1) |-> IF x = c + 1 THEN k + 1 ELSE f[x]]
<1>6. f \in [1..c -> R] /\ (\A i \in R : \E x \in 1..c : f[x] = i)
      /\ (\A i, j \in 1..c : i < j => f[i] < f[j])
  BY DEF Ordered
<1> HIDE DEF c, R
<1>7. \A x \in 1..(c + 1) : x # c + 1 => x \in 1..c
  BY <1>3
<1>8. R \subseteq S /\ \A i \in S : i = k + 1 \/ i \in R
  BY DEF R
<1>9. g \in [1..(c + 1) -> S]
  BY <1>6, <1>7, <1>8
<1>10. \A i \in S : \E x \in 1..(c + 1) : g[x] = i
  <2> TAKE i \in S
  <2>1. CASE i = k + 1
    BY <2>1, <1>3
  <2>2. CASE i \in R
    <3>1. PICK x \in 1..c : f[x] = i
      BY <2>2, <1>6
    <3>2. x \in 1..(c + 1) /\ x # c + 1
      BY <1>3
    <3>3. QED
      BY <3>1, <3>2
  <2>3. QED
    BY <2>1, <2>2, <1>8
<1>11. ASSUME NEW i \in 1..(c + 1), NEW j \in 1..(c + 1), i < j
       PROVE  g[i] < g[j]
  <2>1. i \in 1..c
    BY <1>3, <1>11
  <2>2. f[i] \in 1..k
    BY <2>1, <1>6, <1>1
  <2>3. CASE j = c + 1
    BY <2>1, <2>2, <2>3, <1>11
  <2>4. CASE j \in 1..c
    BY <2>1, <2>4, <1>6, <1>3, <1>11
  <2>5. QED
    BY <2>3, <2>4, <1>7
<1>12. DOMAIN g = 1..(c + 1)
  OBVIOUS
<1> HIDE DEF g
<1>13. Ordered(g, S)
  BY <1>9, <1>10, <1>11, <1>12, <1>5 DEF Ordered
<1>14. QED
  BY <1>13

LEMMA OrderExists ==
  ASSUME NEW n \in Nat, NEW S \in SUBSET (1..n)
  PROVE  \E f : Ordered(f, S)
<1> DEFINE Good(k) == \A T \in SUBSET (1..k) : \E f : Ordered(f, T)
<1> DEFINE Bad == {k \in Nat : ~Good(k)}
<1>1. SUFFICES Bad = {}
  <2>1. Good(n)
    BY <1>1
  <2>2. QED
    BY <2>1
<1>2. SUFFICES ASSUME Bad # {}
      PROVE  FALSE
  OBVIOUS
<1>3. Bad \subseteq Nat
  OBVIOUS
<1>4. PICK k \in Bad : \A y \in Bad : k <= y
  BY <1>2, <1>3, FirstPlace
<1>5. Good(0)
  <2> SUFFICES ASSUME NEW T \in SUBSET (1..0)
               PROVE  \E f : Ordered(f, T)
    OBVIOUS
  <2>1. T = {}
    OBVIOUS
  <2>2. Cardinality(T) = 0
    BY <2>1, FS_EmptySet
  <2> DEFINE f == [x \in 1..0 |-> x]
  <2>3. f \in [1..0 -> {}] /\ DOMAIN f = 1..0 /\ 1..0 = {}
    OBVIOUS
  <2> HIDE DEF f
  <2>4. Ordered(f, T)
    BY <2>1, <2>2, <2>3 DEF Ordered
  <2>5. QED
    BY <2>4
<1>6. k \in Nat /\ ~Good(k)
  OBVIOUS
<1>7. k # 0
  BY <1>5, <1>6
<1>8. k - 1 \in Nat /\ (k - 1) + 1 = k /\ ~(k <= k - 1)
  BY <1>6, <1>7
<1>9. Good(k - 1)
  BY <1>4, <1>8
<1>10. PICK T \in SUBSET (1..k) : ~\E f : Ordered(f, T)
  BY <1>6
<1> HIDE DEF Bad
<1>11. CASE k \in T
  <2>1. T \ {k} \in SUBSET (1..(k - 1))
    BY <1>6, <1>7
  <2>2. PICK f : Ordered(f, T \ {k})
    BY <2>1, <1>9
  <2>3. T \in SUBSET (1..((k - 1) + 1)) /\ (k - 1) + 1 \in T /\ Ordered(f, T \ {(k - 1) + 1})
    BY <1>8, <1>11, <2>2
  <2>4. QED
    BY <2>3, <1>8, <1>10, OrderStep
<1>12. CASE k \notin T
  <2>1. T \in SUBSET (1..(k - 1))
    BY <1>6, <1>7, <1>12
  <2>2. QED
    BY <2>1, <1>9, <1>10
<1>13. QED
  BY <1>11, <1>12

LEMMA InOrder ==
  ASSUME NEW n \in Nat, NEW S \in SUBSET (1..n)
  PROVE  /\ Ordered(in_order(S), S)
         /\ Cardinality(S) \in 0..n /\ (S # 1..n => Cardinality(S) < n)
<1>1. PICK f : Ordered(f, S)
  BY OrderExists
<1>2. Ordered(in_order(S), S)
  BY <1>1 DEF Ordered, in_order
<1>3. IsFiniteSet(1..n) /\ Cardinality(1..n) = n
  BY FS_Interval
<1>4. IsFiniteSet(S) /\ Cardinality(S) <= n /\ (n = Cardinality(S) => 1..n = S)
  BY <1>3, FS_Subset
<1>5. Cardinality(S) \in Nat
  BY <1>4, FS_CardinalityType
<1>6. QED
  BY <1>2, <1>4, <1>5

-----------------------------------------------------------------------------
(* Operators of the flow table                                             *)

(* What is kept of a table: its entries at the other places, in the same   *)
(* order.  at says where an entry was.                                     *)
Kept(u, t, S, at) ==
  /\ DOMAIN u = 1..Cardinality(S)
  /\ at \in [1..Cardinality(S) -> S]
  /\ \A i \in S : \E k \in DOMAIN u : at[k] = i
  /\ \A j, k \in DOMAIN u : j < k => at[j] < at[k]
  /\ \A k \in DOMAIN u : u[k] = t[at[k]]

LEMMA KeepFacts ==
  ASSUME NEW E, NEW t \in Seq(E), NEW gone
  PROVE  /\ \E at : Kept(keep(t, gone), t, DOMAIN t \ gone, at)
         /\ keep(t, gone) \in Seq(E)
         /\ Len(keep(t, gone)) = Cardinality(DOMAIN t \ gone)
         /\ Len(keep(t, gone)) <= Len(t)
         /\ gone \cap DOMAIN t # {} => Len(keep(t, gone)) < Len(t)
<1> DEFINE S == DOMAIN t \ gone
<1> DEFINE u == keep(t, gone)
<1> DEFINE at == in_order(S)
<1>1. Len(t) \in Nat /\ DOMAIN t = 1..Len(t) /\ S \in SUBSET (1..Len(t))
  OBVIOUS
<1>2. Ordered(at, S) /\ Cardinality(S) \in 0..Len(t)
      /\ (S # 1..Len(t) => Cardinality(S) < Len(t))
  BY <1>1, InOrder
<1>3. u = [k \in DOMAIN at |-> t[at[k]]]
  BY DEF keep
<1>4. DOMAIN at = 1..Cardinality(S) /\ at \in [1..Cardinality(S) -> S]
  BY <1>2 DEF Ordered
<1>5. gone \cap DOMAIN t # {} => S # 1..Len(t)
  BY <1>1
<1>6. S \subseteq DOMAIN t
  OBVIOUS
<1>7. \A k \in 1..Cardinality(S) : at[k] \in DOMAIN t /\ t[at[k]] \in E
  <2> HIDE DEF at, S
  <2> TAKE k \in 1..Cardinality(S)
  <2>1. at[k] \in DOMAIN t
    BY <1>4, <1>6
  <2>2. QED
    BY <2>1
<1> HIDE DEF u, at, S
<1>8. Kept(u, t, S, at)
  BY <1>2, <1>3, <1>4 DEF Kept, Ordered
<1>9. u \in [1..Cardinality(S) -> E]
  BY <1>3, <1>4, <1>7
<1>10. u \in Seq(E) /\ Len(u) = Cardinality(S)
  BY <1>9, <1>2
<1>11. \E x : Kept(u, t, S, x)
  BY <1>8
<1>12. QED
  BY <1>11, <1>10, <1>2, <1>5 DEF u, S

(* The entry inserted after the k-th.                                      *)
Inserted(u, t, k, e) ==
  /\ Len(u) = Len(t) + 1
  /\ \A i \in 1..k : u[i] = t[i]
  /\ u[k + 1] = e
  /\ \A i \in (k + 2)..(Len(t) + 1) : u[i] = t[i - 1]

LEMMA InsertFacts ==
  ASSUME NEW E, NEW t \in Seq(E), NEW e \in E, NEW k \in 0..Len(t)
  PROVE  InsertAt(t, k + 1, e) \in Seq(E) /\ Inserted(InsertAt(t, k + 1, e), t, k, e)
<1> DEFINE a == SubSeq(t, 1, k)
<1> DEFINE b == SubSeq(t, k + 1, Len(t))
<1> DEFINE c == a \o <<e>>
<1>1. Len(t) \in Nat /\ k \in Nat
  OBVIOUS
<1>2. a \in Seq(E) /\ Len(a) = k /\ \A i \in 1..k : a[i] = t[i]
  BY <1>1
<1>3. b \in Seq(E) /\ Len(b) = Len(t) - k /\ \A i \in 1..(Len(t) - k) : b[i] = t[k + i]
  BY <1>1
<1>4. InsertAt(t, k + 1, e) = c \o b
  <2>1. (k + 1) - 1 = k
    BY <1>1
  <2>2. QED
    BY <2>1, Zenon DEF InsertAt
<1> HIDE DEF a, b
<1>5. c \in Seq(E) /\ Len(c) = k + 1 /\ c[k + 1] = e /\ \A i \in 1..k : c[i] = t[i]
  BY <1>1, <1>2
<1> HIDE DEF c
<1>6. c \o b \in Seq(E) /\ Len(c \o b) = Len(t) + 1
  <2>1. c \o b \in Seq(E) /\ Len(c \o b) = Len(c) + Len(b)
    BY <1>3, <1>5, ConcatProperties
  <2>2. QED
    BY <2>1, <1>1, <1>3, <1>5
<1>7. \A i \in 1..(k + 1) : (c \o b)[i] = c[i]
  BY <1>1, <1>3, <1>5
<1>8. \A i \in (k + 2)..(Len(t) + 1) : (c \o b)[i] = b[i - (k + 1)] /\ i - (k + 1) \in 1..(Len(t) - k)
  BY <1>1, <1>3, <1>5
<1>9. \A i \in (k + 2)..(Len(t) + 1) : (c \o b)[i] = t[i - 1]
  <2> TAKE i \in (k + 2)..(Len(t) + 1)
  <2>1. b[i - (k + 1)] = t[k + (i - (k + 1))]
    BY <1>3, <1>8
  <2>2. k + (i - (k + 1)) = i - 1
    BY <1>1
  <2>3. QED
    BY <2>1, <2>2, <1>8
<1>10. (c \o b)[k + 1] = e /\ \A i \in 1..k : (c \o b)[i] = t[i]
  BY <1>1, <1>5, <1>7
<1>11. QED
  BY <1>4, <1>6, <1>9, <1>10 DEF Inserted

(* The first place at which a set of places has one.                       *)
LEMMA MinFacts ==
  ASSUME NEW S, S \subseteq Nat, S # {}
  PROVE  Min(S) \in S /\ \A y \in S : Min(S) <= y
<1>1. \E x \in S : \A y \in S : x =< y
  BY FirstPlace
<1>2. QED
  BY <1>1 DEF Min

LEMMA MaxFacts ==
  ASSUME NEW n \in Nat, NEW S, S \subseteq 1..n, S # {}
  PROVE  Max(S) \in S
<1>1. \E x \in S : \A y \in S : y <= x
  BY LastPlace
<1>2. \E x \in S : \A y \in S : x >= y
  BY <1>1
<1>3. QED
  BY <1>2 DEF Max

(* The binary search of add_entry ends at the first place from l to h      *)
(* whose entry does not have a higher priority.                            *)
Stops(r, t, priority, l, h) ==
  /\ r \in l..h
  /\ r = h \/ priority >= effective_priority(t[r + 1])
  /\ \A j \in l..(r - 1) : priority < effective_priority(t[j + 1])

Ranked(t) == \A j \in 1..Len(t) : effective_priority(t[j]) \in Int

Halves(g, t, priority) ==
  g = [w \in (0..Len(t)) \X (0..Len(t)) |->
        IF w[1] >= w[2] THEN w[1]
        ELSE IF priority >= effective_priority(t[(w[1] + w[2]) \div 2 + 1])
             THEN g[<<w[1], (w[1] + w[2]) \div 2>>] ELSE g[<<(w[1] + w[2]) \div 2 + 1, w[2]>>]]

LEMMA Middle ==
  ASSUME NEW l \in Nat, NEW h \in Nat, l < h
  PROVE  (l + h) \div 2 \in Nat /\ l <= (l + h) \div 2 /\ (l + h) \div 2 < h
OBVIOUS

LEMMA StopsOnce ==
  ASSUME NEW t, Ranked(t), Len(t) \in Nat, NEW priority \in Int, NEW l \in 0..Len(t), NEW h \in 0..Len(t),
         NEW r, NEW s, Stops(r, t, priority, l, h), Stops(s, t, priority, l, h)
  PROVE  r = s
<1>1. r \in Nat /\ s \in Nat /\ r <= h /\ s <= h /\ l <= r /\ l <= s /\ h <= Len(t)
  BY DEF Stops
<1>2. ASSUME NEW x \in Nat, NEW y \in Nat, x < y, l <= x, y <= h,
             Stops(x, t, priority, l, h), Stops(y, t, priority, l, h)
      PROVE  FALSE
  <2>1. x \in l..(y - 1) /\ x # h /\ x + 1 \in 1..Len(t)
    BY <1>1, <1>2
  <2>2. priority < effective_priority(t[x + 1])
    BY <2>1, <1>2 DEF Stops
  <2>3. priority >= effective_priority(t[x + 1])
    BY <2>1, <1>2 DEF Stops
  <2>4. effective_priority(t[x + 1]) \in Int
    BY <2>1 DEF Ranked
  <2>5. QED
    BY <2>2, <2>3, <2>4
<1>3. r < s \/ s < r \/ r = s
  BY <1>1
<1>4. QED
  BY <1>1, <1>2, <1>3

LEMMA StopsHalf ==
  ASSUME NEW t, Ranked(t), Len(t) \in Nat, DOMAIN t = 1..Len(t), Sorted(t), NEW priority \in Int,
         NEW l \in 0..Len(t), NEW h \in 0..Len(t), NEW m \in Nat, l <= m, m < h, NEW r
  PROVE  /\ priority >= effective_priority(t[m + 1]) /\ Stops(r, t, priority, l, m)
              => Stops(r, t, priority, l, h)
         /\ ~(priority >= effective_priority(t[m + 1])) /\ Stops(r, t, priority, m + 1, h)
              => Stops(r, t, priority, l, h)
<1>1. m + 1 \in 1..Len(t) /\ l \in Nat /\ h \in Nat
  OBVIOUS
<1>2. ASSUME priority >= effective_priority(t[m + 1]), Stops(r, t, priority, l, m)
      PROVE  Stops(r, t, priority, l, h)
  <2>1. r \in l..h
    BY <1>1, <1>2 DEF Stops
  <2>2. priority >= effective_priority(t[r + 1])
    BY <1>2 DEF Stops
  <2>3. QED
    BY <2>1, <2>2, <1>2 DEF Stops
<1>3. ASSUME ~(priority >= effective_priority(t[m + 1])), Stops(r, t, priority, m + 1, h)
      PROVE  Stops(r, t, priority, l, h)
  <2>1. r \in l..h /\ r \in Nat
    BY <1>1, <1>3 DEF Stops
  <2>2. ASSUME NEW j \in l..(r - 1)
        PROVE  priority < effective_priority(t[j + 1])
    <3>1. CASE j > m
      <4>1. j \in (m + 1)..(r - 1)
        BY <3>1, <2>1, <1>1
      <4>2. QED
        BY <4>1, <1>3 DEF Stops
    <3>2. CASE j <= m
      <4>1. j + 1 \in 1..Len(t) /\ (j + 1 < m + 1 \/ j = m)
        BY <3>2, <1>1
      <4>2. effective_priority(t[m + 1]) <= effective_priority(t[j + 1])
        BY <4>1, <1>1 DEF Sorted, Ranked
      <4>3. effective_priority(t[m + 1]) \in Int /\ effective_priority(t[j + 1]) \in Int
        BY <4>1, <1>1 DEF Ranked
      <4>4. QED
        BY <4>2, <4>3, <1>3
    <3>3. QED
      BY <3>1, <3>2, <2>1, <1>1
  <2>3. QED
    BY <2>1, <2>2, <1>3 DEF Stops
<1>4. QED
  BY <1>2, <1>3

(* Where the search stops, as a function that satisfies its recursion.     *)
LEMMA StopExists ==
  ASSUME NEW t, Ranked(t), Len(t) \in Nat, NEW priority \in Int,
         NEW l \in 0..Len(t), NEW h \in 0..Len(t), l <= h
  PROVE  \E r : Stops(r, t, priority, l, h)
<1> DEFINE S == {r \in l..h : r = h \/ priority >= effective_priority(t[r + 1])}
<1>1. h \in S /\ S \subseteq Nat
  OBVIOUS
<1>2. PICK r \in S : \A y \in S : r <= y
  BY <1>1, FirstPlace
<1>3. ASSUME NEW j \in l..(r - 1)
      PROVE  priority < effective_priority(t[j + 1])
  <2>1. j \in l..h /\ j # h /\ ~(r <= j) /\ j + 1 \in 1..Len(t)
    BY <1>2
  <2>2. ~(priority >= effective_priority(t[j + 1]))
    BY <2>1, <1>2
  <2>3. effective_priority(t[j + 1]) \in Int
    BY <2>1 DEF Ranked
  <2>4. QED
    BY <2>2, <2>3
<1>4. QED
  BY <1>2, <1>3 DEF Stops

LEMMA HalvesExists ==
  ASSUME NEW t, Ranked(t), Len(t) \in Nat, DOMAIN t = 1..Len(t), Sorted(t), NEW priority \in Int
  PROVE  \E g : Halves(g, t, priority)
<1> DEFINE Dom == (0..Len(t)) \X (0..Len(t))
<1> DEFINE at(l, h) == CHOOSE r : Stops(r, t, priority, l, h)
<1> DEFINE g == [w \in Dom |-> IF w[1] >= w[2] THEN w[1] ELSE at(w[1], w[2])]
<1>1. ASSUME NEW l \in 0..Len(t), NEW h \in 0..Len(t), l <= h
      PROVE  Stops(g[<<l, h>>], t, priority, l, h)
  <2>1. g[<<l, h>>] = IF l >= h THEN l ELSE at(l, h)
    <3> DEFINE w == <<l, h>>
    <3>1. w \in Dom /\ w[1] = l /\ w[2] = h
      OBVIOUS
    <3> HIDE DEF w, at, Dom
    <3>2. g[w] = IF w[1] >= w[2] THEN w[1] ELSE at(w[1], w[2])
      BY <3>1
    <3>3. QED
      BY <3>1, <3>2 DEF w
  <2>2. Stops(at(l, h), t, priority, l, h)
    BY <1>1, StopExists
  <2>3. CASE l = h
    BY <2>1, <2>3 DEF Stops
  <2>4. CASE l < h
    BY <2>1, <2>2, <2>4
  <2>5. QED
    BY <1>1, <2>3, <2>4
<1>2. ASSUME NEW l \in 0..Len(t), NEW h \in 0..Len(t), l < h
      PROVE  g[<<l, h>>] = IF priority >= effective_priority(t[(l + h) \div 2 + 1])
                           THEN g[<<l, (l + h) \div 2>>] ELSE g[<<(l + h) \div 2 + 1, h>>]
  <2> DEFINE m == (l + h) \div 2
  <2>1. m \in Nat /\ l <= m /\ m < h /\ l \in Nat /\ h \in Nat /\ h <= Len(t)
    BY <1>2, Middle
  <2> HIDE DEF m, g
  <2>2. m \in 0..Len(t) /\ m + 1 \in 0..Len(t) /\ m + 1 <= h
    BY <2>1
  <2>3. Stops(g[<<l, h>>], t, priority, l, h)
    BY <1>1, <2>1
  <2>4. CASE priority >= effective_priority(t[m + 1])
    <3>1. Stops(g[<<l, m>>], t, priority, l, m)
      BY <1>1, <2>1, <2>2
    <3>2. Stops(g[<<l, m>>], t, priority, l, h)
      BY <3>1, <2>4, <2>1, StopsHalf
    <3>3. g[<<l, h>>] = g[<<l, m>>]
      BY <3>2, <2>3, StopsOnce
    <3>4. QED
      BY <3>3, <2>4 DEF m
  <2>5. CASE ~(priority >= effective_priority(t[m + 1]))
    <3>1. Stops(g[<<m + 1, h>>], t, priority, m + 1, h)
      BY <1>1, <2>1, <2>2
    <3>2. Stops(g[<<m + 1, h>>], t, priority, l, h)
      BY <3>1, <2>5, <2>1, StopsHalf
    <3>3. g[<<l, h>>] = g[<<m + 1, h>>]
      BY <3>2, <2>3, StopsOnce
    <3>4. QED
      BY <3>3, <2>5 DEF m
  <2>6. QED
    BY <2>4, <2>5
<1>3. \A w \in Dom : w = <<w[1], w[2]>> /\ w[1] \in 0..Len(t) /\ w[2] \in 0..Len(t)
  OBVIOUS
<1>4. \A w \in Dom : w[1] >= w[2] => g[w] = w[1]
  OBVIOUS
<1>5. \A w \in Dom : g[w] = IF w[1] >= w[2] THEN w[1]
        ELSE IF priority >= effective_priority(t[(w[1] + w[2]) \div 2 + 1])
             THEN g[<<w[1], (w[1] + w[2]) \div 2>>] ELSE g[<<(w[1] + w[2]) \div 2 + 1, w[2]>>]
  <2> TAKE w \in Dom
  <2>1. CASE w[1] >= w[2]
    BY <2>1, <1>4
  <2>2. CASE ~(w[1] >= w[2])
    <3>1. w[1] < w[2]
      BY <2>2, <1>3
    <3>2. g[w] = g[<<w[1], w[2]>>]
      BY <1>3
    <3> HIDE DEF g
    <3>3. QED
      BY <2>2, <3>1, <3>2, <1>2, <1>3
  <2>3. QED
    BY <2>1, <2>2
<1>6. g = [w \in Dom |-> g[w]]
  OBVIOUS
<1> HIDE DEF g
<1>7. g = [w \in Dom |-> IF w[1] >= w[2] THEN w[1]
        ELSE IF priority >= effective_priority(t[(w[1] + w[2]) \div 2 + 1])
             THEN g[<<w[1], (w[1] + w[2]) \div 2>>] ELSE g[<<(w[1] + w[2]) \div 2 + 1, w[2]>>]]
  BY <1>5, <1>6, Zenon
<1>8. Halves(g, t, priority)
  BY <1>7 DEF Halves
<1>9. QED
  BY <1>8

(* Where add_entry puts an entry: below it are the higher priorities only. *)
Place(r, t, priority) ==
  /\ r \in 0..Len(t)
  /\ \A j \in 1..r : priority < effective_priority(t[j])
  /\ \A j \in (r + 1)..Len(t) : effective_priority(t[j]) <= priority

LEMMA HalvesStops ==
  ASSUME NEW t, Ranked(t), Len(t) \in Nat, DOMAIN t = 1..Len(t), Sorted(t), NEW priority \in Int,
         NEW g, Halves(g, t, priority)
  PROVE  \A l, h \in 0..Len(t) : l <= h => Stops(g[<<l, h>>], t, priority, l, h)
<1> DEFINE Bad == {d \in 0..Len(t) : \E l, h \in 0..Len(t) :
                     l <= h /\ d = h - l /\ ~Stops(g[<<l, h>>], t, priority, l, h)}
<1>0. \A l, h \in 0..Len(t) :
        g[<<l, h>>] = IF l >= h THEN l
                      ELSE IF priority >= effective_priority(t[(l + h) \div 2 + 1])
                           THEN g[<<l, (l + h) \div 2>>] ELSE g[<<(l + h) \div 2 + 1, h>>]
  <2> TAKE l, h \in 0..Len(t)
  <2> DEFINE w == <<l, h>>
  <2>1. w \in (0..Len(t)) \X (0..Len(t)) /\ w[1] = l /\ w[2] = h
    OBVIOUS
  <2> HIDE DEF w
  <2>2. g[w] = IF w[1] >= w[2] THEN w[1]
                ELSE IF priority >= effective_priority(t[(w[1] + w[2]) \div 2 + 1])
                THEN g[<<w[1], (w[1] + w[2]) \div 2>>] ELSE g[<<(w[1] + w[2]) \div 2 + 1, w[2]>>]
    BY <2>1, Zenon DEF Halves
  <2>3. QED
    BY <2>1, <2>2, Zenon DEF w
<1>1. SUFFICES Bad = {}
  <2> SUFFICES ASSUME NEW l \in 0..Len(t), NEW h \in 0..Len(t), l <= h
               PROVE  Stops(g[<<l, h>>], t, priority, l, h)
    OBVIOUS
  <2>1. h - l \in 0..Len(t)
    OBVIOUS
  <2>2. h - l \notin Bad
    BY <1>1, Zenon
  <2>3. QED
    BY <2>1, <2>2
<1>2. SUFFICES ASSUME Bad # {}
      PROVE  FALSE
  OBVIOUS
<1>3. Bad \subseteq Nat
  OBVIOUS
<1>4. PICK d \in Bad : \A y \in Bad : d <= y
  BY <1>2, <1>3, FirstPlace
<1>5. PICK l \in 0..Len(t), h \in 0..Len(t) :
        l <= h /\ d = h - l /\ ~Stops(g[<<l, h>>], t, priority, l, h)
  BY <1>4
<1>6. ASSUME NEW a \in 0..Len(t), NEW b \in 0..Len(t), a <= b, b - a < d
      PROVE  Stops(g[<<a, b>>], t, priority, a, b)
  <2>1. b - a \in 0..Len(t) /\ ~(d <= b - a)
    <3> HIDE DEF Bad
    <3>1. d \in Nat
      BY <1>3, <1>4
    <3>2. QED
      BY <3>1, <1>6
  <2>2. b - a \notin Bad
    BY <2>1, <1>4, Zenon
  <2>3. QED
    BY <2>1, <2>2, <1>6
<1> HIDE DEF Bad
<1>7. CASE l = h
  <2>1. g[<<l, h>>] = l
    <3>1. l >= h
      BY <1>7
    <3>2. QED
      BY <1>0, <3>1, Zenon
  <2>2. QED
    BY <2>1, <1>7, <1>5 DEF Stops
<1>8. CASE l < h
  <2> DEFINE m == (l + h) \div 2
  <2>1. m \in Nat /\ l <= m /\ m < h /\ l \in Nat /\ h \in Nat /\ h <= Len(t)
    BY <1>8, Middle
  <2>2. g[<<l, h>>] = IF priority >= effective_priority(t[m + 1]) THEN g[<<l, m>>] ELSE g[<<m + 1, h>>]
    BY <1>0, <1>8
  <2> HIDE DEF m
  <2>3. m \in 0..Len(t) /\ m + 1 \in 0..Len(t) /\ m + 1 <= h /\ m - l < d /\ h - (m + 1) < d
    BY <2>1, <1>5
  <2>4. CASE priority >= effective_priority(t[m + 1])
    <3>1. Stops(g[<<l, m>>], t, priority, l, m)
      BY <1>6, <2>1, <2>3
    <3>2. Stops(g[<<l, m>>], t, priority, l, h)
      BY <3>1, <2>4, <2>1, StopsHalf
    <3>3. QED
      BY <3>2, <2>2, <2>4, <1>5
  <2>5. CASE ~(priority >= effective_priority(t[m + 1]))
    <3>1. Stops(g[<<m + 1, h>>], t, priority, m + 1, h)
      BY <1>6, <2>1, <2>3
    <3>2. Stops(g[<<m + 1, h>>], t, priority, l, h)
      BY <3>1, <2>5, <2>1, StopsHalf
    <3>3. QED
      BY <3>2, <2>2, <2>5, <1>5
  <2>6. QED
    BY <2>4, <2>5
<1>9. QED
  BY <1>5, <1>7, <1>8

(* The binary search finds the place.                                      *)
LEMMA SearchPlace ==
  ASSUME NEW t, Ranked(t), Len(t) \in Nat, DOMAIN t = 1..Len(t), Sorted(t), NEW priority \in Int
  PROVE  Place(search(t, priority), t, priority)
<1>1. PICK f : Halves(f, t, priority)
  BY HalvesExists
<1>2. PICK g : Halves(g, t, priority) /\ search(t, priority) = g[<<0, Len(t)>>]
  BY <1>1 DEF Halves, search
<1> DEFINE r == search(t, priority)
<1>3. Stops(r, t, priority, 0, Len(t))
  BY <1>2, HalvesStops
<1> HIDE DEF r
<1>0. r \in 0..Len(t)
  BY <1>3 DEF Stops
<1>4. (r = Len(t) \/ priority >= effective_priority(t[r + 1]))
      /\ \A j \in 0..(r - 1) : priority < effective_priority(t[j + 1])
  BY <1>3 DEF Stops
<1>5. ASSUME NEW j \in 1..r
      PROVE  priority < effective_priority(t[j])
  <2>1. j - 1 \in 0..(r - 1) /\ (j - 1) + 1 = j
    BY <1>0
  <2>2. QED
    BY <2>1, <1>4
<1>6. ASSUME NEW j \in (r + 1)..Len(t)
      PROVE  effective_priority(t[j]) <= priority
  <2>1. r < Len(t) /\ r + 1 \in 1..Len(t) /\ j \in 1..Len(t) /\ (r + 1 < j \/ j = r + 1)
    <3>1. r \in Nat /\ j \in Nat /\ r + 1 <= j /\ j <= Len(t)
      BY <1>0
    <3>2. r < Len(t)
      BY <3>1
    <3>3. r + 1 \in 1..Len(t)
      BY <3>1
    <3>4. j \in 1..Len(t)
      BY <3>1
    <3>5. r + 1 < j \/ j = r + 1
      BY <3>1
    <3>6. QED
      BY <3>2, <3>3, <3>4, <3>5
  <2>2. effective_priority(t[r + 1]) <= priority
    <3>1. \A n \in Nat : r < n => r # n
      BY <1>0
    <3>2. r # Len(t)
      BY <3>1, <2>1
    <3>3. priority >= effective_priority(t[r + 1])
      BY <1>4, <3>2
    <3>4. effective_priority(t[r + 1]) \in Int
      BY <2>1 DEF Ranked
    <3>5. QED
      BY <3>3, <3>4
  <2>3. effective_priority(t[j]) <= effective_priority(t[r + 1])
    BY <2>1 DEF Sorted, Ranked
  <2>4. effective_priority(t[j]) \in Int /\ effective_priority(t[r + 1]) \in Int
    BY <2>1 DEF Ranked
  <2>5. QED
    BY <2>2, <2>3, <2>4
<1>7. QED
  BY <1>0, <1>5, <1>6 DEF Place, r

-----------------------------------------------------------------------------
(* The flow table under the operations                                     *)

LEMMA Sizes == MaxBuffers \in Nat /\ MaxEntries \in Nat /\ Period \in Nat /\ Period > 0
BY SizesAssumption

LEMMA EntryFacts ==
  ASSUME NEW e \in EntryT
  PROVE  /\ effective_priority(e) \in Nat
         /\ e.priority \in Nat /\ e.idle \in Nat /\ e.hard \in Nat /\ e.age \in Nat
         /\ e.untouched \in Nat /\ e.rem \in BOOLEAN
BY DEF EntryT, effective_priority

LEMMA TableRanked ==
  ASSUME NEW t \in Seq(EntryT)
  PROVE  Ranked(t) /\ Len(t) \in Nat /\ DOMAIN t = 1..Len(t)
<1>1. Len(t) \in Nat /\ DOMAIN t = 1..Len(t)
  OBVIOUS
<1>2. \A j \in 1..Len(t) : t[j] \in EntryT
  OBVIOUS
<1>3. QED
  BY <1>1, <1>2, EntryFacts DEF Ranked

(* Entries that keep their match and their priority stay in order and      *)
(* unique.                                                                 *)
SameKey(e, f) == e.match = f.match /\ e.priority = f.priority

LEMMA SamePriority ==
  ASSUME NEW e, NEW f, SameKey(e, f)
  PROVE  effective_priority(e) = effective_priority(f)
BY DEF SameKey, effective_priority

LEMMA SameKeys ==
  ASSUME NEW t, NEW u, DOMAIN u = DOMAIN t, \A i \in DOMAIN t : SameKey(u[i], t[i]),
         Sorted(t), Unique(t)
  PROVE  Sorted(u) /\ Unique(u)
<1>1. \A i \in DOMAIN t : effective_priority(u[i]) = effective_priority(t[i])
  BY SamePriority
<1>2. Sorted(u)
  BY <1>1 DEF Sorted
<1>3. Unique(u)
  BY DEF Unique, SameKey
<1>4. QED
  BY <1>2, <1>3

(* What is kept of a table.                                                *)
LEMMA KeepInv ==
  ASSUME NEW t, NEW tm, TableInv(t, tm), NEW gone
  PROVE  TableInv(keep(t, gone), tm)
<1> DEFINE u == keep(t, gone)
<1> DEFINE S == DOMAIN t \ gone
<1>0. t \in Seq(EntryT) /\ Len(t) <= MaxEntries /\ Sorted(t) /\ Unique(t) /\ InTime(t, tm)
  BY DEF TableInv
<1>1. PICK at : Kept(u, t, S, at)
  BY <1>0, KeepFacts
<1>2. u \in Seq(EntryT) /\ Len(u) <= Len(t) /\ Len(u) \in Nat /\ Len(t) \in Nat
  <2>1. u \in Seq(EntryT) /\ Len(u) <= Len(t)
    BY <1>0, KeepFacts
  <2> HIDE DEF u
  <2>2. QED
    BY <2>1, <1>0
<1>3. S \subseteq DOMAIN t /\ DOMAIN t \subseteq Nat
  BY <1>0
<1> HIDE DEF u, S
<1>4. DOMAIN u \subseteq Nat
  BY <1>2
<1>5. \A k \in DOMAIN u : at[k] \in DOMAIN t /\ u[k] = t[at[k]]
  BY <1>1, <1>3 DEF Kept
<1>6. \A j, k \in DOMAIN u : j < k => at[j] < at[k]
  BY <1>1 DEF Kept
<1>7. Sorted(u)
  BY <1>0, <1>5, <1>6 DEF Sorted
<1>8. Unique(u)
  <2> SUFFICES ASSUME NEW j \in DOMAIN u, NEW k \in DOMAIN u,
                      u[j].match = u[k].match, u[j].priority = u[k].priority
               PROVE  j = k
    BY DEF Unique
  <2>1. at[j] = at[k]
    BY <1>0, <1>5 DEF Unique
  <2>2. at[j] \in Nat /\ at[k] \in Nat /\ j \in Nat /\ k \in Nat
    BY <1>3, <1>4, <1>5
  <2>3. QED
    BY <2>1, <2>2, <1>6
<1>9. InTime(u, tm)
  BY <1>0, <1>5 DEF InTime
<1>10. Len(u) <= MaxEntries
  BY <1>0, <1>2, Sizes
<1>11. QED
  BY <1>2, <1>7, <1>8, <1>9, <1>10 DEF TableInv, u

(* An entry that is added.                                                 *)
LEMMA AddInv ==
  ASSUME NEW t, NEW tm \in 0..Period, TableInv(t, tm), NEW e \in EntryT, e.age = 0, e.untouched = 0,
         \A i \in DOMAIN t : ~SameKey(t[i], e), Len(t) < MaxEntries
  PROVE  /\ TableInv(add_entry(t, e), tm)
         /\ \E j \in DOMAIN add_entry(t, e) : add_entry(t, e)[j] = e
         /\ \A i \in DOMAIN t : \E j \in DOMAIN add_entry(t, e) : add_entry(t, e)[j] = t[i]
<1> DEFINE u == add_entry(t, e)
<1> DEFINE r == search(t, effective_priority(e))
<1>0. t \in Seq(EntryT) /\ Sorted(t) /\ Unique(t) /\ InTime(t, tm)
  BY DEF TableInv
<1>1. Ranked(t) /\ Len(t) \in Nat /\ DOMAIN t = 1..Len(t)
  BY <1>0, TableRanked
<1>2. effective_priority(e) \in Int
  BY EntryFacts
<1>3. Place(r, t, effective_priority(e))
  BY <1>0, <1>1, <1>2, SearchPlace
<1>4. r \in 0..Len(t)
  BY <1>3 DEF Place
<1>5. u \in Seq(EntryT) /\ Inserted(u, t, r, e)
  BY <1>0, <1>4, InsertFacts DEF add_entry
<1> HIDE DEF u, r
<1>6. Len(u) = Len(t) + 1 /\ DOMAIN u = 1..(Len(t) + 1)
  BY <1>5 DEF Inserted
(* An entry of the new table is the new one or one of before.              *)
<1> DEFINE from(i) == IF i <= r THEN i ELSE i - 1
<1>7. ASSUME NEW i \in DOMAIN u
      PROVE  \/ i = r + 1 /\ u[i] = e
             \/ i # r + 1 /\ from(i) \in DOMAIN t /\ u[i] = t[from(i)] /\ (i <= r <=> from(i) <= r)
  <2>1. i \in Nat /\ 1 <= i /\ i <= Len(t) + 1 /\ r \in Nat /\ r <= Len(t)
    BY <1>4, <1>6
  <2>2. CASE i <= r
    <3>1. i \in 1..r /\ i \in 1..Len(t) /\ i # r + 1
      BY <2>1, <2>2
    <3>2. u[i] = t[i]
      BY <3>1, <1>5 DEF Inserted
    <3>3. QED
      BY <3>1, <3>2, <2>2, <1>1
  <2>3. CASE i = r + 1
    BY <2>3, <1>5 DEF Inserted
  <2>4. CASE i > r + 1
    <3>1. i \in (r + 2)..(Len(t) + 1) /\ i - 1 \in 1..Len(t) /\ ~(i <= r) /\ ~(i - 1 <= r)
      BY <2>1, <2>4
    <3>2. u[i] = t[i - 1]
      BY <3>1, <1>5 DEF Inserted
    <3>3. QED
      BY <3>1, <3>2, <2>1, <2>4, <1>1
  <2>5. QED
    BY <2>1, <2>2, <2>3, <2>4
<1>8. Sorted(u)
  <2> SUFFICES ASSUME NEW i \in DOMAIN u, NEW j \in DOMAIN u, i < j
               PROVE  effective_priority(u[j]) <= effective_priority(u[i])
    BY DEF Sorted
  <2>1. i \in Nat /\ j \in Nat /\ r \in Nat
    BY <1>4, <1>6
  <2>2. CASE i = r + 1
    <3>1. j # r + 1 /\ ~(j <= r) /\ u[i] = e
      BY <2>1, <2>2, <1>7
    <3>2. from(j) \in (r + 1)..Len(t) /\ u[j] = t[from(j)]
      <4>1. from(j) \in DOMAIN t /\ u[j] = t[from(j)] /\ ~(from(j) <= r)
        BY <3>1, <1>7
      <4> HIDE DEF from
      <4>2. QED
        BY <4>1, <1>1, <2>1
    <3>3. QED
      BY <3>1, <3>2, <1>3 DEF Place
  <2>3. CASE j = r + 1
    <3>1. i # r + 1 /\ i <= r /\ u[j] = e
      BY <2>1, <2>3, <1>7
    <3>2. i \in 1..r /\ u[i] = t[i] /\ i \in 1..Len(t)
      BY <3>1, <1>7, <1>4, <1>6
    <3>3. effective_priority(e) < effective_priority(t[i]) /\ effective_priority(t[i]) \in Int
      BY <3>2, <1>3, <1>1 DEF Place, Ranked
    <3>4. QED
      BY <3>1, <3>2, <3>3, <1>2
  <2>4. CASE i # r + 1 /\ j # r + 1
    <3>1. from(i) < from(j)
      BY <2>1, <2>4
    <3>2. from(i) \in DOMAIN t /\ u[i] = t[from(i)] /\ from(j) \in DOMAIN t /\ u[j] = t[from(j)]
      BY <2>4, <1>7
    <3> HIDE DEF from
    <3>3. QED
      BY <3>1, <3>2, <1>0 DEF Sorted
  <2>5. QED
    BY <2>2, <2>3, <2>4
<1>9. Unique(u)
  <2> SUFFICES ASSUME NEW i \in DOMAIN u, NEW j \in DOMAIN u,
                      u[i].match = u[j].match, u[i].priority = u[j].priority
               PROVE  i = j
    BY DEF Unique
  <2>1. i \in Nat /\ j \in Nat /\ r \in Nat
    BY <1>4, <1>6
  <2>2. i = r + 1 <=> j = r + 1
    BY <1>7 DEF SameKey
  <2>3. CASE i # r + 1
    <3>1. from(i) \in DOMAIN t /\ u[i] = t[from(i)] /\ from(j) \in DOMAIN t /\ u[j] = t[from(j)]
      BY <2>2, <2>3, <1>7
    <3>2. from(i) = from(j)
      <4> HIDE DEF from
      <4> QED
        BY <3>1, <1>0 DEF Unique
    <3>3. QED
      BY <3>2, <2>1, <2>2, <2>3
  <2>4. QED
    BY <2>2, <2>3
<1>10. InTime(u, tm)
  <2>1. \A i \in DOMAIN u : u[i] = e \/ \E k \in DOMAIN t : u[i] = t[k]
    BY <1>7
  <2>2. e.hard > 0 => e.age <= e.hard + (Period - tm)
    BY EntryFacts, Sizes
  <2>3. e.idle > 0 => e.untouched <= e.idle + (Period - tm)
    BY EntryFacts, Sizes
  <2>4. QED
    BY <2>1, <2>2, <2>3, <1>0 DEF InTime
<1>11. Len(u) <= MaxEntries
  BY <1>1, <1>6, Sizes
<1>12. r + 1 \in DOMAIN u /\ u[r + 1] = e
  BY <1>4, <1>5, <1>6, <1>1 DEF Inserted
<1>13. ASSUME NEW i \in DOMAIN t
       PROVE  \E j \in DOMAIN u : u[j] = t[i]
  <2>1. i \in Nat /\ i <= Len(t) /\ 1 <= i /\ r \in Nat
    BY <1>1, <1>4
  <2>2. CASE i <= r
    <3>1. i \in 1..r /\ i \in DOMAIN u
      BY <2>1, <2>2, <1>6
    <3>2. QED
      BY <3>1, <1>5 DEF Inserted
  <2>3. CASE ~(i <= r)
    <3>1. i + 1 \in (r + 2)..(Len(t) + 1) /\ i + 1 \in DOMAIN u /\ (i + 1) - 1 = i
      BY <2>1, <2>3, <1>1, <1>6
    <3>2. u[i + 1] = t[(i + 1) - 1]
      BY <3>1, <1>5 DEF Inserted
    <3>3. QED
      BY <3>1, <3>2
  <2>4. QED
    BY <2>2, <2>3
<1>14. TableInv(u, tm)
  BY <1>5, <1>8, <1>9, <1>10, <1>11 DEF TableInv
<1>15. QED
  BY <1>12, <1>13, <1>14 DEF u

(* touch_packet: the entries a frame has used.                             *)
LEMMA TouchInv ==
  ASSUME NEW t, NEW tm \in 0..Period, TableInv(t, tm), NEW touched
  PROVE  /\ TableInv(Touch(t, touched), tm)
         /\ DOMAIN Touch(t, touched) = DOMAIN t
         /\ \A i \in DOMAIN t : SameKey(Touch(t, touched)[i], t[i])
<1> DEFINE u == Touch(t, touched)
<1>0. t \in Seq(EntryT) /\ Len(t) <= MaxEntries /\ Sorted(t) /\ Unique(t) /\ InTime(t, tm)
  BY DEF TableInv
<1>1. DOMAIN u = DOMAIN t /\ DOMAIN t = 1..Len(t) /\ Len(t) \in Nat
  BY <1>0 DEF Touch
<1>2. \A i \in DOMAIN t : t[i] \in EntryT
  BY <1>0
<1>3. \A i \in DOMAIN t : u[i] = IF i \in touched THEN [t[i] EXCEPT !.untouched = 0] ELSE t[i]
  BY DEF Touch
<1>4. u = [i \in 1..Len(t) |-> u[i]]
  BY <1>1 DEF Touch
<1> HIDE DEF u
<1>5. ASSUME NEW i \in DOMAIN t
      PROVE  /\ u[i] \in EntryT /\ SameKey(u[i], t[i])
             /\ u[i].hard = t[i].hard /\ u[i].age = t[i].age /\ u[i].idle = t[i].idle
             /\ u[i].untouched = 0 \/ u[i].untouched = t[i].untouched
  <2>1. t[i] \in EntryT
    BY <1>2
  <2>2. CASE i \in touched
    <3>1. u[i] = [t[i] EXCEPT !.untouched = 0]
      BY <2>2, <1>3
    <3>2. QED
      BY <2>1, <3>1 DEF EntryT, SameKey
  <2>3. CASE i \notin touched
    <3>1. u[i] = t[i]
      BY <2>3, <1>3
    <3>2. QED
      BY <2>1, <3>1 DEF SameKey
  <2>4. QED
    BY <2>2, <2>3
<1>6. u \in Seq(EntryT) /\ Len(u) = Len(t)
  BY <1>1, <1>4, <1>5
<1>7. Sorted(u) /\ Unique(u)
  BY <1>0, <1>1, <1>5, SameKeys
<1>8. InTime(u, tm)
  <2> SUFFICES ASSUME NEW i \in DOMAIN t
               PROVE  /\ u[i].hard > 0 => u[i].age <= u[i].hard + (Period - tm)
                      /\ u[i].idle > 0 => u[i].untouched <= u[i].idle + (Period - tm)
    BY <1>1 DEF InTime
  <2>1. /\ t[i].hard > 0 => t[i].age <= t[i].hard + (Period - tm)
        /\ t[i].idle > 0 => t[i].untouched <= t[i].idle + (Period - tm)
    BY <1>0 DEF InTime
  <2>2. t[i].idle \in Nat /\ Period - tm >= 0 /\ Period - tm \in Int
    BY <1>2, EntryFacts, Sizes
  <2>3. QED
    BY <2>1, <2>2, <1>5
<1>9. TableInv(u, tm)
  BY <1>0, <1>6, <1>7, <1>8 DEF TableInv
<1>10. QED
  BY <1>1, <1>5, <1>9 DEF u

(* _flow_mod_modify changes the actions of entries.                        *)
LEMMA ModifyInv ==
  ASSUME NEW t, NEW tm, TableInv(t, tm), NEW hit, NEW fm \in peers.flow_mods
  PROVE  LET u == [i \in DOMAIN t |-> IF i \in hit THEN [t[i] EXCEPT !.actions = fm.actions] ELSE t[i]]
         IN TableInv(u, tm) /\ DOMAIN u = DOMAIN t /\ \A i \in DOMAIN t : SameKey(u[i], t[i])
<1> DEFINE u == [i \in DOMAIN t |-> IF i \in hit THEN [t[i] EXCEPT !.actions = fm.actions] ELSE t[i]]
<1>0. t \in Seq(EntryT) /\ Len(t) <= MaxEntries /\ Sorted(t) /\ Unique(t) /\ InTime(t, tm)
  BY DEF TableInv
<1>1. DOMAIN u = DOMAIN t /\ DOMAIN t = 1..Len(t) /\ Len(t) \in Nat
  BY <1>0
<1>2. \A i \in DOMAIN t : t[i] \in EntryT
  BY <1>0
<1>3. \A i \in DOMAIN t : u[i] = IF i \in hit THEN [t[i] EXCEPT !.actions = fm.actions] ELSE t[i]
  OBVIOUS
<1>4. u = [i \in 1..Len(t) |-> u[i]]
  BY <1>1
<1> HIDE DEF u
<1>5. ASSUME NEW i \in DOMAIN t
      PROVE  /\ u[i] \in EntryT /\ SameKey(u[i], t[i])
             /\ u[i].hard = t[i].hard /\ u[i].age = t[i].age /\ u[i].idle = t[i].idle
             /\ u[i].untouched = t[i].untouched
  <2>1. t[i] \in EntryT
    BY <1>2
  <2>2. CASE i \in hit
    <3>1. u[i] = [t[i] EXCEPT !.actions = fm.actions]
      BY <2>2, <1>3
    <3>2. QED
      BY <2>1, <3>1 DEF EntryT, SameKey
  <2>3. CASE i \notin hit
    <3>1. u[i] = t[i]
      BY <2>3, <1>3
    <3>2. QED
      BY <2>1, <3>1 DEF SameKey
  <2>4. QED
    BY <2>2, <2>3
<1>6. u \in Seq(EntryT) /\ Len(u) = Len(t)
  BY <1>1, <1>4, <1>5
<1>7. Sorted(u) /\ Unique(u)
  BY <1>0, <1>1, <1>5, SameKeys
<1>8. InTime(u, tm)
  BY <1>0, <1>1, <1>5 DEF InTime
<1>9. TableInv(u, tm)
  BY <1>0, <1>6, <1>7, <1>8 DEF TableInv
<1>10. QED
  BY <1>1, <1>5, <1>9 DEF u

(* A match arrives as fix() would leave it at the sender.                  *)
LEMMA MatchArrives ==
  ASSUME NEW m, Match(m)
  PROVE  unwire(wire(m)) = fix(m)
<1> DEFINE none == ignored(m["dl_type"], m["nw_proto"])
<1> DEFINE w == wire(m)
<1>1. none \subseteq Fields \cup Nets /\ "dl_type" \notin none
  BY DEF ignored, Fields, Nets, TP
<1>2. ignored(w.value["dl_type"], w.value["nw_proto"]) = none
  BY DEF ignored, Fields, Nets, TP, wire, IP, ARP, Transports, Wild
<1>3. w.wildcards = {f \in Fields : m[f] = Wild} \ none
  BY DEF wire
<1>4. \A f \in Fields : w.value[f] = IF m[f] = Wild \/ f \in none THEN 0 ELSE m[f]
  BY DEF wire
<1>5. \A n \in Nets : /\ w.bits[n] = IF n \in none THEN 0 ELSE AddrBits - m[n].bits
                      /\ w.addr[n] = IF n \in none THEN NoNet.addr ELSE m[n].addr
  BY DEF wire
<1>6. unwire(w) = [f \in Fields \cup Nets |->
        IF f \in Fields
        THEN IF f \in w.wildcards \cup none THEN Wild ELSE w.value[f]
        ELSE IF f \in none \/ w.bits[f] = AddrBits THEN NoNet
             ELSE [addr |-> w.addr[f], bits |-> AddrBits - w.bits[f]]]
  <2> HIDE DEF w, none
  <2> QED
    BY <1>2 DEF unwire
<1>7. fix(m) = [f \in Fields \cup Nets |->
                  IF f \notin none THEN m[f] ELSE IF f \in Fields THEN Wild ELSE NoNet]
  BY DEF fix
<1> HIDE DEF w, none
<1>8. Fields \cap Nets = {}
  BY DEF Fields, Nets, TP
<1>9. ASSUME NEW f \in Fields
      PROVE  unwire(w)[f] = fix(m)[f]
  BY <1>3, <1>4, <1>6, <1>7
<1>10. ASSUME NEW n \in Nets
       PROVE  unwire(w)[n] = fix(m)[n]
  <2>1. n \notin Fields /\ n \in Fields \cup Nets
    BY <1>8
  <2>2. CASE n \in none
    BY <2>1, <2>2, <1>6, <1>7
  <2>3. CASE n \notin none
    <3>1. m[n] = [addr |-> m[n].addr, bits |-> m[n].bits] /\ m[n].bits \in 0..AddrBits
          /\ (m[n].bits = 0 => m[n] = NoNet)
      BY DEF Match
    <3>2. w.bits[n] = AddrBits - m[n].bits /\ w.addr[n] = m[n].addr
      BY <2>3, <1>5
    <3>3. fix(m)[n] = m[n]
      BY <2>1, <2>3, <1>7
    <3>4. unwire(w)[n] = IF w.bits[n] = AddrBits THEN NoNet
                         ELSE [addr |-> w.addr[n], bits |-> AddrBits - w.bits[n]]
      BY <2>1, <2>3, <1>6
    <3>5. AddrBits - w.bits[n] = m[n].bits /\ (w.bits[n] = AddrBits <=> m[n].bits = 0)
      BY <3>1, <3>2, AddrBitsAssumption
    <3>6. QED
      BY <3>1, <3>2, <3>3, <3>4, <3>5
  <2>4. QED
    BY <2>2, <2>3
<1>11. \A f \in Fields \cup Nets : unwire(w)[f] = fix(m)[f]
  BY <1>9, <1>10
<1>12. unwire(w) = [f \in Fields \cup Nets |-> unwire(w)[f]] /\ fix(m) = [f \in Fields \cup Nets |-> fix(m)[f]]
  BY <1>6, <1>7
<1>13. unwire(w) = fix(m)
  BY <1>11, <1>12, Zenon
<1>14. QED
  BY <1>13 DEF w

-----------------------------------------------------------------------------
(* What the controller is told of entries that leave                       *)

IsList(s) == s \in Seq({s[i] : i \in DOMAIN s})

LEMMA EmptyList == IsList(<<>>) /\ Len(<<>>) = 0 /\ DOMAIN <<>> = 1..0
BY DEF IsList

LEMMA ListOf ==
  ASSUME NEW S, NEW s \in Seq(S)
  PROVE  IsList(s)
BY DEF IsList

LEMMA ListFacts ==
  ASSUME NEW s, IsList(s)
  PROVE  Len(s) \in Nat /\ DOMAIN s = 1..Len(s)
BY DEF IsList

LEMMA AppendList ==
  ASSUME NEW s, IsList(s), NEW x
  PROVE  /\ IsList(Append(s, x)) /\ Len(Append(s, x)) = Len(s) + 1
         /\ \A i \in 1..Len(s) : Append(s, x)[i] = s[i]
         /\ Append(s, x)[Len(s) + 1] = x
<1> DEFINE S == {s[i] : i \in DOMAIN s} \cup {x}
<1>1. s \in Seq(S) /\ x \in S
  BY DEF IsList
<1> HIDE DEF S
<1>2. Append(s, x) \in Seq(S)
  BY <1>1
<1>3. IsList(Append(s, x))
  BY <1>2, ListOf
<1>4. QED
  BY <1>1, <1>3

LEMMA ConcatList ==
  ASSUME NEW s, IsList(s), NEW r, IsList(r)
  PROVE  /\ IsList(s \o r) /\ Len(s \o r) = Len(s) + Len(r)
         /\ \A i \in 1..Len(s) : (s \o r)[i] = s[i]
         /\ \A i \in 1..Len(r) : (s \o r)[Len(s) + i] = r[i]
<1> DEFINE S == {s[i] : i \in DOMAIN s} \cup {r[i] : i \in DOMAIN r}
<1>1. s \in Seq(S) /\ r \in Seq(S)
  BY DEF IsList
<1> HIDE DEF S
<1>2. s \o r \in Seq(S) /\ Len(s \o r) = Len(s) + Len(r)
      /\ \A i \in 1 .. Len(s) + Len(r) : (s \o r)[i] = IF i <= Len(s) THEN s[i] ELSE r[i - Len(s)]
  BY <1>1, ConcatProperties
<1>3. IsList(s \o r)
  BY <1>2, ListOf
<1>4. Len(s) \in Nat /\ Len(r) \in Nat
  BY <1>1
<1>5. ASSUME NEW i \in 1..Len(s)
      PROVE  (s \o r)[i] = s[i]
  <2>1. i \in 1..(Len(s) + Len(r)) /\ i <= Len(s)
    BY <1>4
  <2>2. QED
    BY <2>1, <1>2
<1>6. ASSUME NEW i \in 1..Len(r)
      PROVE  (s \o r)[Len(s) + i] = r[i]
  <2>1. Len(s) + i \in 1..(Len(s) + Len(r)) /\ ~(Len(s) + i <= Len(s)) /\ (Len(s) + i) - Len(s) = i
    BY <1>4
  <2>2. QED
    BY <2>1, <1>2
<1>7. QED
  BY <1>2, <1>3, <1>5, <1>6

Left(e, u) == ~\E j \in DOMAIN u : u[j].match = e.match /\ u[j].priority = e.priority
ToldOf(e, msgs) ==
  {k \in DOMAIN msgs : /\ msgs[k].type = "flow_removed"
                       /\ msgs[k].match = e.match
                       /\ msgs[k].priority = e.priority}

(* The messages report the entries of t that u does not have.              *)
Reported(t, u, msgs) ==
  \A i \in DOMAIN t : t[i].rem => Cardinality(ToldOf(t[i], msgs)) = IF Left(t[i], u) THEN 1 ELSE 0

(* Every entry has its successor, and no message speaks of a removal.      *)
AllStay(t, u) == \A i \in DOMAIN t : \E j \in DOMAIN u : SameKey(u[j], t[i])
NoneRemoved(msgs) == \A k \in DOMAIN msgs : msgs[k].type # "flow_removed"

LEMMA NothingLeaves ==
  ASSUME NEW t, NEW u, NEW msgs, AllStay(t, u), NoneRemoved(msgs)
  PROVE  Reported(t, u, msgs)
<1> SUFFICES ASSUME NEW i \in DOMAIN t
             PROVE  Cardinality(ToldOf(t[i], msgs)) = IF Left(t[i], u) THEN 1 ELSE 0
  BY DEF Reported
<1>1. ToldOf(t[i], msgs) = {}
  BY DEF ToldOf, NoneRemoved
<1>2. Cardinality({}) = 0
  BY FS_EmptySet
<1>3. ~Left(t[i], u)
  BY DEF Left, AllStay, SameKey
<1>4. QED
  BY <1>1, <1>2, <1>3

(* Later messages about something else change nothing.                     *)
Extends(msgs, pre) ==
  /\ IsList(msgs) /\ Len(pre) <= Len(msgs)
  /\ \A k \in 1..Len(pre) : msgs[k] = pre[k]
  /\ \A k \in (Len(pre) + 1)..Len(msgs) : msgs[k].type # "flow_removed"

LEMMA ReportedExtends ==
  ASSUME NEW t, NEW u, NEW pre, NEW msgs, IsList(pre), Reported(t, u, pre), Extends(msgs, pre)
  PROVE  Reported(t, u, msgs)
<1> SUFFICES ASSUME NEW i \in DOMAIN t
             PROVE  ToldOf(t[i], msgs) = ToldOf(t[i], pre)
  BY DEF Reported
<1>1. Len(pre) \in Nat /\ DOMAIN pre = 1..Len(pre)
  BY ListFacts
<1>2. Len(msgs) \in Nat /\ DOMAIN msgs = 1..Len(msgs) /\ Len(pre) <= Len(msgs)
  BY ListFacts DEF Extends
<1>3. \A k \in DOMAIN pre : k \in DOMAIN msgs /\ msgs[k] = pre[k]
  BY <1>1, <1>2 DEF Extends
<1>4. \A k \in DOMAIN msgs : k \in DOMAIN pre \/ msgs[k].type # "flow_removed"
  BY <1>1, <1>2 DEF Extends
<1>5. QED
  BY <1>3, <1>4 DEF ToldOf

(* One message for each entry that leaves and asks for it.                 *)
TellsAt(msgs, t, gone, at) ==
  /\ at \in [DOMAIN msgs -> gone]
  /\ \A j, k \in DOMAIN msgs : at[j] = at[k] => j = k
  /\ \A i \in gone : t[i].rem => \E k \in DOMAIN msgs : at[k] = i
  /\ \A k \in DOMAIN msgs : /\ msgs[k].type = "flow_removed"
                            /\ SameKey(msgs[k], t[at[k]])

LEMMA RemovedReported ==
  ASSUME NEW t, NEW tm, TableInv(t, tm), NEW gone \in SUBSET DOMAIN t,
         NEW msgs, NEW at, TellsAt(msgs, t, gone, at)
  PROVE  Reported(t, keep(t, gone), msgs)
<1> SUFFICES ASSUME NEW i \in DOMAIN t, t[i].rem
             PROVE  Cardinality(ToldOf(t[i], msgs)) = IF Left(t[i], keep(t, gone)) THEN 1 ELSE 0
  BY DEF Reported
<1> DEFINE u == keep(t, gone)
<1>1. t \in Seq(EntryT) /\ Unique(t)
  BY DEF TableInv
<1>2. PICK from : Kept(u, t, DOMAIN t \ gone, from)
  BY <1>1, KeepFacts
<1> HIDE DEF u
<1>3. \A k \in DOMAIN msgs : k \in ToldOf(t[i], msgs) <=> at[k] = i
  <2> TAKE k \in DOMAIN msgs
  <2>1. at[k] \in DOMAIN t /\ msgs[k].type = "flow_removed" /\ SameKey(msgs[k], t[at[k]])
    BY DEF TellsAt
  <2>2. k \in ToldOf(t[i], msgs) <=> SameKey(t[at[k]], t[i])
    BY <2>1 DEF ToldOf, SameKey
  <2>3. SameKey(t[at[k]], t[i]) <=> at[k] = i
    BY <2>1, <1>1 DEF Unique, SameKey
  <2>4. QED
    BY <2>2, <2>3
<1>4. ToldOf(t[i], msgs) \subseteq DOMAIN msgs
  BY DEF ToldOf
<1>5. CASE i \in gone
  <2>1. PICK k \in DOMAIN msgs : at[k] = i
    BY <1>5 DEF TellsAt
  <2>2. ToldOf(t[i], msgs) = {k}
    BY <2>1, <1>3, <1>4 DEF TellsAt
  <2>3. Cardinality({k}) = 1
    BY FS_Singleton
  <2>4. Left(t[i], u)
    <3> SUFFICES ASSUME NEW j \in DOMAIN u, u[j].match = t[i].match, u[j].priority = t[i].priority
                 PROVE  FALSE
      BY DEF Left
    <3>1. from[j] \in DOMAIN t \ gone /\ u[j] = t[from[j]]
      BY <1>2 DEF Kept
    <3>2. from[j] = i
      BY <3>1, <1>1 DEF Unique
    <3>3. QED
      BY <3>1, <3>2, <1>5
  <2>5. QED
    BY <2>2, <2>3, <2>4 DEF u
<1>6. CASE i \notin gone
  <2>1. ToldOf(t[i], msgs) = {}
    BY <1>3, <1>4, <1>6 DEF TellsAt
  <2>2. Cardinality({}) = 0
    BY FS_EmptySet
  <2>3. PICK j \in DOMAIN u : from[j] = i
    BY <1>2, <1>6 DEF Kept
  <2>4. u[j] = t[i]
    BY <1>2, <2>3 DEF Kept
  <2>5. ~Left(t[i], u)
    BY <2>4 DEF Left
  <2>6. QED
    BY <2>1, <2>2, <2>5 DEF u
<1>7. QED
  BY <1>5, <1>6

LEMMA FlowRemovedTells ==
  ASSUME NEW E, NEW t \in Seq(E), NEW gone \in SUBSET DOMAIN t, NEW reason
  PROVE  /\ IsList(flow_removed(t, gone, reason))
         /\ \E at : TellsAt(flow_removed(t, gone, reason), t, gone, at)
<1> DEFINE S == {i \in gone : t[i].rem}
<1> DEFINE at == in_order(S)
<1> DEFINE msgs == flow_removed(t, gone, reason)
<1>1. Len(t) \in Nat /\ S \in SUBSET (1..Len(t))
  OBVIOUS
<1>2. Ordered(at, S) /\ Cardinality(S) \in 0..Len(t)
  BY <1>1, InOrder
<1>3. msgs = [k \in DOMAIN at |-> [type |-> "flow_removed", match |-> t[at[k]].match,
                                   priority |-> t[at[k]].priority, reason |-> reason]]
  BY DEF flow_removed
<1>4. S \subseteq gone /\ \A i \in gone : t[i].rem => i \in S
  OBVIOUS
<1> HIDE DEF msgs, at, S
<1>5. DOMAIN at = 1..Cardinality(S) /\ Cardinality(S) \in Nat /\ at \in [1..Cardinality(S) -> S]
      /\ (\A i \in S : \E k \in 1..Cardinality(S) : at[k] = i)
      /\ (\A j, k \in 1..Cardinality(S) : j < k => at[j] < at[k])
  BY <1>2 DEF Ordered
<1>6. DOMAIN msgs = 1..Cardinality(S)
      /\ \A k \in DOMAIN msgs : msgs[k].type = "flow_removed" /\ SameKey(msgs[k], t[at[k]])
  BY <1>3, <1>5 DEF SameKey
<1> DEFINE R == {msgs[k] : k \in DOMAIN msgs}
<1>7. msgs \in [1..Cardinality(S) -> R]
  BY <1>3, <1>5, <1>6
<1> HIDE DEF R
<1>8. IsList(msgs)
  <2>1. msgs \in Seq(R)
    BY <1>5, <1>7
  <2>2. QED
    BY <2>1, ListOf
<1>9. \A j, k \in DOMAIN msgs : at[j] = at[k] => j = k
  <2> TAKE j, k \in DOMAIN msgs
  <2>1. j \in Nat /\ k \in Nat /\ at[j] \in Nat /\ at[k] \in Nat
    <3>1. j \in 1..Cardinality(S) /\ k \in 1..Cardinality(S)
      BY <1>6
    <3>2. at[j] \in S /\ at[k] \in S
      BY <3>1, <1>5
    <3>3. j \in Nat /\ k \in Nat
      BY <3>1, <1>2
    <3>4. S \subseteq Nat
      BY <1>1
    <3>5. QED
      BY <3>2, <3>3, <3>4
  <2>2. QED
    BY <2>1, <1>5, <1>6
<1>10. TellsAt(msgs, t, gone, at)
  BY <1>4, <1>5, <1>6, <1>9 DEF TellsAt
<1>11. QED
  BY <1>8, <1>10 DEF msgs

(* Two kinds of entries that leave together.                               *)
LEMMA TellsTogether ==
  ASSUME NEW t, NEW A, NEW B, A \cap B = {}, NEW a, NEW b, IsList(a), IsList(b),
         NEW f, TellsAt(a, t, A, f), NEW g, TellsAt(b, t, B, g)
  PROVE  \E at : TellsAt(a \o b, t, A \cup B, at)
<1> DEFINE at == [k \in 1..(Len(a) + Len(b)) |-> IF k <= Len(a) THEN f[k] ELSE g[k - Len(a)]]
<1> DEFINE c == a \o b
<1>1. Len(a) \in Nat /\ Len(b) \in Nat /\ DOMAIN a = 1..Len(a) /\ DOMAIN b = 1..Len(b)
  BY ListFacts
<1>2. IsList(c) /\ Len(c) = Len(a) + Len(b) /\ (\A i \in 1..Len(a) : c[i] = a[i])
      /\ \A i \in 1..Len(b) : c[Len(a) + i] = b[i]
  BY ConcatList
<1>3. DOMAIN c = 1..(Len(a) + Len(b))
  BY <1>2, ListFacts
<1> HIDE DEF c
<1>4. \A k \in 1..Len(a) : at[k] = f[k] /\ k \in DOMAIN c
  BY <1>1, <1>3
<1>5. \A k \in 1..Len(b) : at[Len(a) + k] = g[k] /\ Len(a) + k \in DOMAIN c
  <2> TAKE k \in 1..Len(b)
  <2>1. Len(a) + k \in 1..(Len(a) + Len(b)) /\ ~(Len(a) + k <= Len(a)) /\ (Len(a) + k) - Len(a) = k
    BY <1>1
  <2>2. QED
    BY <2>1, <1>3
<1>6. DOMAIN at = DOMAIN c /\ at = [k \in DOMAIN c |-> at[k]]
  BY <1>3
<1> HIDE DEF at
<1>7. \A k \in DOMAIN c : k \in 1..Len(a) \/ \E m \in 1..Len(b) : k = Len(a) + m
  <2> TAKE k \in DOMAIN c
  <2>1. CASE k <= Len(a)
    BY <2>1, <1>1, <1>3
  <2>2. CASE ~(k <= Len(a))
    <3>1. k - Len(a) \in 1..Len(b) /\ k = Len(a) + (k - Len(a))
      BY <2>2, <1>1, <1>3
    <3>2. QED
      BY <3>1
  <2>3. QED
    BY <2>1, <2>2
<1>8. /\ \A k \in 1..Len(a) : f[k] \in A /\ a[k].type = "flow_removed" /\ SameKey(a[k], t[f[k]])
      /\ \A k \in 1..Len(b) : g[k] \in B /\ b[k].type = "flow_removed" /\ SameKey(b[k], t[g[k]])
  BY <1>1 DEF TellsAt
<1>9. \A k \in DOMAIN c : /\ at[k] \in A \cup B /\ c[k].type = "flow_removed" /\ SameKey(c[k], t[at[k]])
                          /\ k \in 1..Len(a) <=> at[k] \in A
  <2> TAKE k \in DOMAIN c
  <2>1. CASE k \in 1..Len(a)
    BY <2>1, <1>2, <1>4, <1>8
  <2>2. CASE \E m \in 1..Len(b) : k = Len(a) + m
    <3>1. PICK m \in 1..Len(b) : k = Len(a) + m
      BY <2>2
    <3>2. k \notin 1..Len(a) /\ at[k] = g[m] /\ c[k] = b[m]
      BY <3>1, <1>1, <1>2, <1>5
    <3>3. QED
      BY <3>2, <1>8
  <2>3. QED
    BY <2>1, <2>2, <1>7
<1>10. \A j, k \in DOMAIN c : at[j] = at[k] => j = k
  <2> SUFFICES ASSUME NEW j \in DOMAIN c, NEW k \in DOMAIN c, at[j] = at[k]
               PROVE  j = k
    OBVIOUS
  <2>1. j \in 1..Len(a) <=> k \in 1..Len(a)
    BY <1>9
  <2>2. CASE j \in 1..Len(a)
    <3>1. f[j] = f[k] /\ k \in 1..Len(a)
      BY <2>1, <2>2, <1>4
    <3>2. QED
      BY <3>1, <2>2, <1>1 DEF TellsAt
  <2>3. CASE j \notin 1..Len(a)
    <3>1. PICK m \in 1..Len(b), n \in 1..Len(b) : j = Len(a) + m /\ k = Len(a) + n
      BY <2>1, <2>3, <1>7
    <3>2. g[m] = g[n]
      BY <3>1, <1>5
    <3>3. QED
      BY <3>1, <3>2, <1>1 DEF TellsAt
  <2>4. QED
    BY <2>2, <2>3
<1>11. \A i \in A \cup B : t[i].rem => \E k \in DOMAIN c : at[k] = i
  <2> SUFFICES ASSUME NEW i \in A \cup B, t[i].rem
               PROVE  \E k \in DOMAIN c : at[k] = i
    OBVIOUS
  <2>1. CASE i \in A
    <3>1. PICK k \in 1..Len(a) : f[k] = i
      BY <2>1, <1>1 DEF TellsAt
    <3>2. QED
      BY <3>1, <1>4
  <2>2. CASE i \in B
    <3>1. PICK k \in 1..Len(b) : g[k] = i
      BY <2>2, <1>1 DEF TellsAt
    <3>2. QED
      BY <3>1, <1>5
  <2>3. QED
    BY <2>1, <2>2
<1>12. at \in [DOMAIN c -> A \cup B]
  BY <1>6, <1>9
<1>13. TellsAt(c, t, A \cup B, at)
  BY <1>9, <1>10, <1>11, <1>12 DEF TellsAt
<1>14. QED
  BY <1>13 DEF c

-----------------------------------------------------------------------------
(* Flow modifications                                                      *)

(* The switch while a handler runs.                                        *)
Running_(w) ==
  DOMAIN w = {"buffer", "out", "ok", "raised", "packet", "touched"} /\ IsList(w.out)

(* Before an action is applied to a frame.                                 *)
Quiet(w) ==
  /\ Running_(w) /\ w.buffer = buffer /\ w.raised = FALSE
  /\ \A k \in DOMAIN w.out : w.out[k].type # "packet_in"

LEMMA RunningQuiet == Quiet(Running) /\ Running.out = <<>>
<1>1. Running.out = <<>> /\ DOMAIN <<>> = {}
  BY DEF Running
<1>2. QED
  BY <1>1, EmptyList DEF Quiet, Running_, Running

LEMMA SendError ==
  ASSUME NEW w, Quiet(w), w.out = <<>>, NEW type
  PROVE  Quiet(Send(w, error(type))) /\ NoneRemoved(Send(w, error(type)).out)
<1> DEFINE u == Send(w, error(type))
<1>1. CASE conn.up
  <2>1. u = [w EXCEPT !.out = Append(@, error(type))]
    BY <1>1 DEF Send
  <2>2. DOMAIN u = DOMAIN w /\ u.out = Append(<<>>, error(type)) /\ u.buffer = w.buffer
        /\ u.raised = w.raised
    BY <2>1 DEF Quiet, Running_
  <2>3. IsList(u.out) /\ Len(u.out) = 1 /\ u.out[1] = error(type)
    <3> DEFINE s == <<>>
    <3>1. IsList(s) /\ Len(s) = 0
      BY EmptyList
    <3> HIDE DEF s
    <3>2. IsList(Append(s, error(type))) /\ Len(Append(s, error(type))) = Len(s) + 1
          /\ Append(s, error(type))[Len(s) + 1] = error(type)
      BY <3>1, AppendList
    <3>3. u.out = Append(s, error(type))
      BY <2>2, Zenon DEF s
    <3>4. QED
      BY <3>1, <3>2, <3>3
  <2>4. DOMAIN u.out = 1..1
    BY <2>3, ListFacts
  <2> HIDE DEF u
  <2>5. \A k \in DOMAIN u.out : u.out[k].type = "error"
    BY <2>3, <2>4 DEF error
  <2>6. QED
    BY <2>2, <2>3, <2>5 DEF Quiet, Running_, NoneRemoved, u
<1>2. CASE ~conn.up
  <2>1. u = w /\ DOMAIN w.out = {}
    BY <1>2 DEF Send
  <2>2. QED
    BY <2>1 DEF NoneRemoved
<1>3. QED
  BY <1>1, <1>2

(* What a flow modification makes of the table, and reports.               *)
Modified(r, t, tm) ==
  /\ TableInv(r.table, tm)
  /\ Quiet(r.w) /\ (conn.up => Reported(t, r.table, r.w.out))

LEMMA FlowModAdd ==
  ASSUME NEW t, NEW tm \in 0..Period, TableInv(t, tm), NEW w, Quiet(w), w.out = <<>>, NEW fm,
         NEW new \in EntryT, new.age = 0, new.untouched = 0, new.priority = fm.priority,
         fm.command = "ADD" \/ \A i \in DOMAIN t : ~SameKey(t[i], new)
  PROVE  Modified(flow_mod_add(t, w, fm, new), t, tm)
<1> DEFINE same == {i \in DOMAIN t : is_matched_by(t[i], new.match, fm.priority, TRUE, NONE)}
<1> DEFINE u == IF fm.command = "ADD" THEN keep(t, same) ELSE t
<1> DEFINE r == flow_mod_add(t, w, fm, new)
<1>1. r = IF fm.emerg THEN [table |-> t, w |-> Send(w, error("flow_mod_failed"))]
          ELSE IF fm.overlap /\ check_for_overlapping_entry(t, new)
          THEN [table |-> t, w |-> Send(w, error("overlap"))]
          ELSE IF Len(u) >= MaxEntries THEN [table |-> u, w |-> Send(w, error("all_tables_full"))]
          ELSE [table |-> add_entry(u, new), w |-> w]
  BY DEF flow_mod_add
<1>2. same = {i \in DOMAIN t : SameKey(t[i], new)}
  BY DEF is_matched_by, SameKey
<1> HIDE DEF same, r
<1>3. t \in Seq(EntryT) /\ Len(t) <= MaxEntries /\ Len(t) \in Nat
  BY DEF TableInv
<1>4. TableInv(u, tm)
  BY KeepInv
<1>5. \A i \in DOMAIN u : ~SameKey(u[i], new)
  <2>1. CASE fm.command = "ADD"
    <3>1. PICK at : Kept(keep(t, same), t, DOMAIN t \ same, at)
      BY <1>3, KeepFacts
    <3>2. \A i \in DOMAIN keep(t, same) : at[i] \in DOMAIN t \ same /\ keep(t, same)[i] = t[at[i]]
      BY <3>1 DEF Kept
    <3>3. QED
      BY <2>1, <3>2, <1>2
  <2>2. CASE fm.command # "ADD"
    BY <2>2
  <2>3. QED
    BY <2>1, <2>2
<1>6. \A i \in DOMAIN t : SameKey(t[i], new) \/ \E j \in DOMAIN u : u[j] = t[i]
  <2>1. CASE fm.command = "ADD"
    <3>1. PICK at : Kept(keep(t, same), t, DOMAIN t \ same, at)
      BY <1>3, KeepFacts
    <3> TAKE i \in DOMAIN t
    <3>2. CASE i \in same
      BY <3>2, <1>2
    <3>3. CASE i \notin same
      <4>1. PICK j \in DOMAIN keep(t, same) : at[j] = i
        BY <3>1, <3>3 DEF Kept
      <4>2. keep(t, same)[j] = t[i]
        BY <3>1, <4>1 DEF Kept
      <4>3. QED
        BY <4>1, <4>2, <2>1
    <3>4. QED
      BY <3>2, <3>3
  <2>2. CASE fm.command # "ADD"
    BY <2>2
  <2>3. QED
    BY <2>1, <2>2
<1>7. Len(u) >= MaxEntries => \A i \in DOMAIN t : ~SameKey(t[i], new)
  <2>1. CASE fm.command = "ADD"
    <3>1. same \cap DOMAIN t # {} => Len(keep(t, same)) < Len(t)
      BY <1>3, KeepFacts
    <3>2. Len(keep(t, same)) \in Nat
      <4>1. keep(t, same) \in Seq(EntryT)
        BY <1>3, KeepFacts
      <4>2. QED
        BY <4>1
    <3>3. Len(keep(t, same)) >= MaxEntries => same \cap DOMAIN t = {}
      BY <3>1, <3>2, <1>3, Sizes
    <3>4. QED
      BY <2>1, <3>3, <1>2
  <2>2. CASE fm.command # "ADD"
    BY <2>2
  <2>3. QED
    BY <2>1, <2>2
<1> HIDE DEF u
<1>8. AllStay(t, t)
  BY DEF AllStay, SameKey
<1>9. ASSUME NEW type
      PROVE  LET x == [table |-> t, w |-> Send(w, error(type))] IN Modified(x, t, tm)
  <2>1. Quiet(Send(w, error(type))) /\ NoneRemoved(Send(w, error(type)).out)
    BY SendError
  <2>2. Reported(t, t, Send(w, error(type)).out)
    BY <2>1, <1>8, NothingLeaves
  <2>3. QED
    BY <2>1, <2>2 DEF Modified
<1>10. CASE fm.emerg
  <2>1. r = [table |-> t, w |-> Send(w, error("flow_mod_failed"))]
    BY <1>1, <1>10
  <2>2. QED
    BY <2>1, <1>9 DEF r
<1>11. CASE ~fm.emerg /\ fm.overlap /\ check_for_overlapping_entry(t, new)
  <2>1. r = [table |-> t, w |-> Send(w, error("overlap"))]
    BY <1>1, <1>11
  <2>2. QED
    BY <2>1, <1>9 DEF r
<1>12. CASE ~fm.emerg /\ ~(fm.overlap /\ check_for_overlapping_entry(t, new)) /\ Len(u) >= MaxEntries
  <2>1. r = [table |-> u, w |-> Send(w, error("all_tables_full"))]
    BY <1>1, <1>12
  <2>2. Quiet(Send(w, error("all_tables_full"))) /\ NoneRemoved(Send(w, error("all_tables_full")).out)
    BY SendError
  <2>3. AllStay(t, u)
    BY <1>6, <1>7, <1>12 DEF AllStay, SameKey
  <2>4. Reported(t, u, Send(w, error("all_tables_full")).out)
    BY <2>2, <2>3, NothingLeaves
  <2>5. QED
    BY <2>1, <2>2, <2>4, <1>4 DEF Modified, r
<1>13. CASE ~fm.emerg /\ ~(fm.overlap /\ check_for_overlapping_entry(t, new)) /\ ~(Len(u) >= MaxEntries)
  <2>1. r = [table |-> add_entry(u, new), w |-> w]
    BY <1>1, <1>13
  <2>2. Len(u) < MaxEntries
    <3>1. Len(u) \in Nat
      BY <1>4 DEF TableInv
    <3>2. QED
      BY <3>1, <1>13, Sizes
  <2>3. /\ TableInv(add_entry(u, new), tm)
        /\ \E j \in DOMAIN add_entry(u, new) : add_entry(u, new)[j] = new
        /\ \A i \in DOMAIN u : \E j \in DOMAIN add_entry(u, new) : add_entry(u, new)[j] = u[i]
    BY <2>2, <1>4, <1>5, AddInv
  <2>4. AllStay(t, add_entry(u, new))
    <3> SUFFICES ASSUME NEW i \in DOMAIN t
                 PROVE  \E j \in DOMAIN add_entry(u, new) : SameKey(add_entry(u, new)[j], t[i])
      BY DEF AllStay
    <3>1. CASE SameKey(t[i], new)
      BY <3>1, <2>3 DEF SameKey
    <3>2. CASE \E j \in DOMAIN u : u[j] = t[i]
      BY <3>2, <2>3 DEF SameKey
    <3>3. QED
      BY <3>1, <3>2, <1>6
  <2>5. DOMAIN w.out = {}
    BY EmptyList
  <2>6. NoneRemoved(w.out)
    BY <2>5 DEF NoneRemoved
  <2>7. Reported(t, add_entry(u, new), w.out)
    BY <2>4, <2>6, NothingLeaves
  <2>8. QED
    BY <2>1, <2>3, <2>7 DEF Modified, r
<1>14. QED
  BY <1>10, <1>11, <1>12, <1>13

LEMMA FlowModModify ==
  ASSUME NEW t, NEW tm \in 0..Period, TableInv(t, tm), NEW w, Quiet(w), w.out = <<>>,
         NEW fm \in peers.flow_mods, NEW new \in EntryT, new.age = 0, new.untouched = 0,
         new.priority = fm.priority, NEW strict \in BOOLEAN
  PROVE  Modified(flow_mod_modify(t, w, fm, new, strict), t, tm)
<1> DEFINE hit == {i \in DOMAIN t : is_matched_by(t[i], new.match, fm.priority, strict, NONE)}
<1> DEFINE u == [i \in DOMAIN t |-> IF i \in hit THEN [t[i] EXCEPT !.actions = fm.actions] ELSE t[i]]
<1> DEFINE r == flow_mod_modify(t, w, fm, new, strict)
<1>1. r = IF hit # {} THEN [table |-> u, w |-> w] ELSE flow_mod_add(t, w, fm, new)
  BY DEF flow_mod_modify
<1>2. \A i \in DOMAIN t : SameKey(t[i], new) => i \in hit
  BY DEF is_matched_by, matches_with_wildcards, SameKey
<1>3. TableInv(u, tm) /\ DOMAIN u = DOMAIN t /\ \A i \in DOMAIN t : SameKey(u[i], t[i])
  <2> HIDE DEF hit
  <2> QED
    BY ModifyInv, Zenon
<1> HIDE DEF hit, u, r
<1>4. CASE hit # {}
  <2>1. r = [table |-> u, w |-> w]
    BY <1>1, <1>4
  <2>2. AllStay(t, u)
    BY <1>3 DEF AllStay
  <2>3. NoneRemoved(w.out)
    <3>1. DOMAIN w.out = {}
      BY EmptyList
    <3>2. QED
      BY <3>1 DEF NoneRemoved
  <2>4. Reported(t, u, w.out)
    BY <2>2, <2>3, NothingLeaves
  <2>5. QED
    BY <2>1, <2>4, <1>3 DEF Modified, r
<1>5. CASE hit = {}
  <2>1. r = flow_mod_add(t, w, fm, new) /\ \A i \in DOMAIN t : ~SameKey(t[i], new)
    BY <1>1, <1>2, <1>5
  <2>2. Modified(flow_mod_add(t, w, fm, new), t, tm)
    BY <2>1, FlowModAdd
  <2>3. QED
    BY <2>1, <2>2 DEF r
<1>6. QED
  BY <1>4, <1>5

LEMMA FlowModDelete ==
  ASSUME NEW t, NEW tm, TableInv(t, tm), NEW w, Quiet(w), w.out = <<>>, NEW fm, NEW new, NEW strict
  PROVE  Modified(flow_mod_delete(t, w, fm, new, strict), t, tm)
<1> DEFINE gone == {i \in DOMAIN t : is_matched_by(t[i], new.match, fm.priority, strict, fm.out_port)}
<1> DEFINE msgs == flow_removed(t, gone, "delete")
<1> DEFINE r == flow_mod_delete(t, w, fm, new, strict)
<1>1. r = [table |-> keep(t, gone), w |-> SendAll(w, msgs)]
  BY DEF flow_mod_delete
<1>2. gone \in SUBSET DOMAIN t /\ t \in Seq(EntryT)
  BY DEF TableInv
<1> HIDE DEF gone
<1>3. IsList(msgs) /\ \E at : TellsAt(msgs, t, gone, at)
  BY <1>2, FlowRemovedTells
<1> HIDE DEF msgs, r
<1>4. PICK at : TellsAt(msgs, t, gone, at)
  BY <1>3
<1>5. Reported(t, keep(t, gone), msgs)
  BY <1>2, <1>4, RemovedReported
<1>6. TableInv(keep(t, gone), tm)
  BY KeepInv
<1>7. CASE conn.up
  <2> DEFINE x == SendAll(w, msgs)
  <2>1. x = [w EXCEPT !.out = @ \o msgs]
    BY <1>7 DEF SendAll
  <2>2. DOMAIN x = DOMAIN w /\ x.out = <<>> \o msgs /\ x.buffer = w.buffer
        /\ x.raised = w.raised
    BY <2>1 DEF Quiet, Running_
  <2>3. <<>> \o msgs = msgs
    BY <1>3, ConcatEmptySeq DEF IsList
  <2>4. \A k \in DOMAIN msgs : msgs[k].type # "packet_in"
    BY <1>4 DEF TellsAt
  <2> HIDE DEF x
  <2>5. Quiet(x) /\ x.out = msgs
    BY <2>2, <2>3, <2>4, <1>3 DEF Quiet, Running_
  <2>6. QED
    BY <2>5, <1>1, <1>5, <1>6 DEF Modified, r, x
<1>8. CASE ~conn.up
  <2>1. SendAll(w, msgs) = w
    BY <1>8 DEF SendAll
  <2>2. QED
    BY <2>1, <1>1, <1>6, <1>8 DEF Modified, r
<1>9. QED
  BY <1>7, <1>8

LEMMA FlowMod ==
  ASSUME peers \in Peers, NEW t, NEW tm \in 0..Period, TableInv(t, tm), NEW w, Quiet(w), w.out = <<>>,
         NEW fm \in peers.flow_mods, fm.command # "UNKNOWN"
  PROVE  Modified(flow_mod(t, w, fm), t, tm)
<1> DEFINE new == from_flow_mod(fm, unwire(wire(fm.match)))
<1>1. /\ Match(fm.match) /\ fm.priority \in Nat /\ fm.idle \in Nat /\ fm.hard \in Nat
      /\ fm.rem \in BOOLEAN
      /\ fm.command \in {"ADD", "MODIFY", "MODIFY_STRICT", "DELETE", "DELETE_STRICT", "UNKNOWN"}
  BY PeersAssumption
<1>2. unwire(wire(fm.match)) = fix(fm.match)
  BY <1>1, MatchArrives
<1>3. new \in EntryT /\ new.age = 0 /\ new.untouched = 0 /\ new.priority = fm.priority
  BY <1>1, <1>2 DEF EntryT, from_flow_mod
<1>4. flow_mod(t, w, fm) =
        CASE fm.command = "ADD" -> flow_mod_add(t, w, fm, new)
          [] fm.command = "MODIFY" -> flow_mod_modify(t, w, fm, new, FALSE)
          [] fm.command = "MODIFY_STRICT" -> flow_mod_modify(t, w, fm, new, TRUE)
          [] fm.command = "DELETE" -> flow_mod_delete(t, w, fm, new, FALSE)
          [] fm.command = "DELETE_STRICT" -> flow_mod_delete(t, w, fm, new, TRUE)
  BY DEF flow_mod
<1> HIDE DEF new
<1>5. CASE fm.command = "ADD"
  <2>1. flow_mod(t, w, fm) = flow_mod_add(t, w, fm, new)
    BY <1>4, <1>5
  <2>2. QED
    BY <2>1, <1>3, <1>5, FlowModAdd
<1>6. CASE fm.command = "MODIFY"
  <2>1. flow_mod(t, w, fm) = flow_mod_modify(t, w, fm, new, FALSE)
    BY <1>4, <1>6
  <2>2. QED
    BY <2>1, <1>3, FlowModModify
<1>7. CASE fm.command = "MODIFY_STRICT"
  <2>1. flow_mod(t, w, fm) = flow_mod_modify(t, w, fm, new, TRUE)
    BY <1>4, <1>7
  <2>2. QED
    BY <2>1, <1>3, FlowModModify
<1>8. CASE fm.command = "DELETE"
  <2>1. flow_mod(t, w, fm) = flow_mod_delete(t, w, fm, new, FALSE)
    BY <1>4, <1>8
  <2>2. QED
    BY <2>1, FlowModDelete
<1>9. CASE fm.command = "DELETE_STRICT"
  <2>1. flow_mod(t, w, fm) = flow_mod_delete(t, w, fm, new, TRUE)
    BY <1>4, <1>9
  <2>2. QED
    BY <2>1, FlowModDelete
<1>10. QED
  BY <1>1, <1>5, <1>6, <1>7, <1>8, <1>9

-----------------------------------------------------------------------------
(* Frames and buffers while a handler runs                                 *)

HasId(p, d) == "id" \in DOMAIN p /\ p["id"] = d
HoldsFrame(b, d, q) == HasId(b.packet, d) /\ b.in_port = q
SaysPacketIn(msg, i) == msg.type = "packet_in" /\ msg.buffer_id = i
Announced(msgs, i) == \E k \in DOMAIN msgs : SaysPacketIn(msgs[k], i)

(* The slot was not in use when the handler began; it holds the frame it   *)
(* held then.                                                              *)
WasFree(i) == i \notin DOMAIN buffer \/ buffer[i] = Free
StillHolds(b, i) ==
  /\ i \in DOMAIN buffer /\ buffer[i] # Free
  /\ HoldsFrame(b, buffer[i].packet["id"], buffer[i].in_port)

(* A handler works on one frame, d, that came in at one port, q: the slots *)
(* it has filled were free, hold that frame and were announced if anybody  *)
(* listens; the others hold the frames they held, whatever was written to  *)
(* them.                                                                   *)
SlotGoes(b, i, msgs, d, q) ==
  \/ WasFree(i) /\ b = Free
  \/ WasFree(i) /\ HoldsFrame(b, d, q) /\ (~conn.up \/ Announced(msgs, i))
  \/ StillHolds(b, i)

Handles(w, d, q, pre) ==
  /\ Running_(w) /\ Extends(w.out, pre)
  /\ IsList(w.buffer) /\ DOMAIN buffer \subseteq DOMAIN w.buffer /\ Len(w.buffer) <= MaxBuffers
  /\ \A i \in DOMAIN w.buffer : SlotGoes(w.buffer[i], i, w.out, d, q)
  /\ \A k \in DOMAIN w.out :
       w.out[k].type = "packet_in" =>
         w.out[k].in_port = q /\ HasId(w.out[k].packet, d) /\ WasFree(w.out[k].buffer_id)

(* A step that only changes flags.                                         *)
LEMMA HandlesSame ==
  ASSUME NEW w, NEW d, NEW q, NEW pre, Handles(w, d, q, pre),
         NEW u, DOMAIN u = DOMAIN w, u.out = w.out, u.buffer = w.buffer
  PROVE  Handles(u, d, q, pre)
BY DEF Handles, Running_

(* A step that sends something else.                                       *)
Others(msgs, old) ==
  /\ IsList(msgs) /\ Len(old) <= Len(msgs)
  /\ \A k \in 1..Len(old) : msgs[k] = old[k]
  /\ \A k \in (Len(old) + 1)..Len(msgs) : msgs[k].type \notin {"flow_removed", "packet_in"}

LEMMA ExtendsMore ==
  ASSUME NEW pre, IsList(pre), NEW old, Extends(old, pre), NEW msgs, IsList(msgs), Len(old) <= Len(msgs),
         \A k \in 1..Len(old) : msgs[k] = old[k],
         \A k \in (Len(old) + 1)..Len(msgs) : msgs[k].type # "flow_removed"
  PROVE  Extends(msgs, pre)
<1>1. Len(pre) \in Nat /\ Len(old) \in Nat /\ Len(msgs) \in Nat /\ Len(pre) <= Len(old)
  BY ListFacts DEF Extends
<1>2. ASSUME NEW k \in 1..Len(pre)
      PROVE  msgs[k] = pre[k]
  <2>1. k \in 1..Len(old)
    BY <1>1
  <2>2. QED
    BY <2>1 DEF Extends
<1>3. ASSUME NEW k \in (Len(pre) + 1)..Len(msgs)
      PROVE  msgs[k].type # "flow_removed"
  <2>1. CASE k <= Len(old)
    <3>1. k \in 1..Len(old) /\ k \in (Len(pre) + 1)..Len(old)
      BY <2>1, <1>1
    <3>2. QED
      BY <3>1 DEF Extends
  <2>2. CASE ~(k <= Len(old))
    <3>1. k \in (Len(old) + 1)..Len(msgs)
      BY <2>2, <1>1
    <3>2. QED
      BY <3>1
  <2>3. QED
    BY <2>1, <2>2
<1>4. Len(pre) <= Len(msgs)
  BY <1>1
<1>5. QED
  BY <1>2, <1>3, <1>4 DEF Extends

LEMMA HandlesOthers ==
  ASSUME NEW w, NEW d, NEW q, NEW pre, IsList(pre), Handles(w, d, q, pre),
         NEW u, DOMAIN u = DOMAIN w, Others(u.out, w.out), u.buffer = w.buffer
  PROVE  Handles(u, d, q, pre)
<1>1. IsList(w.out) /\ Extends(w.out, pre)
  BY DEF Handles, Running_
<1>2. Len(w.out) \in Nat /\ Len(u.out) \in Nat /\ DOMAIN w.out = 1..Len(w.out)
      /\ DOMAIN u.out = 1..Len(u.out) /\ Len(w.out) <= Len(u.out)
  BY <1>1, ListFacts DEF Others
<1>3. \A k \in DOMAIN w.out : k \in DOMAIN u.out /\ u.out[k] = w.out[k]
  BY <1>2 DEF Others
<1>4. \A k \in DOMAIN u.out : k \in DOMAIN w.out \/ u.out[k].type # "packet_in"
  BY <1>2 DEF Others
<1>5. Extends(u.out, pre)
  BY <1>1, ExtendsMore DEF Others
<1>6. \A i : Announced(w.out, i) => Announced(u.out, i)
  BY <1>3 DEF Announced
<1>7. Running_(u)
  BY DEF Handles, Running_, Others
<1>8. \A k \in DOMAIN u.out :
        u.out[k].type = "packet_in" =>
          u.out[k].in_port = q /\ HasId(u.out[k].packet, d) /\ WasFree(u.out[k].buffer_id)
  BY <1>3, <1>4 DEF Handles
<1>9. QED
  BY <1>5, <1>6, <1>7, <1>8 DEF Handles, SlotGoes

(* Sending or forwarding one message.                                      *)
LEMMA OthersAppend ==
  ASSUME NEW old, IsList(old), NEW msg, msg.type \notin {"flow_removed", "packet_in"}
  PROVE  Others(Append(old, msg), old)
<1> DEFINE s == Append(old, msg)
<1>1. IsList(s) /\ Len(s) = Len(old) + 1 /\ (\A i \in 1..Len(old) : s[i] = old[i]) /\ s[Len(old) + 1] = msg
  BY AppendList
<1>2. Len(old) \in Nat
  BY ListFacts
<1> HIDE DEF s
<1>3. \A k \in (Len(old) + 1)..Len(s) : k = Len(old) + 1
  BY <1>1, <1>2
<1>4. Len(old) <= Len(s)
  BY <1>1, <1>2
<1>5. Others(s, old)
  BY <1>1, <1>3, <1>4 DEF Others
<1>6. QED
  BY <1>5 DEF s

LEMMA OthersConcat ==
  ASSUME NEW old, IsList(old), NEW new, IsList(new),
         \A k \in DOMAIN new : new[k].type \notin {"flow_removed", "packet_in"}
  PROVE  Others(old \o new, old)
<1> DEFINE s == old \o new
<1>1. IsList(s) /\ Len(s) = Len(old) + Len(new) /\ (\A i \in 1..Len(old) : s[i] = old[i])
      /\ \A i \in 1..Len(new) : s[Len(old) + i] = new[i]
  BY ConcatList
<1>2. Len(old) \in Nat /\ Len(new) \in Nat /\ DOMAIN new = 1..Len(new)
  BY ListFacts
<1> HIDE DEF s
<1>3. ASSUME NEW k \in (Len(old) + 1)..Len(s)
      PROVE  s[k].type \notin {"flow_removed", "packet_in"}
  <2>1. k - Len(old) \in 1..Len(new) /\ Len(old) + (k - Len(old)) = k
    BY <1>1, <1>2
  <2>2. s[k] = new[k - Len(old)]
    BY <2>1, <1>1
  <2>3. QED
    BY <2>1, <2>2, <1>2
<1>4. Len(old) <= Len(s)
  BY <1>1, <1>2
<1>5. Others(s, old)
  BY <1>1, <1>3, <1>4 DEF Others
<1>6. QED
  BY <1>5 DEF s

(* A running handler goes on.                                              *)
Goes(u, w, d, q, pre) ==
  Handles(u, d, q, pre) /\ (HasId(w.packet, d) => HasId(u.packet, d))

LEMMA SendGoes ==
  ASSUME NEW w, NEW d, NEW q, NEW pre, IsList(pre), Handles(w, d, q, pre), NEW type
  PROVE  LET u == Send(w, error(type))
         IN Goes(u, w, d, q, pre) /\ DOMAIN u = DOMAIN w /\ u.packet = w.packet
<1> DEFINE u == Send(w, error(type))
<1>1. CASE conn.up
  <2>1. u = [w EXCEPT !.out = Append(@, error(type))]
    BY <1>1 DEF Send
  <2>2. DOMAIN u = DOMAIN w /\ u.out = Append(w.out, error(type)) /\ u.buffer = w.buffer
        /\ u.packet = w.packet
    BY <2>1 DEF Handles, Running_
  <2>3. IsList(w.out) /\ error(type).type \notin {"flow_removed", "packet_in"}
    BY DEF Handles, Running_, error
  <2>4. Others(u.out, w.out)
    BY <2>2, <2>3, OthersAppend
  <2> HIDE DEF u
  <2>5. Handles(u, d, q, pre)
    BY <2>2, <2>4, HandlesOthers
  <2>6. QED
    BY <2>2, <2>5 DEF Goes, u
<1>2. CASE ~conn.up
  BY <1>2 DEF Send, Goes
<1>3. QED
  BY <1>1, <1>2

LEMMA RealSendGoes ==
  ASSUME NEW w, NEW d, NEW q, NEW pre, IsList(pre), Handles(w, d, q, pre),
         NEW p, NEW no, NEW in_port, NEW allow
  PROVE  Goes(real_send(w, p, no, in_port, allow), w, d, q, pre)
<1> DEFINE u == real_send(w, p, no, in_port, allow)
<1> DEFINE msg == [type |-> "forward", port |-> no, packet |-> p]
<1>1. u = w \/ u = [w EXCEPT !.out = Append(@, msg)]
  BY DEF real_send
<1>2. CASE u = w
  BY <1>2 DEF Goes
<1>3. CASE u = [w EXCEPT !.out = Append(@, msg)]
  <2>1. msg.type \notin {"flow_removed", "packet_in"}
    OBVIOUS
  <2> HIDE DEF u, msg
  <2>2. DOMAIN u = DOMAIN w /\ u.out = Append(w.out, msg) /\ u.buffer = w.buffer
        /\ u.packet = w.packet
    BY <1>3 DEF Handles, Running_
  <2>3. IsList(w.out)
    BY DEF Handles, Running_
  <2>4. Others(u.out, w.out)
    BY <2>1, <2>2, <2>3, OthersAppend
  <2>5. Handles(u, d, q, pre)
    BY <2>2, <2>4, HandlesOthers
  <2>6. QED
    BY <2>2, <2>5 DEF Goes, u
<1>4. QED
  BY <1>1, <1>2, <1>3

LEMMA RealSendAllGoes ==
  ASSUME NEW w, NEW d, NEW q, NEW pre, IsList(pre), Handles(w, d, q, pre),
         NEW p, NEW to, to \subseteq PortNos, NEW in_port
  PROVE  Goes(real_send_all(w, p, to, in_port), w, d, q, pre)
<1> DEFINE ready == {n \in to \ {in_port} :
                  ports[n].config \cap {"NO_FWD", "PORT_DOWN"} = {} /\ ~ports[n].link_down}
<1> DEFINE msg(k) == [type |-> "forward", port |-> SetToSeq(ready)[k], packet |-> p]
<1> DEFINE new == [k \in 1..Cardinality(ready) |-> msg(k)]
<1> DEFINE u == real_send_all(w, p, to, in_port)
<1>1. u = [w EXCEPT !.out = @ \o new]
  BY DEF real_send_all
<1>2. Cardinality(ready) \in Nat
  <2>1. ready \in SUBSET PortNos
    OBVIOUS
  <2> HIDE DEF ready
  <2>2. IsFiniteSet(ready)
    BY <2>1, SizesAssumption, FS_Subset
  <2>3. QED
    BY <2>2, FS_CardinalityType
<1> HIDE DEF ready
<1>3. \A k \in 1..Cardinality(ready) : msg(k).type = "forward"
  OBVIOUS
<1> HIDE DEF msg
<1>4. DOMAIN new = 1..Cardinality(ready) /\ \A k \in DOMAIN new : new[k].type = "forward"
  BY <1>3
<1> DEFINE R == {new[k] : k \in DOMAIN new}
<1>5. new \in [1..Cardinality(ready) -> R]
  BY <1>4
<1> HIDE DEF R, new, u
<1>6. IsList(new)
  <2>1. new \in Seq(R)
    BY <1>2, <1>5
  <2>2. QED
    BY <2>1, ListOf
<1>7. DOMAIN u = DOMAIN w /\ u.out = w.out \o new /\ u.buffer = w.buffer
      /\ u.packet = w.packet
  BY <1>1 DEF Handles, Running_
<1>8. IsList(w.out)
  BY DEF Handles, Running_
<1>9. Others(u.out, w.out)
  BY <1>4, <1>6, <1>7, <1>8, OthersConcat
<1>10. Handles(u, d, q, pre)
  BY <1>7, <1>9, HandlesOthers
<1>11. QED
  BY <1>7, <1>10 DEF Goes, u

(* _buffer_packet fills one slot, or none.                                 *)
LEMMA BufferPacket ==
  ASSUME NEW w, IsList(w.buffer), Len(w.buffer) <= MaxBuffers, NEW p, NEW in_port
  PROVE  LET i == buffer_packet(w, p, in_port)[1]
             b == buffer_packet(w, p, in_port)[2]
         IN /\ IsList(b) /\ Len(w.buffer) <= Len(b) /\ Len(b) <= MaxBuffers
            /\ i \notin DOMAIN w.buffer \/ w.buffer[i] = Free
            /\ \A j \in DOMAIN b :
                 \/ j = i /\ b[j] = [packet |-> p, in_port |-> in_port]
                 \/ j # i /\ j \in DOMAIN w.buffer /\ b[j] = w.buffer[j]
<1> DEFINE s == w.buffer
<1> DEFINE held == [packet |-> p, in_port |-> in_port]
<1> DEFINE I == {i \in 1..Len(s) : s[i] = Free}
<1> DEFINE free == IF I # {} THEN Min(I) ELSE 0
<1> DEFINE r == buffer_packet(w, p, in_port)
<1>1. r = IF free # 0 THEN <<free, [s EXCEPT ![free] = held]>>
          ELSE IF Len(s) >= MaxBuffers THEN <<NONE, s>>
          ELSE <<Len(s) + 1, Append(s, held)>>
  BY DEF buffer_packet, SelectInSeq
<1>2. Len(s) \in Nat /\ DOMAIN s = 1..Len(s) /\ IsList(s) /\ Len(s) <= MaxBuffers
  BY ListFacts
<1>3. free = 0 \/ (free \in 1..Len(s) /\ s[free] = Free)
  <2>1. I \subseteq Nat /\ I \subseteq 1..Len(s)
    BY <1>2
  <2> HIDE DEF I
  <2>2. I # {} => Min(I) \in I
    BY <2>1, MinFacts
  <2>3. \A j \in I : s[j] = Free
    BY Zenon DEF I
  <2>4. QED
    BY <2>1, <2>2, <2>3
<1> HIDE DEF r, free, s, held
<1> DEFINE Good(i, b) ==
     /\ IsList(b) /\ Len(s) <= Len(b) /\ Len(b) <= MaxBuffers
     /\ i \notin DOMAIN s \/ s[i] = Free
     /\ \A j \in DOMAIN b : (j = i /\ b[j] = held) \/ (j # i /\ j \in DOMAIN s /\ b[j] = s[j])
<1>4. CASE free # 0
  <2> DEFINE b == [s EXCEPT ![free] = held]
  <2>1. r[1] = free /\ r[2] = b
    BY <1>1, <1>4
  <2>2. free \in 1..Len(s) /\ s[free] = Free
    BY <1>3, <1>4
  <2>3. DOMAIN b = 1..Len(s) /\ b[free] = held /\ \A j \in DOMAIN b : j # free => b[j] = s[j]
    BY <1>2, <2>2
  <2> DEFINE R == {b[j] : j \in DOMAIN b}
  <2>4. b = [j \in DOMAIN b |-> b[j]]
    BY <1>2
  <2> HIDE DEF b
  <2>5. b \in [1..Len(s) -> R]
    BY <2>3, <2>4
  <2> HIDE DEF R
  <2>6. b \in Seq(R) /\ Len(b) = Len(s)
    BY <2>5, <1>2
  <2>7. IsList(b)
    BY <2>6, ListOf
  <2>8. Good(free, b)
    <3>1. \A j \in DOMAIN b : (j = free /\ b[j] = held) \/ (j # free /\ j \in DOMAIN s /\ b[j] = s[j])
      <4> TAKE j \in DOMAIN b
      <4>1. CASE j = free
        BY <4>1, <2>3
      <4>2. CASE j # free
        BY <4>2, <2>3, <1>2
      <4>3. QED
        BY <4>1, <4>2
    <3>2. Len(s) <= Len(b) /\ Len(b) <= MaxBuffers
      BY <1>2, <2>6
    <3>3. QED
      BY <3>1, <3>2, <2>2, <2>7
  <2>9. QED
    BY <2>1, <2>8 DEF r, s, held
<1>5. CASE free = 0 /\ Len(s) >= MaxBuffers
  <2>1. r[1] = NONE /\ r[2] = s
    BY <1>1, <1>5
  <2>2. \A j \in DOMAIN s : j # NONE
    BY <1>2 DEF NONE
  <2>3. Good(NONE, s)
    BY <1>2, <2>2
  <2>4. QED
    BY <2>1, <2>3 DEF r, s, held
<1>6. CASE free = 0 /\ ~(Len(s) >= MaxBuffers)
  <2> DEFINE b == Append(s, held)
  <2>1. r[1] = Len(s) + 1 /\ r[2] = b
    BY <1>1, <1>6
  <2>2. IsList(b) /\ Len(b) = Len(s) + 1 /\ (\A i \in 1..Len(s) : b[i] = s[i]) /\ b[Len(s) + 1] = held
    BY <1>2, AppendList
  <2>3. DOMAIN b = 1..(Len(s) + 1)
    BY <2>2, ListFacts
  <2> HIDE DEF b
  <2>4. \A j \in DOMAIN b : j = Len(s) + 1 \/ (j # Len(s) + 1 /\ j \in 1..Len(s))
    <3> TAKE j \in DOMAIN b
    <3>1. CASE j = Len(s) + 1
      BY <3>1
    <3>2. CASE j # Len(s) + 1
      <4>1. j \in 1..(Len(s) + 1)
        BY <2>3
      <4>2. j \in 1..Len(s)
        BY <4>1, <3>2, <1>2
      <4>3. QED
        BY <3>2, <4>2
    <3>3. QED
      BY <3>1, <3>2
  <2>5. Len(s) <= Len(b) /\ Len(b) <= MaxBuffers
    BY <1>2, <1>6, <2>2, Sizes
  <2>6. Good(Len(s) + 1, b)
    <3>1. Len(s) + 1 \notin DOMAIN s
      BY <1>2
    <3>2. QED
      BY <1>2, <2>2, <2>4, <2>5, <3>1
  <2>7. QED
    BY <2>1, <2>6 DEF r, s, held
<1>7. QED
  BY <1>4, <1>5, <1>6

LEMMA PacketInGoes ==
  ASSUME NEW w, NEW d, NEW q, NEW pre, IsList(pre), Handles(w, d, q, pre),
         NEW p, HasId(p, d), NEW reason
  PROVE  Goes(send_packet_in(w, p, q, reason), w, d, q, pre)
<1> DEFINE i == buffer_packet(w, p, q)[1]
<1> DEFINE b == buffer_packet(w, p, q)[2]
<1> DEFINE v == [w EXCEPT !.buffer = b]
<1> DEFINE msg == [type |-> "packet_in", buffer_id |-> i, in_port |-> q, packet |-> p,
                   reason |-> reason, whole |-> i = NONE]
<1> DEFINE u == send_packet_in(w, p, q, reason)
<1>1. u = IF conn.up THEN [v EXCEPT !.out = Append(@, msg)] ELSE v
  BY DEF send_packet_in, Send
<1>2. IsList(w.buffer) /\ Len(w.buffer) <= MaxBuffers /\ DOMAIN buffer \subseteq DOMAIN w.buffer
      /\ IsList(w.out) /\ Extends(w.out, pre)
  BY DEF Handles, Running_
<1>3. /\ IsList(b) /\ Len(w.buffer) <= Len(b) /\ Len(b) <= MaxBuffers
      /\ i \notin DOMAIN w.buffer \/ w.buffer[i] = Free
      /\ \A j \in DOMAIN b :
           \/ j = i /\ b[j] = [packet |-> p, in_port |-> q]
           \/ j # i /\ j \in DOMAIN w.buffer /\ b[j] = w.buffer[j]
  BY <1>2, BufferPacket
<1>4. SaysPacketIn(msg, i) /\ msg.in_port = q /\ msg.packet = p /\ msg.type # "flow_removed"
  BY DEF SaysPacketIn
<1> HIDE DEF b, i, msg
<1>13. WasFree(i)
  <2>1. CASE i \notin DOMAIN w.buffer
    BY <2>1, <1>2 DEF WasFree
  <2>2. CASE i \in DOMAIN w.buffer /\ w.buffer[i] = Free
    <3>1. ~StillHolds(Free, i)
      BY DEF StillHolds, HoldsFrame, HasId, Free, NoPacket
    <3>2. SlotGoes(w.buffer[i], i, w.out, d, q)
      BY <2>2 DEF Handles
    <3>3. QED
      BY <2>2, <3>1, <3>2 DEF SlotGoes
  <2>3. QED
    BY <2>1, <2>2, <1>3
<1>5. DOMAIN v = DOMAIN w /\ v.buffer = b /\ v.out = w.out /\ v.packet = w.packet
  BY DEF Handles, Running_
<1> HIDE DEF v, u
<1>6. /\ DOMAIN u = DOMAIN w /\ u.buffer = b /\ u.packet = w.packet
      /\ u.out = IF conn.up THEN Append(w.out, msg) ELSE w.out
  BY <1>1, <1>5 DEF Handles, Running_
<1>7. /\ IsList(u.out) /\ Extends(u.out, pre)
      /\ \A j : Announced(w.out, j) => Announced(u.out, j)
      /\ conn.up => Announced(u.out, i)
      /\ \A k \in DOMAIN u.out :
           u.out[k].type = "packet_in" =>
             u.out[k].in_port = q /\ HasId(u.out[k].packet, d) /\ WasFree(u.out[k].buffer_id)
  <2>1. CASE conn.up
    <3> DEFINE s == Append(w.out, msg)
    <3>1. IsList(s) /\ Len(s) = Len(w.out) + 1 /\ (\A k \in 1..Len(w.out) : s[k] = w.out[k])
          /\ s[Len(w.out) + 1] = msg
      BY <1>2, AppendList
    <3>2. u.out = s
      BY <1>6, <2>1
    <3>3. Len(w.out) \in Nat /\ DOMAIN w.out = 1..Len(w.out) /\ DOMAIN s = 1..Len(s)
      BY <1>2, <3>1, ListFacts
    <3> HIDE DEF s
    <3>4. \A k \in DOMAIN s : k \in DOMAIN w.out \/ k = Len(w.out) + 1
      BY <3>1, <3>3
    <3>5. \A k \in DOMAIN w.out : k \in DOMAIN s /\ s[k] = w.out[k]
      BY <3>1, <3>3
    <3>6. Len(w.out) + 1 \in DOMAIN s /\ Len(w.out) <= Len(s)
      BY <3>1, <3>3
    <3>7. \A k \in (Len(w.out) + 1)..Len(s) : s[k].type # "flow_removed"
      <4>1. \A k \in (Len(w.out) + 1)..Len(s) : k = Len(w.out) + 1
        BY <3>1, <3>3
      <4>2. QED
        BY <4>1, <3>1, <1>4
    <3>8. Extends(s, pre)
      BY <1>2, <3>1, <3>6, <3>7, ExtendsMore
    <3>9. \A j : Announced(w.out, j) => Announced(s, j)
      BY <3>5 DEF Announced
    <3>10. Announced(s, i)
      BY <3>1, <3>6, <1>4 DEF Announced
    <3>11. \A k \in DOMAIN s :
             s[k].type = "packet_in" =>
               s[k].in_port = q /\ HasId(s[k].packet, d) /\ WasFree(s[k].buffer_id)
      <4> TAKE k \in DOMAIN s
      <4>1. CASE k \in DOMAIN w.out
        BY <4>1, <3>5, <1>6 DEF Handles
      <4>2. CASE k = Len(w.out) + 1
        BY <4>2, <3>1, <1>4, <1>13 DEF SaysPacketIn
      <4>3. QED
        BY <4>1, <4>2, <3>4
    <3>12. QED
      BY <3>1, <3>2, <3>8, <3>9, <3>10, <3>11
  <2>2. CASE ~conn.up
    <3>1. u.out = w.out
      BY <1>6, <2>2
    <3>2. QED
      BY <3>1, <2>2, <1>2, <1>6 DEF Handles
  <2>3. QED
    BY <2>1, <2>2
<1>8. DOMAIN buffer \subseteq DOMAIN b
  <2>1. /\ Len(w.buffer) \in Nat /\ DOMAIN w.buffer = 1..Len(w.buffer)
        /\ Len(b) \in Nat /\ DOMAIN b = 1..Len(b)
    BY <1>2, <1>3, ListFacts
  <2>2. DOMAIN w.buffer \subseteq DOMAIN b
    BY <2>1, <1>3
  <2>3. QED
    BY <2>2, <1>2
<1>9. \A j \in DOMAIN u.buffer : SlotGoes(u.buffer[j], j, u.out, d, q)
  <2> SUFFICES ASSUME NEW j \in DOMAIN b
               PROVE  SlotGoes(b[j], j, u.out, d, q)
    BY <1>6
  <2>1. CASE j = i /\ b[j] = [packet |-> p, in_port |-> q]
    <3>1. HoldsFrame(b[j], d, q)
      BY <2>1 DEF HoldsFrame
    <3>2. conn.up => Announced(u.out, j)
      BY <2>1, <1>7
    <3>3. QED
      BY <2>1, <3>1, <3>2, <1>13 DEF SlotGoes
  <2>2. CASE j # i /\ j \in DOMAIN w.buffer /\ b[j] = w.buffer[j]
    <3>1. SlotGoes(w.buffer[j], j, w.out, d, q)
      BY <2>2 DEF Handles
    <3>2. QED
      BY <3>1, <2>2, <1>7 DEF SlotGoes
  <2>3. QED
    BY <2>1, <2>2, <1>3
<1>10. Running_(u)
  BY <1>6, <1>7 DEF Handles, Running_
<1>11. Handles(u, d, q, pre)
  BY <1>3, <1>6, <1>7, <1>8, <1>9, <1>10 DEF Handles
<1>12. QED
  BY <1>6, <1>11 DEF Goes, u

(* The set actions leave a frame the frame it is.                          *)
LEMMA RewrittenId ==
  ASSUME NEW p, NEW d, HasId(p, d), NEW f \in Settable, NEW v
  PROVE  HasId(rewritten(p, f, v), d)
<1>1. \A g, x : g # "id" => HasId([p EXCEPT ![g] = x], d)
  BY DEF HasId
<1>2. CASE f \in {"dl_src", "dl_dst"}
  BY <1>1, <1>2 DEF rewritten, Nets, TP
<1>3. CASE f = "dl_vlan"
  BY <1>1, <1>3 DEF rewritten, Nets, TP
<1>4. CASE f = "dl_vlan_pcp"
  BY <1>4 DEF rewritten, Nets, TP, HasId
<1>5. CASE f = "strip_vlan"
  BY <1>5 DEF rewritten, Nets, TP, HasId
<1>6. CASE f \in Nets \cup {"nw_tos"}
  BY <1>1, <1>6 DEF rewritten, Nets, TP
<1>7. CASE f \in TP
  BY <1>1, <1>7 DEF rewritten, Nets, TP
<1>8. QED
  BY <1>2, <1>3, <1>4, <1>5, <1>6, <1>7 DEF Settable

LEMMA RewriteGoes ==
  ASSUME NEW w, NEW d, NEW q, NEW pre, Handles(w, d, q, pre), NEW p, HasId(p, d)
  PROVE  Goes(rewrite(w, p), w, d, q, pre)
<1> DEFINE s == w.buffer
<1> DEFINE b == [i \in DOMAIN s |->
                   IF s[i] = Free THEN Free
                   ELSE IF s[i].packet["id"] = p["id"]
                   THEN [packet |-> p, in_port |-> s[i].in_port] ELSE s[i]]
<1> DEFINE u == rewrite(w, p)
<1>1. u = [w EXCEPT !.packet = p, !.buffer = b]
  BY DEF rewrite
<1>2. IsList(s)
  BY DEF Handles
<1>3. Len(s) \in Nat /\ DOMAIN s = 1..Len(s)
  BY <1>2, ListFacts
<1>4. DOMAIN b = 1..Len(s)
  BY <1>3
<1>5. \A i \in DOMAIN s :
        \/ b[i] = s[i]
        \/ s[i].packet["id"] = p["id"] /\ b[i].packet = p /\ b[i].in_port = s[i].in_port /\ s[i] # Free
  OBVIOUS
<1>7. b = [i \in DOMAIN b |-> b[i]]
  OBVIOUS
<1> HIDE DEF b, u
<1>8. IsList(b) /\ Len(b) = Len(s)
  <2> DEFINE R == {b[j] : j \in DOMAIN b}
  <2>1. b \in [1..Len(s) -> R]
    BY <1>4, <1>7
  <2> HIDE DEF R
  <2>2. b \in Seq(R) /\ Len(b) = Len(s)
    BY <2>1, <1>3
  <2>3. QED
    BY <2>2, ListOf
<1>9. DOMAIN u = DOMAIN w /\ u.packet = p /\ u.buffer = b /\ u.out = w.out
  BY <1>1 DEF Handles, Running_
<1>10. \A i \in DOMAIN b : SlotGoes(b[i], i, w.out, d, q)
  <2> TAKE i \in DOMAIN b
  <2>1. i \in DOMAIN s
    BY <1>3, <1>4
  <2>2. SlotGoes(s[i], i, w.out, d, q)
    BY <2>1 DEF Handles
  <2>3. CASE b[i] = s[i]
    BY <2>2, <2>3
  <2>4. CASE /\ s[i].packet["id"] = p["id"] /\ b[i].packet = p /\ b[i].in_port = s[i].in_port
             /\ s[i] # Free
    <3>1. \A x, y : HoldsFrame(s[i], x, y) => HoldsFrame(b[i], x, y)
      BY <2>4 DEF HoldsFrame, HasId
    <3>2. QED
      BY <2>2, <2>4, <3>1 DEF SlotGoes, StillHolds
  <2>5. QED
    BY <2>1, <2>3, <2>4, <1>5
<1>11. Handles(u, d, q, pre)
  <2>1. DOMAIN buffer \subseteq DOMAIN b
    BY <1>3, <1>4 DEF Handles
  <2>2. QED
    BY <1>8, <1>9, <1>10, <2>1 DEF Handles, Running_
<1>12. QED
  BY <1>9, <1>11 DEF Goes, u

LEMMA OutputGoes ==
  ASSUME NEW w, NEW d, NEW q, NEW pre, IsList(pre), Handles(w, d, q, pre),
         DOMAIN ports \subseteq PortNos, NEW p, HasId(p, d), NEW port
  PROVE  Goes(output_packet(w, p, port, q), w, d, q, pre)
<1> DEFINE flood == {n \in DOMAIN ports : "NO_FLOOD" \notin ports[n].config}
<1>1. Goes(w, w, d, q, pre)
  BY DEF Goes
<1>2. Goes(real_send(w, p, port, q, FALSE), w, d, q, pre)
  BY RealSendGoes
<1>3. Goes(real_send(w, p, q, q, TRUE), w, d, q, pre)
  BY RealSendGoes
<1>4. flood \subseteq PortNos
  OBVIOUS
<1> HIDE DEF flood
<1>5. Goes(real_send_all(w, p, flood, q), w, d, q, pre)
  BY <1>4, RealSendAllGoes
<1>6. Goes(real_send_all(w, p, DOMAIN ports, q), w, d, q, pre)
  BY RealSendAllGoes
<1>7. Goes(send_packet_in(w, p, q, "action"), w, d, q, pre)
  BY PacketInGoes
<1>8. output_packet(w, p, port, q) \in
        {w, real_send(w, p, port, q, FALSE), real_send(w, p, q, q, TRUE), real_send_all(w, p, flood, q),
         real_send_all(w, p, DOMAIN ports, q), send_packet_in(w, p, q, "action")}
  BY DEF output_packet, flood
<1>9. QED
  BY <1>1, <1>2, <1>3, <1>5, <1>6, <1>7, <1>8

(* One action of a list.                                                   *)
Applied(u, d, q, pre) == Handles(u, d, q, pre) /\ HasId(u.packet, d)

LEMMA ActionGoes ==
  ASSUME NEW w, NEW d, NEW q, NEW pre, IsList(pre), Applied(w, d, q, pre),
         DOMAIN ports \subseteq PortNos, NEW a, a[1] = "set" => a[2] \in Settable
  PROVE  Applied(apply_action(w, a, q), d, q, pre)
<1> DEFINE u == apply_action(w, a, q)
<1>0. Handles(w, d, q, pre) /\ HasId(w.packet, d)
  BY DEF Applied
<1>1. CASE ~w.ok
  <2>1. u = w
    BY <1>1 DEF apply_action
  <2>2. QED
    BY <2>1
<1>2. CASE w.ok /\ a[1] = "output"
  <2>1. u = output_packet(w, w.packet, a[2], q)
    BY <1>2 DEF apply_action
  <2>2. QED
    BY <2>1, <1>0, OutputGoes DEF Goes, Applied
<1>3. CASE w.ok /\ a[1] = "enqueue"
  <2>1. u = [w EXCEPT !.ok = FALSE, !.raised = TRUE]
    BY <1>3 DEF apply_action
  <2> HIDE DEF u
  <2>2. DOMAIN u = DOMAIN w /\ u.out = w.out /\ u.buffer = w.buffer /\ u.packet = w.packet
    BY <2>1, <1>0 DEF Handles, Running_
  <2>3. QED
    BY <2>2, <1>0, HandlesSame DEF Applied, u
<1>4. CASE w.ok /\ a[1] = "set"
  <2>1. u = rewrite(w, rewritten(w.packet, a[2], a[3]))
    BY <1>4 DEF apply_action
  <2> DEFINE p == rewritten(w.packet, a[2], a[3])
  <2>2. HasId(p, d)
    BY <1>0, <1>4, RewrittenId
  <2> HIDE DEF p
  <2>3. QED
    BY <2>1, <2>2, <1>0, RewriteGoes DEF Goes, Applied, p
<1>5. CASE w.ok /\ a[1] \notin {"output", "enqueue", "set"}
  <2> DEFINE v == Send(w, error("bad_action"))
  <2>1. u = [v EXCEPT !.ok = FALSE]
    BY <1>5 DEF apply_action
  <2>2. Goes(v, w, d, q, pre) /\ DOMAIN v = DOMAIN w /\ v.packet = w.packet
    BY <1>0, SendGoes
  <2> HIDE DEF u, v
  <2>3. Handles(v, d, q, pre) /\ HasId(v.packet, d)
    BY <2>2, <1>0 DEF Goes
  <2>4. DOMAIN u = DOMAIN v /\ u.out = v.out /\ u.buffer = v.buffer /\ u.packet = v.packet
    BY <2>1, <2>3 DEF Handles, Running_
  <2>5. QED
    BY <2>3, <2>4, HandlesSame DEF Applied, u
<1>6. w.ok \/ ~w.ok
  OBVIOUS
<1>7. QED
  BY <1>1, <1>2, <1>3, <1>4, <1>5, <1>6

(* A list of actions is applied one after the other.                       *)
Start(w, p) == [w EXCEPT !.ok = TRUE, !.packet = p]
Runs(f, k, w, actions, p, q) ==
  /\ DOMAIN f = 0..k /\ f[0] = Start(w, p)
  /\ \A n \in 1..k : f[n] = apply_action(f[n - 1], actions[n], q)

LEMMA RunsStep ==
  ASSUME NEW k \in Nat, NEW w, NEW actions, NEW p, NEW q, NEW f, Runs(f, k, w, actions, p, q)
  PROVE  \E g : Runs(g, k + 1, w, actions, p, q)
<1> DEFINE g == [n \in 0..(k + 1) |-> IF n = k + 1 THEN apply_action(f[k], actions[k + 1], q) ELSE f[n]]
<1>1. DOMAIN g = 0..(k + 1) /\ g[k + 1] = apply_action(f[k], actions[k + 1], q)
      /\ \A n \in 0..k : g[n] = f[n]
  OBVIOUS
<1> HIDE DEF g
<1>2. g[0] = Start(w, p)
  BY <1>1 DEF Runs
<1>3. ASSUME NEW n \in 1..(k + 1)
      PROVE  g[n] = apply_action(g[n - 1], actions[n], q)
  <2>1. n - 1 \in 0..k /\ g[n - 1] = f[n - 1]
    BY <1>1
  <2>2. CASE n = k + 1
    <3>1. n - 1 = k
      BY <2>2
    <3>2. QED
      BY <2>1, <2>2, <3>1, <1>1
  <2>3. CASE n # k + 1
    <3>1. n \in 1..k /\ n \in 0..k
      BY <2>3
    <3>2. QED
      BY <3>1, <2>1, <1>1 DEF Runs
  <2>4. QED
    BY <2>2, <2>3
<1>4. QED
  BY <1>1, <1>2, <1>3 DEF Runs

LEMMA RunsExists ==
  ASSUME NEW n \in Nat, NEW w, NEW actions, NEW p, NEW q
  PROVE  \E f : Runs(f, n, w, actions, p, q)
<1> DEFINE Bad == {k \in Nat : ~\E f : Runs(f, k, w, actions, p, q)}
<1>1. SUFFICES ASSUME Bad # {}
      PROVE  FALSE
  OBVIOUS
<1>2. Bad \subseteq Nat
  OBVIOUS
<1>3. PICK k \in Bad : \A y \in Bad : k <= y
  BY <1>1, <1>2, FirstPlace
<1>4. k # 0
  <2> DEFINE f == [x \in 0..0 |-> Start(w, p)]
  <2>1. DOMAIN f = 0..0 /\ f[0] = Start(w, p) /\ 1..0 = {}
    OBVIOUS
  <2> HIDE DEF f
  <2>2. Runs(f, 0, w, actions, p, q)
    BY <2>1 DEF Runs
  <2>3. QED
    BY <2>2
<1>5. k - 1 \in Nat /\ (k - 1) + 1 = k /\ ~(k <= k - 1)
  BY <1>2, <1>4
<1>6. PICK f : Runs(f, k - 1, w, actions, p, q)
  BY <1>3, <1>5
<1>7. \E g : Runs(g, (k - 1) + 1, w, actions, p, q)
  BY <1>5, <1>6, RunsStep
<1>8. QED
  BY <1>3, <1>5, <1>7

LEMMA RunsWhole ==
  ASSUME NEW w, NEW actions, Len(actions) \in Nat, NEW p, NEW q
  PROVE  \E f : Runs(f, Len(actions), w, actions, p, q) /\ process_actions(w, actions, p, q) = f[Len(actions)]
<1> DEFINE Is(f) == f = [n \in 0..Len(actions) |->
                          IF n = 0 THEN [w EXCEPT !.ok = TRUE, !.packet = p]
                          ELSE apply_action(f[n - 1], actions[n], q)]
<1>1. PICK g : Runs(g, Len(actions), w, actions, p, q)
  BY RunsExists
<1> DEFINE h == [n \in 0..Len(actions) |-> g[n]]
<1>2. \A n \in 0..Len(actions) : h[n] = g[n]
  OBVIOUS
<1>3. \A n \in 0..Len(actions) : h[n] = IF n = 0 THEN [w EXCEPT !.ok = TRUE, !.packet = p]
                                        ELSE apply_action(h[n - 1], actions[n], q)
  <2> TAKE n \in 0..Len(actions)
  <2> HIDE DEF h
  <2>1. CASE n = 0
    BY <2>1, <1>1, <1>2 DEF Runs, Start
  <2>2. CASE n # 0
    <3>1. n \in 1..Len(actions) /\ n - 1 \in 0..Len(actions)
      BY <2>2
    <3>2. g[n] = apply_action(g[n - 1], actions[n], q)
      BY <3>1, <1>1 DEF Runs
    <3>3. QED
      BY <2>2, <3>1, <3>2, <1>2
  <2>3. QED
    BY <2>1, <2>2
<1>4. h = [n \in 0..Len(actions) |-> h[n]]
  OBVIOUS
<1> HIDE DEF h
<1>5. Is(h)
  BY <1>3, <1>4, Zenon
<1>6. \E f : Is(f)
  BY <1>5
<1>7. PICK f : Is(f) /\ process_actions(w, actions, p, q) = f[Len(actions)]
  BY <1>6 DEF process_actions
<1>8. DOMAIN f = 0..Len(actions)
  BY <1>7
<1>9. f[0] = Start(w, p)
  BY <1>7 DEF Start
<1>10. \A n \in 1..Len(actions) : f[n] = apply_action(f[n - 1], actions[n], q)
  BY <1>7
<1>11. QED
  BY <1>7, <1>8, <1>9, <1>10 DEF Runs

LEMMA StartApplied ==
  ASSUME NEW w, NEW d, NEW q, NEW pre, Handles(w, d, q, pre), NEW p, HasId(p, d)
  PROVE  Applied(Start(w, p), d, q, pre)
<1> DEFINE u == Start(w, p)
<1>1. DOMAIN u = DOMAIN w /\ u.out = w.out /\ u.buffer = w.buffer /\ u.packet = p
  BY DEF Start, Handles, Running_
<1> HIDE DEF u
<1>2. Handles(u, d, q, pre)
  BY <1>1, HandlesSame
<1>3. QED
  BY <1>1, <1>2 DEF Applied, u

LEMMA ActionsGo ==
  ASSUME NEW w, NEW d, NEW q, NEW pre, IsList(pre), Handles(w, d, q, pre),
         DOMAIN ports \subseteq PortNos, NEW actions, Actions(actions), NEW p, HasId(p, d)
  PROVE  Applied(process_actions(w, actions, p, q), d, q, pre)
<1>1. IsList(actions) /\ \A n \in DOMAIN actions : actions[n][1] = "set" => actions[n][2] \in Settable
  BY DEF Actions, IsList
<1>2. Len(actions) \in Nat /\ DOMAIN actions = 1..Len(actions)
  BY <1>1, ListFacts
<1>3. PICK f : Runs(f, Len(actions), w, actions, p, q) /\ process_actions(w, actions, p, q) = f[Len(actions)]
  BY <1>2, RunsWhole
<1> DEFINE Bad == {n \in 0..Len(actions) : ~Applied(f[n], d, q, pre)}
<1>4. Bad = {}
  <2>1. SUFFICES ASSUME Bad # {}
        PROVE  FALSE
    OBVIOUS
  <2>2. Bad \subseteq Nat
    BY <1>2
  <2>3. PICK n \in Bad : \A y \in Bad : n <= y
    BY <2>1, <2>2, FirstPlace
  <2>4. n # 0
    BY <1>3, StartApplied DEF Runs
  <2>5. n \in 1..Len(actions) /\ n - 1 \in 0..Len(actions) /\ ~(n <= n - 1)
    BY <2>4, <1>2
  <2>6. Applied(f[n - 1], d, q, pre)
    BY <2>3, <2>5
  <2>7. f[n] = apply_action(f[n - 1], actions[n], q)
    BY <1>3, <2>5 DEF Runs
  <2>8. actions[n][1] = "set" => actions[n][2] \in Settable
    BY <1>1, <1>2, <2>5
  <2>9. Applied(f[n], d, q, pre)
    BY <2>6, <2>7, <2>8, ActionGoes
  <2>10. QED
    BY <2>9
<1>5. Len(actions) \in 0..Len(actions)
  BY <1>2
<1>6. QED
  BY <1>3, <1>4, <1>5

LEMMA FirstEntry ==
  ASSUME NEW p, NEW in_port, NEW E, table \in Seq(E)
  PROVE  LET i == entry_for_packet(p, in_port)
             hits(j) == matches_with_wildcards(table[j].match, from_packet(p, in_port), FALSE)
         IN \/ i = 0 /\ \A j \in DOMAIN table : ~hits(j)
            \/ i \in DOMAIN table /\ hits(i) /\ \A j \in DOMAIN table : hits(j) => i <= j
<1> DEFINE I == {j \in 1..Len(table) : matches_with_wildcards(table[j].match, from_packet(p, in_port), FALSE)}
<1>1. entry_for_packet(p, in_port) = IF I # {} THEN Min(I) ELSE 0
  BY DEF entry_for_packet, SelectInSeq
<1>2. I \subseteq Nat /\ DOMAIN table = 1..Len(table)
  <2>1. Len(table) \in Nat /\ DOMAIN table = 1..Len(table)
    OBVIOUS
  <2>2. I \subseteq 1..Len(table)
    BY Zenon
  <2> HIDE DEF I
  <2>3. 1..Len(table) \subseteq Nat
    BY <2>1
  <2>4. QED
    BY <2>1, <2>2, <2>3
<1>3. I # {} => Min(I) \in I /\ \A y \in I : Min(I) <= y
  <2> HIDE DEF I
  <2> QED
    BY <1>2, MinFacts
<1>4. CASE I = {}
  BY <1>1, <1>2, <1>4
<1>5. CASE I # {}
  <2> DEFINE i == entry_for_packet(p, in_port)
  <2>1. i \in I /\ \A y \in I : i <= y
    BY <1>1, <1>3, <1>5
  <2> HIDE DEF i
  <2>2. QED
    BY <2>1, <1>2 DEF i
<1>6. QED
  BY <1>4, <1>5

(* The switch that a handler finds.                                        *)
Known == peers \in Peers /\ DOMAIN ports \subseteq PortNos /\ table \in Seq(EntryT)

LEMMA EntryActions ==
  ASSUME Known, NEW i \in DOMAIN table
  PROVE  Actions(table[i].actions)
<1>1. table[i] \in EntryT
  BY DEF Known
<1>2. PICK fm \in peers.flow_mods : table[i].actions = fm.actions
  BY <1>1 DEF EntryT
<1>3. QED
  BY <1>2, PeersAssumption DEF Known

LEMMA RxGoes ==
  ASSUME NEW w, NEW d, NEW q, NEW pre, IsList(pre), Handles(w, d, q, pre),
         Known, NEW p, HasId(p, d)
  PROVE  Goes(rx_packet(w, p, q), w, d, q, pre)
<1> DEFINE i == entry_for_packet(p, q)
<1> DEFINE v == [w EXCEPT !.touched = @ \cup {i}]
<1> DEFINE u == rx_packet(w, p, q)
<1>1. \/ u = w
      \/ i # 0 /\ u = process_actions(v, table[i].actions, p, q)
      \/ u = send_packet_in(w, p, q, "no_match")
  BY DEF rx_packet
<1>2. CASE u = w
  BY <1>2 DEF Goes
<1>3. CASE i # 0 /\ u = process_actions(v, table[i].actions, p, q)
  <2>1. i \in DOMAIN table
    <3>1. table \in Seq(EntryT)
      BY DEF Known
    <3>2. i = 0 \/ i \in DOMAIN table
      BY <3>1, FirstEntry
    <3>3. QED
      BY <3>2, <1>3
  <2>2. Actions(table[i].actions)
    BY <2>1, EntryActions
  <2> HIDE DEF i
  <2>3. DOMAIN v = DOMAIN w /\ v.out = w.out /\ v.buffer = w.buffer
    BY DEF Handles, Running_
  <2> HIDE DEF v
  <2>4. Handles(v, d, q, pre)
    BY <2>3, HandlesSame
  <2>5. DOMAIN ports \subseteq PortNos
    BY DEF Known
  <2>6. Applied(process_actions(v, table[i].actions, p, q), d, q, pre)
    BY <2>2, <2>4, <2>5, ActionsGo
  <2>7. QED
    BY <2>6, <1>3 DEF Applied, Goes
<1>4. CASE u = send_packet_in(w, p, q, "no_match")
  BY <1>4, PacketInGoes
<1>5. QED
  BY <1>1, <1>2, <1>3, <1>4

LEMMA SentActionGoes ==
  ASSUME NEW w, NEW d, NEW q, NEW pre, IsList(pre), Applied(w, d, q, pre),
         Known, NEW a, a[1] = "set" => a[2] \in Settable
  PROVE  Applied(apply_sent_action(w, a, q), d, q, pre)
<1>0. Handles(w, d, q, pre) /\ HasId(w.packet, d) /\ DOMAIN ports \subseteq PortNos
  BY DEF Applied, Known
<1>1. CASE w.ok /\ a[1] = "output" /\ a[2] = TABLE
  <2> DEFINE v == rx_packet(w, w.packet, q)
  <2> DEFINE u == apply_sent_action(w, a, q)
  <2>1. u = [v EXCEPT !.ok = ~v.raised]
    BY <1>1 DEF apply_sent_action, to_table
  <2>2. Goes(v, w, d, q, pre)
    BY <1>0, RxGoes
  <2> HIDE DEF u, v
  <2>3. Handles(v, d, q, pre) /\ HasId(v.packet, d)
    BY <2>2, <1>0 DEF Goes
  <2>4. DOMAIN u = DOMAIN v /\ u.out = v.out /\ u.buffer = v.buffer /\ u.packet = v.packet
    BY <2>1, <2>3 DEF Handles, Running_
  <2>5. QED
    BY <2>3, <2>4, HandlesSame DEF Applied, u
<1>2. CASE ~(w.ok /\ a[1] = "output" /\ a[2] = TABLE)
  <2>1. apply_sent_action(w, a, q) = apply_action(w, a, q)
    BY <1>2 DEF apply_sent_action
  <2>2. QED
    BY <2>1, <1>0, ActionGoes
<1>3. QED
  BY <1>1, <1>2

(* The same for the actions of a message.                                  *)
SentRuns(f, k, w, actions, p, q) ==
  /\ DOMAIN f = 0..k /\ f[0] = Start(w, p)
  /\ \A n \in 1..k : f[n] = apply_sent_action(f[n - 1], actions[n], q)

LEMMA SentRunsStep ==
  ASSUME NEW k \in Nat, NEW w, NEW actions, NEW p, NEW q, NEW f, SentRuns(f, k, w, actions, p, q)
  PROVE  \E g : SentRuns(g, k + 1, w, actions, p, q)
<1> DEFINE g == [n \in 0..(k + 1) |-> IF n = k + 1 THEN apply_sent_action(f[k], actions[k + 1], q) ELSE f[n]]
<1>1. DOMAIN g = 0..(k + 1) /\ g[k + 1] = apply_sent_action(f[k], actions[k + 1], q)
      /\ \A n \in 0..k : g[n] = f[n]
  OBVIOUS
<1> HIDE DEF g
<1>2. g[0] = Start(w, p)
  BY <1>1 DEF SentRuns
<1>3. ASSUME NEW n \in 1..(k + 1)
      PROVE  g[n] = apply_sent_action(g[n - 1], actions[n], q)
  <2>1. n - 1 \in 0..k /\ g[n - 1] = f[n - 1]
    BY <1>1
  <2>2. CASE n = k + 1
    <3>1. n - 1 = k
      BY <2>2
    <3>2. QED
      BY <2>1, <2>2, <3>1, <1>1
  <2>3. CASE n # k + 1
    <3>1. n \in 1..k /\ n \in 0..k
      BY <2>3
    <3>2. QED
      BY <3>1, <2>1, <1>1 DEF SentRuns
  <2>4. QED
    BY <2>2, <2>3
<1>4. QED
  BY <1>1, <1>2, <1>3 DEF SentRuns

LEMMA SentRunsExists ==
  ASSUME NEW n \in Nat, NEW w, NEW actions, NEW p, NEW q
  PROVE  \E f : SentRuns(f, n, w, actions, p, q)
<1> DEFINE Bad == {k \in Nat : ~\E f : SentRuns(f, k, w, actions, p, q)}
<1>1. SUFFICES ASSUME Bad # {}
      PROVE  FALSE
  OBVIOUS
<1>2. Bad \subseteq Nat
  OBVIOUS
<1>3. PICK k \in Bad : \A y \in Bad : k <= y
  BY <1>1, <1>2, FirstPlace
<1>4. k # 0
  <2> DEFINE f == [x \in 0..0 |-> Start(w, p)]
  <2>1. DOMAIN f = 0..0 /\ f[0] = Start(w, p) /\ 1..0 = {}
    OBVIOUS
  <2> HIDE DEF f
  <2>2. SentRuns(f, 0, w, actions, p, q)
    BY <2>1 DEF SentRuns
  <2>3. QED
    BY <2>2
<1>5. k - 1 \in Nat /\ (k - 1) + 1 = k /\ ~(k <= k - 1)
  BY <1>2, <1>4
<1>6. PICK f : SentRuns(f, k - 1, w, actions, p, q)
  BY <1>3, <1>5
<1>7. \E g : SentRuns(g, (k - 1) + 1, w, actions, p, q)
  BY <1>5, <1>6, SentRunsStep
<1>8. QED
  BY <1>3, <1>5, <1>7

LEMMA SentRunsWhole ==
  ASSUME NEW w, NEW actions, Len(actions) \in Nat, NEW p, NEW q
  PROVE  \E f : SentRuns(f, Len(actions), w, actions, p, q) /\ process_sent_actions(w, actions, p, q) = f[Len(actions)]
<1> DEFINE Is(f) == f = [n \in 0..Len(actions) |->
                          IF n = 0 THEN [w EXCEPT !.ok = TRUE, !.packet = p]
                          ELSE apply_sent_action(f[n - 1], actions[n], q)]
<1>1. PICK g : SentRuns(g, Len(actions), w, actions, p, q)
  BY SentRunsExists
<1> DEFINE h == [n \in 0..Len(actions) |-> g[n]]
<1>2. \A n \in 0..Len(actions) : h[n] = g[n]
  OBVIOUS
<1>3. \A n \in 0..Len(actions) : h[n] = IF n = 0 THEN [w EXCEPT !.ok = TRUE, !.packet = p]
                                        ELSE apply_sent_action(h[n - 1], actions[n], q)
  <2> TAKE n \in 0..Len(actions)
  <2> HIDE DEF h
  <2>1. CASE n = 0
    BY <2>1, <1>1, <1>2 DEF SentRuns, Start
  <2>2. CASE n # 0
    <3>1. n \in 1..Len(actions) /\ n - 1 \in 0..Len(actions)
      BY <2>2
    <3>2. g[n] = apply_sent_action(g[n - 1], actions[n], q)
      BY <3>1, <1>1 DEF SentRuns
    <3>3. QED
      BY <2>2, <3>1, <3>2, <1>2
  <2>3. QED
    BY <2>1, <2>2
<1>4. h = [n \in 0..Len(actions) |-> h[n]]
  OBVIOUS
<1> HIDE DEF h
<1>5. Is(h)
  BY <1>3, <1>4, Zenon
<1>6. \E f : Is(f)
  BY <1>5
<1>7. PICK f : Is(f) /\ process_sent_actions(w, actions, p, q) = f[Len(actions)]
  BY <1>6 DEF process_sent_actions
<1>8. DOMAIN f = 0..Len(actions)
  BY <1>7
<1>9. f[0] = Start(w, p)
  BY <1>7 DEF Start
<1>10. \A n \in 1..Len(actions) : f[n] = apply_sent_action(f[n - 1], actions[n], q)
  BY <1>7
<1>11. QED
  BY <1>7, <1>8, <1>9, <1>10 DEF SentRuns

LEMMA SentActionsGo ==
  ASSUME NEW w, NEW d, NEW q, NEW pre, IsList(pre), Handles(w, d, q, pre),
         Known, NEW actions, Actions(actions), NEW p, HasId(p, d)
  PROVE  Applied(process_sent_actions(w, actions, p, q), d, q, pre)
<1>1. IsList(actions) /\ \A n \in DOMAIN actions : actions[n][1] = "set" => actions[n][2] \in Settable
  BY DEF Actions, IsList
<1>2. Len(actions) \in Nat /\ DOMAIN actions = 1..Len(actions)
  BY <1>1, ListFacts
<1>3. PICK f : SentRuns(f, Len(actions), w, actions, p, q) /\ process_sent_actions(w, actions, p, q) = f[Len(actions)]
  BY <1>2, SentRunsWhole
<1> DEFINE Bad == {n \in 0..Len(actions) : ~Applied(f[n], d, q, pre)}
<1>4. Bad = {}
  <2>1. SUFFICES ASSUME Bad # {}
        PROVE  FALSE
    OBVIOUS
  <2>2. Bad \subseteq Nat
    BY <1>2
  <2>3. PICK n \in Bad : \A y \in Bad : n <= y
    BY <2>1, <2>2, FirstPlace
  <2>4. n # 0
    BY <1>3, StartApplied DEF SentRuns
  <2>5. n \in 1..Len(actions) /\ n - 1 \in 0..Len(actions) /\ ~(n <= n - 1)
    BY <2>4, <1>2
  <2>6. Applied(f[n - 1], d, q, pre)
    BY <2>3, <2>5
  <2>7. f[n] = apply_sent_action(f[n - 1], actions[n], q)
    BY <1>3, <2>5 DEF SentRuns
  <2>8. actions[n][1] = "set" => actions[n][2] \in Settable
    BY <1>1, <1>2, <2>5
  <2>9. Applied(f[n], d, q, pre)
    BY <2>6, <2>7, <2>8, SentActionGoes
  <2>10. QED
    BY <2>9
<1>5. Len(actions) \in 0..Len(actions)
  BY <1>2
<1>6. QED
  BY <1>3, <1>4, <1>5

-----------------------------------------------------------------------------
(* The buffer when a handler ends                                          *)

(* A slot in use is as the packet-ins say, and was announced now or before *)
(* if anybody could hear it.                                               *)
SlotDone(w, i) ==
  \/ w.buffer[i] = Free
  \/ /\ \A k \in DOMAIN w.out :
          SaysPacketIn(w.out[k], i) =>
            w.out[k].in_port = w.buffer[i].in_port /\ w.out[k].packet["id"] = w.buffer[i].packet["id"]
     /\ \/ Announced(w.out, i)
        \/ WasFree(i) /\ ~conn.up
        \/ /\ i \in DOMAIN buffer /\ buffer[i] # Free /\ buffer[i].in_port = w.buffer[i].in_port
           /\ buffer[i].packet["id"] = w.buffer[i].packet["id"]

Done(w, pre) ==
  Running_(w) /\ Extends(w.out, pre) /\ Slots(w.buffer) /\ \A i \in DOMAIN w.buffer : SlotDone(w, i)

LEMMA ExtendsSelf ==
  ASSUME NEW s, IsList(s)
  PROVE  Extends(s, s)
<1>1. Len(s) \in Nat
  BY ListFacts
<1>2. \A k \in (Len(s) + 1)..Len(s) : FALSE
  BY <1>1
<1>3. Len(s) <= Len(s)
  BY <1>1
<1>4. QED
  BY <1>2, <1>3 DEF Extends

LEMMA SlotsList ==
  ASSUME NEW b, Slots(b)
  PROVE  IsList(b) /\ Len(b) \in Nat /\ Len(b) <= MaxBuffers /\ DOMAIN b = 1..Len(b)
<1>1. IsList(b) /\ Len(b) <= MaxBuffers
  BY DEF Slots, IsList
<1>2. QED
  BY <1>1, ListFacts

(* A handler that has not touched a frame yet.                             *)
LEMMA QuietHandles ==
  ASSUME Slots(buffer), NEW w, Quiet(w), NEW d, NEW q
  PROVE  Handles(w, d, q, w.out)
<1>1. IsList(buffer) /\ Len(buffer) <= MaxBuffers
  BY SlotsList
<1>2. IsList(w.out) /\ w.buffer = buffer /\ Running_(w)
      /\ \A k \in DOMAIN w.out : w.out[k].type # "packet_in"
  BY DEF Quiet, Running_
<1>3. Extends(w.out, w.out)
  BY <1>2, ExtendsSelf
<1>4. ASSUME NEW i \in DOMAIN buffer
      PROVE  SlotGoes(buffer[i], i, w.out, d, q)
  <2>1. Slot(buffer[i])
    BY DEF Slots
  <2>2. QED
    BY <2>1 DEF SlotGoes, WasFree, StillHolds, HoldsFrame, HasId, Slot
<1>5. QED
  BY <1>1, <1>2, <1>3, <1>4 DEF Handles

LEMMA HandlesDone ==
  ASSUME Slots(buffer), NEW w, NEW d, NEW q \in PortNos \cup {NONE}, NEW pre, Handles(w, d, q, pre)
  PROVE  Done(w, pre)
<1>1. Running_(w) /\ Extends(w.out, pre) /\ IsList(w.buffer) /\ Len(w.buffer) <= MaxBuffers
  BY DEF Handles
<1>2. ASSUME NEW i \in DOMAIN w.buffer
      PROVE  Slot(w.buffer[i]) /\ SlotDone(w, i)
  <2>1. CASE w.buffer[i] = Free
    BY <2>1 DEF Slot, SlotDone
  <2>2. CASE WasFree(i) /\ HoldsFrame(w.buffer[i], d, q) /\ (~conn.up \/ Announced(w.out, i))
    <3>1. "id" \in DOMAIN w.buffer[i].packet /\ w.buffer[i].packet["id"] = d /\ w.buffer[i].in_port = q
      BY <2>2 DEF HoldsFrame, HasId
    <3>2. Slot(w.buffer[i])
      BY <3>1 DEF Slot
    <3>3. \A k \in DOMAIN w.out :
            SaysPacketIn(w.out[k], i) => w.out[k].in_port = q /\ w.out[k].packet["id"] = d
      BY DEF Handles, SaysPacketIn, HasId
    <3>4. QED
      BY <2>2, <3>1, <3>2, <3>3 DEF SlotDone
  <2>3. CASE StillHolds(w.buffer[i], i)
    <3>1. /\ i \in DOMAIN buffer /\ buffer[i] # Free /\ Slot(buffer[i])
          /\ "id" \in DOMAIN w.buffer[i].packet /\ buffer[i].packet["id"] = w.buffer[i].packet["id"]
          /\ buffer[i].in_port = w.buffer[i].in_port
      BY <2>3 DEF StillHolds, HoldsFrame, HasId, Slots
    <3>2. Slot(w.buffer[i])
      BY <3>1 DEF Slot
    <3>3. \A k \in DOMAIN w.out : ~SaysPacketIn(w.out[k], i)
      BY <3>1 DEF Handles, SaysPacketIn, WasFree
    <3>4. QED
      BY <3>1, <3>2, <3>3 DEF SlotDone
  <2>4. SlotGoes(w.buffer[i], i, w.out, d, q)
    BY DEF Handles
  <2>5. QED
    BY <2>1, <2>2, <2>3, <2>4 DEF SlotGoes
<1>3. Slots(w.buffer)
  BY <1>1, <1>2 DEF Slots, IsList
<1>4. QED
  BY <1>1, <1>2, <1>3 DEF Done

LEMMA QuietDone ==
  ASSUME Slots(buffer), NEW w, Quiet(w)
  PROVE  Done(w, w.out)
<1>1. NONE \in PortNos \cup {NONE}
  OBVIOUS
<1>2. Handles(w, 0, NONE, w.out)
  BY QuietHandles
<1>3. QED
  BY <1>1, <1>2, HandlesDone

(* The slot is released.                                                   *)
LEMMA ReleaseDone ==
  ASSUME NEW w, NEW pre, Done(w, pre), NEW id \in DOMAIN w.buffer
  PROVE  Done([w EXCEPT !.buffer[id] = Free], pre)
<1> DEFINE b == [w.buffer EXCEPT ![id] = Free]
<1> DEFINE u == [w EXCEPT !.buffer[id] = Free]
<1>1. u = [w EXCEPT !.buffer = b]
  BY DEF Done, Running_
<1>2. Slots(w.buffer) /\ IsList(w.buffer)
  BY SlotsList DEF Done
<1>3. DOMAIN b = DOMAIN w.buffer /\ b[id] = Free /\ \A i \in DOMAIN b : i # id => b[i] = w.buffer[i]
  OBVIOUS
<1>4. IsList(b) /\ Len(b) = Len(w.buffer)
  <2> DEFINE S == {w.buffer[i] : i \in DOMAIN w.buffer} \cup {Free}
  <2>1. w.buffer \in Seq(S) /\ Free \in S
    BY <1>2 DEF IsList
  <2> HIDE DEF S
  <2>2. b \in Seq(S) /\ Len(b) = Len(w.buffer)
    BY <2>1
  <2>3. QED
    BY <2>2, ListOf
<1> HIDE DEF b
<1>5. DOMAIN u = DOMAIN w /\ u.buffer = b /\ u.out = w.out
  BY <1>1 DEF Done, Running_
<1> HIDE DEF u
<1>6. Slots(b)
  BY <1>2, <1>3, <1>4 DEF Slots, Slot, IsList
<1>7. \A i \in DOMAIN u.buffer : SlotDone(u, i)
  <2> SUFFICES ASSUME NEW i \in DOMAIN b
               PROVE  SlotDone(u, i)
    BY <1>5
  <2>1. CASE i = id
    BY <2>1, <1>3, <1>5 DEF SlotDone
  <2>2. CASE i # id
    <3>1. u.buffer[i] = w.buffer[i] /\ SlotDone(w, i)
      BY <2>2, <1>3, <1>5 DEF Done
    <3>2. QED
      BY <3>1, <1>5 DEF SlotDone
  <2>3. QED
    BY <2>1, <2>2
<1>8. Running_(u) /\ Extends(u.out, pre)
  BY <1>5 DEF Done, Running_
<1>9. Done(u, pre)
  BY <1>5, <1>6, <1>7, <1>8 DEF Done
<1>10. QED
  BY <1>9 DEF u

(* _process_actions_for_packet_from_buffer.                                *)
LEMMA FromBufferDone ==
  ASSUME Known, Slots(buffer), NEW w, Quiet(w), NEW actions, Actions(actions), NEW id
  PROVE  Done(from_buffer(w, actions, id), w.out)
<1>0. w.buffer = buffer /\ IsList(w.out)
  BY DEF Quiet, Running_
<1>1. CASE id \notin DOMAIN buffer
  BY <1>0, <1>1, QuietDone DEF from_buffer
<1>2. CASE id \in DOMAIN buffer /\ buffer[id] = Free
  <2>1. from_buffer(w, actions, id) = w
    BY <1>0, <1>2 DEF from_buffer
  <2>2. QED
    BY <2>1, QuietDone
<1>3. CASE id \in DOMAIN buffer /\ buffer[id] # Free
  <2> DEFINE d == buffer[id].packet["id"]
  <2> DEFINE q == buffer[id].in_port
  <2> DEFINE p == buffer[id].packet
  <2> DEFINE u == process_sent_actions(w, actions, p, q)
  <2>1. /\ HoldsFrame(buffer[id], d, q) /\ q \in PortNos \cup {NONE}
        /\ Handles(w, d, q, w.out)
    <3>1. Slot(buffer[id])
      BY <1>3 DEF Slots
    <3>2. QED
      BY <3>1, <1>3, QuietHandles DEF Slot, HoldsFrame, HasId
  <2>2. HasId(p, d)
    BY <2>1 DEF HoldsFrame
  <2>3. from_buffer(w, actions, id) = IF u.raised THEN u ELSE [u EXCEPT !.buffer[id] = Free]
    BY <1>0, <1>3 DEF from_buffer
  <2> HIDE DEF d, q, p
  <2>4. Applied(u, d, q, w.out)
    BY <1>0, <2>1, <2>2, SentActionsGo
  <2> HIDE DEF u
  <2>5. Handles(u, d, q, w.out)
    BY <2>4 DEF Applied
  <2>6. Done(u, w.out)
    BY <2>1, <2>5, <1>3, HandlesDone
  <2>7. id \in DOMAIN u.buffer
    BY <1>3, <2>5 DEF Handles
  <2>8. Done([u EXCEPT !.buffer[id] = Free], w.out)
    BY <2>6, <2>7, ReleaseDone
  <2>9. QED
    BY <2>3, <2>6, <2>8
<1>4. QED
  BY <1>1, <1>2, <1>3

(* What Announce records for a slot in use.                                *)
LEMMA AnnounceFacts ==
  ASSUME NEW w, NEW pre, Done(w, pre), BufferHonest, NEW i \in DOMAIN w.buffer,
         w.buffer[i] # Free, Announce(w)[i] # Free
  PROVE  /\ Announce(w)[i].in_port = w.buffer[i].in_port
         /\ Announce(w)[i].packet["id"] = w.buffer[i].packet["id"]
<1> DEFINE told == {k \in DOMAIN w.out : w.out[k].type = "packet_in" /\ w.out[k].buffer_id = i}
<1> DEFINE last == w.out[Max(told)]
<1>1. i \in 1..MaxBuffers
  <2>1. Len(w.buffer) \in Nat /\ Len(w.buffer) <= MaxBuffers /\ DOMAIN w.buffer = 1..Len(w.buffer)
    BY SlotsList DEF Done
  <2>2. MaxBuffers \in Nat
    BY Sizes
  <2>3. QED
    BY <2>1, <2>2
<1>2. Announce(w)[i] = IF told # {} THEN [packet |-> last.packet, in_port |-> last.in_port]
                       ELSE IF i \notin DOMAIN buffer THEN Free
                       ELSE IF buffer[i] = Free THEN Free
                       ELSE announced[i]
  BY <1>1 DEF Announce
<1>3. SlotDone(w, i)
  BY DEF Done
<1>4. CASE told # {}
  <2>1. Len(w.out) \in Nat /\ DOMAIN w.out = 1..Len(w.out)
    BY ListFacts DEF Done, Running_
  <2>2. told \subseteq 1..Len(w.out)
    BY <2>1
  <2>3. Max(told) \in told
    <3> HIDE DEF told
    <3> QED
      BY <2>1, <2>2, <1>4, MaxFacts
  <2> DEFINE m == Max(told)
  <2>4. m \in DOMAIN w.out /\ SaysPacketIn(w.out[m], i)
    BY <2>3 DEF SaysPacketIn
  <2>5. Announce(w)[i] = [packet |-> w.out[m].packet, in_port |-> w.out[m].in_port]
    BY <1>2, <1>4
  <2> HIDE DEF m
  <2>6. w.out[m].in_port = w.buffer[i].in_port /\ w.out[m].packet["id"] = w.buffer[i].packet["id"]
    BY <1>3, <2>4 DEF SlotDone
  <2>7. QED
    BY <2>5, <2>6
<1>5. CASE told = {}
  <2>1. ~WasFree(i) /\ Announce(w)[i] = announced[i]
    BY <1>2, <1>5 DEF WasFree
  <2>2. ~Announced(w.out, i)
    BY <1>5 DEF Announced, SaysPacketIn
  <2>3. /\ i \in DOMAIN buffer /\ buffer[i] # Free /\ buffer[i].in_port = w.buffer[i].in_port
        /\ buffer[i].packet["id"] = w.buffer[i].packet["id"]
    BY <1>3, <2>1, <2>2 DEF SlotDone
  <2>4. announced[i].in_port = buffer[i].in_port /\ announced[i].packet["id"] = buffer[i].packet["id"]
    BY <2>1, <2>3 DEF BufferHonest
  <2>5. QED
    BY <2>1, <2>3, <2>4
<1>6. QED
  BY <1>4, <1>5

LEMMA FinishHonest ==
  ASSUME NEW w, NEW pre, Done(w, pre), BufferHonest, Finish(w)
  PROVE  Slots(buffer') /\ BufferHonest' /\ Extends(out', pre)
<1>1. buffer' = w.buffer /\ out' = w.out /\ announced' = Announce(w)
  BY DEF Finish
<1>2. BufferHonest'
  <2> SUFFICES ASSUME NEW i \in DOMAIN w.buffer, w.buffer[i] # Free, Announce(w)[i] # Free
               PROVE  /\ Announce(w)[i].in_port = w.buffer[i].in_port
                      /\ Announce(w)[i].packet["id"] = w.buffer[i].packet["id"]
    BY <1>1 DEF BufferHonest
  <2> QED
    BY AnnounceFacts
<1>3. QED
  BY <1>1, <1>2 DEF Done

-----------------------------------------------------------------------------
(* The actions                                                             *)

(* What an action establishes.                                             *)
Reports == conn.up /\ conn'.up => Reported(table, table', out')
Preserves == IInv' /\ Reports

LEMMA Parts ==
  ASSUME IInv
  PROVE  /\ Known /\ Slots(buffer) /\ TableInv(table, timer) /\ timer \in 0..Period /\ PortsInv
         /\ BufferHonest /\ ControllerKnowsPorts /\ frag_drop \in BOOLEAN
         /\ conn \in [up : BOOLEAN, hello : BOOLEAN, starting : BOOLEAN]
BY DEF IInv, Types, PortsInv, TableInv, Known

LEMMA NextTable ==
  ASSUME peers' = peers, TableInv(table', timer')
  PROVE  TableInv(table, timer)'
<1>1. EntryT' = EntryT
  BY DEF EntryT
<1>2. QED
  BY <1>1 DEF TableInv, Sorted, Unique, InTime

LEMMA SamePorts ==
  ASSUME PortsInv, ControllerKnowsPorts, UNCHANGED <<ports, port_stats, view>>, conn'.up => conn.up
  PROVE  PortsInv' /\ ControllerKnowsPorts'
BY DEF PortsInv, ControllerKnowsPorts, NoView

LEMMA SameBuffer ==
  ASSUME Slots(buffer), BufferHonest, UNCHANGED <<buffer, announced>>
  PROVE  Slots(buffer') /\ BufferHonest'
BY DEF BufferHonest

LEMMA SameTable ==
  ASSUME UNCHANGED table, NoneRemoved(out')
  PROVE  Reported(table, table', out')
<1>1. AllStay(table, table)
  BY DEF AllStay, SameKey
<1>2. QED
  BY <1>1, NothingLeaves

LEMMA ExtendsEmpty ==
  ASSUME NEW msgs, Extends(msgs, <<>>)
  PROVE  NoneRemoved(msgs)
<1>1. Len(msgs) \in Nat /\ DOMAIN msgs = 1..Len(msgs)
  BY ListFacts DEF Extends
<1>2. Len(<<>>) = 0
  BY EmptyList
<1>3. \A k \in (0 + 1)..Len(msgs) : msgs[k].type # "flow_removed"
  BY <1>2 DEF Extends
<1>4. QED
  BY <1>1, <1>3 DEF NoneRemoved

(* The parts make the whole.                                               *)
LEMMA Together ==
  ASSUME IInv, peers' = peers, Slots(buffer'), BufferHonest', TableInv(table', timer'),
         timer' \in 0..Period, frag_drop' \in BOOLEAN, PortsInv', ControllerKnowsPorts',
         conn' \in [up : BOOLEAN, hello : BOOLEAN, starting : BOOLEAN], Reports
  PROVE  Preserves
<1>1. TableInv(table, timer)'
  BY NextTable
<1>2. Slots(buffer)'
  BY DEF Slots, Slot, Free, NoPacket, NONE
<1>3. Types'
  BY <1>2 DEF Types, IInv
<1>4. QED
  BY <1>1, <1>3 DEF Preserves, IInv

LEMMA ReceivedFacts ==
  ASSUME IInv, Received
  PROVE  conn.up /\ conn'.up /\ conn' \in [up : BOOLEAN, hello : BOOLEAN, starting : BOOLEAN]
BY DEF IInv, Types, Received

LEMMA TouchStays ==
  ASSUME IInv, NEW touched, table' = Touch(table, touched), timer' = timer, NoneRemoved(out')
  PROVE  TableInv(table', timer') /\ timer' \in 0..Period /\ Reports
<1>1. TableInv(table, timer) /\ timer \in 0..Period
  BY Parts
<1>2. /\ TableInv(Touch(table, touched), timer) /\ DOMAIN Touch(table, touched) = DOMAIN table
      /\ \A i \in DOMAIN table : SameKey(Touch(table, touched)[i], table[i])
  BY <1>1, TouchInv
<1>3. AllStay(table, table')
  BY <1>2 DEF AllStay
<1>4. QED
  BY <1>1, <1>2, <1>3, NothingLeaves DEF Reports

LEMMA RxPacketStep ==
  ASSUME IInv, peers' = peers, NEW p \in peers.packets, NEW n \in PortNos, RxPacket(p, n)
  PROVE  Preserves
<1> DEFINE a == arrived(p)
<1> DEFINE d == a["id"]
<1> DEFINE w == rx_packet(Running, a, n)
<1>1. Finish(w) /\ table' = Touch(table, w.touched) /\ UNCHANGED <<ports, port_stats, frag_drop, conn, timer, view>>
  BY DEF RxPacket
<1>2. Known /\ Slots(buffer) /\ BufferHonest /\ PortsInv /\ ControllerKnowsPorts /\ frag_drop \in BOOLEAN
      /\ conn \in [up : BOOLEAN, hello : BOOLEAN, starting : BOOLEAN]
  BY Parts
<1>3. HasId(a, d)
  BY <1>2, PeersAssumption DEF HasId, Known, arrived
<1> HIDE DEF a, d
<1>4. Handles(Running, d, n, <<>>) /\ IsList(<<>>)
  BY <1>2, QuietHandles, RunningQuiet, EmptyList
<1>5. Handles(w, d, n, <<>>)
  BY <1>2, <1>3, <1>4, RxGoes DEF Goes
<1> HIDE DEF w
<1>6. Done(w, <<>>)
  BY <1>2, <1>5, HandlesDone
<1>7. Slots(buffer') /\ BufferHonest' /\ Extends(out', <<>>)
  BY <1>1, <1>2, <1>6, FinishHonest
<1>8. NoneRemoved(out')
  BY <1>7, ExtendsEmpty
<1>9. TableInv(table', timer') /\ timer' \in 0..Period /\ Reports
  BY <1>1, <1>8, TouchStays
<1>10. PortsInv' /\ ControllerKnowsPorts'
  BY <1>1, <1>2, SamePorts
<1>11. QED
  BY <1>1, <1>2, <1>7, <1>9, <1>10, Together

LEMMA RxFlowModStep ==
  ASSUME IInv, peers' = peers, NEW fm \in peers.flow_mods, RxFlowMod(fm)
  PROVE  Preserves
<1> DEFINE r == IF fm.command = "UNKNOWN" THEN [table |-> table, w |-> Running]
                ELSE flow_mod(table, Running, fm)
<1> DEFINE w == IF fm.command = "UNKNOWN" \/ fm.buffer_id = NONE THEN r.w
                ELSE from_buffer(r.w, fm.actions, fm.buffer_id)
<1>1. Received /\ Finish(w) /\ table' = r.table /\ UNCHANGED <<ports, port_stats, frag_drop, timer, view>>
  BY DEF RxFlowMod
<1>2. Known /\ Slots(buffer) /\ BufferHonest /\ PortsInv /\ ControllerKnowsPorts /\ frag_drop \in BOOLEAN
      /\ TableInv(table, timer) /\ timer \in 0..Period
  BY Parts
<1>3. peers \in Peers /\ Actions(fm.actions)
  BY <1>2, PeersAssumption DEF Known
<1>4. Modified(r, table, timer)
  <2>1. Quiet(Running) /\ Running.out = <<>>
    BY RunningQuiet
  <2>2. CASE fm.command = "UNKNOWN"
    <3>1. r.table = table /\ r.w = Running
      BY <2>2
    <3>2. NoneRemoved(<<>>) /\ AllStay(table, table)
      BY DEF NoneRemoved, AllStay, SameKey
    <3>3. Reported(table, table, <<>>)
      BY <3>2, NothingLeaves
    <3> HIDE DEF r
    <3>4. QED
      BY <3>1, <3>3, <2>1, <1>2 DEF Modified
  <2>3. CASE fm.command # "UNKNOWN"
    BY <2>1, <2>3, <1>2, <1>3, FlowMod
  <2>4. QED
    BY <2>2, <2>3
<1> HIDE DEF r
<1>5. Quiet(r.w) /\ TableInv(r.table, timer) /\ (conn.up => Reported(table, r.table, r.w.out))
  BY <1>4 DEF Modified
<1>6. Done(w, r.w.out)
  <2>1. CASE fm.command = "UNKNOWN" \/ fm.buffer_id = NONE
    BY <2>1, <1>2, <1>5, QuietDone
  <2>2. CASE ~(fm.command = "UNKNOWN" \/ fm.buffer_id = NONE)
    BY <2>2, <1>2, <1>3, <1>5, FromBufferDone
  <2>3. QED
    BY <2>1, <2>2
<1> HIDE DEF w
<1>7. Slots(buffer') /\ BufferHonest' /\ Extends(out', r.w.out)
  BY <1>1, <1>2, <1>6, FinishHonest
<1>8. conn.up /\ conn'.up /\ conn' \in [up : BOOLEAN, hello : BOOLEAN, starting : BOOLEAN]
  BY <1>1, ReceivedFacts
<1>9. Reports
  <2>1. IsList(r.w.out)
    BY <1>5 DEF Quiet, Running_
  <2>2. Reported(table, r.table, out')
    BY <2>1, <1>5, <1>7, <1>8, ReportedExtends
  <2>3. QED
    BY <2>2, <1>1 DEF Reports
<1>10. PortsInv' /\ ControllerKnowsPorts'
  BY <1>1, <1>2, <1>8, SamePorts
<1>11. TableInv(table', timer') /\ timer' \in 0..Period /\ frag_drop' \in BOOLEAN
  BY <1>1, <1>2, <1>5
<1>12. QED
  BY <1>7, <1>8, <1>9, <1>10, <1>11, Together

LEMMA RxPacketOutStep ==
  ASSUME IInv, peers' = peers, NEW po \in peers.packet_outs, RxPacketOut(po)
  PROVE  Preserves
<1> DEFINE w == IF po.data # NoPacket
                THEN process_sent_actions(Running, po.actions, arrived(po.data), po.in_port)
                ELSE from_buffer(Running, po.actions, po.buffer_id)
<1>1. Received /\ Finish(w) /\ table' = Touch(table, w.touched) /\ UNCHANGED <<ports, port_stats, frag_drop, timer, view>>
  BY DEF RxPacketOut
<1>2. Known /\ Slots(buffer) /\ BufferHonest /\ PortsInv /\ ControllerKnowsPorts /\ frag_drop \in BOOLEAN
  BY Parts
<1>3. /\ po.data = NoPacket \/ "id" \in DOMAIN po.data
      /\ Actions(po.actions) /\ po.in_port \in PortNos \cup {NONE}
  BY <1>2, PeersAssumption DEF Known
<1>4. Quiet(Running) /\ Running.out = <<>> /\ IsList(<<>>)
  BY RunningQuiet, EmptyList
<1>5. Done(w, <<>>)
  <2>1. CASE po.data # NoPacket
    <3> DEFINE a == arrived(po.data)
    <3> DEFINE d == a["id"]
    <3> DEFINE u == process_sent_actions(Running, po.actions, a, po.in_port)
    <3>1. HasId(a, d)
      BY <2>1, <1>3 DEF HasId, arrived
    <3> HIDE DEF a, d
    <3>2. Handles(Running, d, po.in_port, <<>>)
      BY <1>2, <1>4, QuietHandles
    <3>3. Applied(u, d, po.in_port, <<>>)
      BY <3>1, <3>2, <1>2, <1>3, <1>4, SentActionsGo
    <3> HIDE DEF u
    <3>4. Done(u, <<>>)
      BY <3>3, <1>2, <1>3, HandlesDone DEF Applied
    <3>5. QED
      BY <3>4, <2>1 DEF u, a
  <2>2. CASE po.data = NoPacket
    <3>1. Done(from_buffer(Running, po.actions, po.buffer_id), Running.out)
      BY <1>2, <1>3, <1>4, FromBufferDone
    <3>2. QED
      BY <3>1, <2>2, <1>4
  <2>3. QED
    BY <2>1, <2>2
<1> HIDE DEF w
<1>6. Slots(buffer') /\ BufferHonest' /\ Extends(out', <<>>)
  BY <1>1, <1>2, <1>5, FinishHonest
<1>7. NoneRemoved(out')
  BY <1>6, ExtendsEmpty
<1>8. TableInv(table', timer') /\ timer' \in 0..Period /\ Reports
  BY <1>1, <1>7, TouchStays
<1>9. conn.up /\ conn'.up /\ conn' \in [up : BOOLEAN, hello : BOOLEAN, starting : BOOLEAN]
  BY <1>1, ReceivedFacts
<1>10. PortsInv' /\ ControllerKnowsPorts'
  BY <1>1, <1>2, <1>9, SamePorts
<1>11. QED
  BY <1>1, <1>2, <1>6, <1>8, <1>9, <1>10, Together

(* At most one message, and it is not about a removal.                     *)
Single(s) == s = <<>> \/ \E m : s = <<m>> /\ m.type # "flow_removed"

LEMMA SingleNone ==
  ASSUME NEW s, Single(s)
  PROVE  NoneRemoved(s)
<1>1. CASE s = <<>>
  BY <1>1 DEF NoneRemoved
<1>2. CASE \E m : s = <<m>> /\ m.type # "flow_removed"
  <2>1. PICK m : s = <<m>> /\ m.type # "flow_removed"
    BY <1>2
  <2>2. \A k \in DOMAIN <<m>> : <<m>>[k] = m
    OBVIOUS
  <2>3. QED
    BY <2>1, <2>2 DEF NoneRemoved
<1>3. QED
  BY <1>1, <1>2 DEF Single

LEMMA SingleMessage ==
  ASSUME NEW m, m.type # "flow_removed"
  PROVE  Single(<<m>>)
BY DEF Single

LEMMA SingleError ==
  ASSUME NEW type
  PROVE  Single(<<error(type)>>)
<1>1. error(type).type # "flow_removed"
  BY DEF error
<1>2. QED
  BY <1>1, SingleMessage

LEMMA StatsReply ==
  ASSUME NEW r
  PROVE  Single(stats_reply(r))
<1> DEFINE brief == [type |-> "stats_reply", stats |-> r.stats]
<1> DEFINE flows == [type |-> "stats_reply", stats |-> r.stats,
                     flows |-> Cardinality(matching_entries(r.match, r.out_port))]
<1> DEFINE port == [type |-> "stats_reply", stats |-> "port"]
<1> DEFINE queue == [type |-> "stats_reply", stats |-> "queue"]
<1>1. Single(<<brief>>) /\ Single(<<flows>>) /\ Single(<<port>>) /\ Single(<<queue>>)
  <2>1. brief.type # "flow_removed" /\ flows.type # "flow_removed" /\ port.type # "flow_removed"
        /\ queue.type # "flow_removed"
    OBVIOUS
  <2> HIDE DEF brief, flows, port, queue
  <2>2. QED
    BY <2>1, SingleMessage
<1>2. Single(<<error("bad_queue")>>) /\ Single(<<error("bad_stat")>>) /\ Single(<<>>)
  BY SingleError DEF Single
<1>3. stats_reply(r) =
        CASE r.stats \in {"desc", "table"} -> <<brief>>
          [] r.stats \in {"flow", "aggregate"} -> <<flows>>
          [] r.stats = "port" -> IF r.port \in DOMAIN ports \cup {NONE} THEN <<port>> ELSE <<>>
          [] r.stats = "queue" -> IF r.all THEN <<queue>> ELSE <<error("bad_queue")>>
          [] OTHER -> <<error("bad_stat")>>
  BY DEF stats_reply
<1> HIDE DEF brief, flows, port, queue
<1>4. CASE r.stats \in {"desc", "table"}
  BY <1>1, <1>3, <1>4
<1>5. CASE r.stats \in {"flow", "aggregate"}
  BY <1>1, <1>3, <1>5
<1>6. CASE r.stats = "port"
  BY <1>1, <1>2, <1>3, <1>6
<1>7. CASE r.stats = "queue"
  BY <1>1, <1>2, <1>3, <1>7
<1>8. CASE r.stats \notin {"desc", "table", "flow", "aggregate", "port", "queue"}
  BY <1>2, <1>3, <1>8
<1>9. QED
  BY <1>4, <1>5, <1>6, <1>7, <1>8

LEMMA Reply ==
  ASSUME peers \in Peers, NEW r \in peers.requests
  PROVE  /\ Single(reply(r))
         /\ r.type = "features_request" => reply(r)[1].ports = [n \in DOMAIN ports |-> ports[n].link_down]
<1> DEFINE hello == [type |-> "hello"]
<1> DEFINE echo == [type |-> "echo_reply"]
<1> DEFINE features == [type |-> "features_reply", ports |-> [n \in DOMAIN ports |-> ports[n].link_down]]
<1> DEFINE barrier == [type |-> "barrier_reply"]
<1> DEFINE config == [type |-> "get_config_reply", frag_drop |-> frag_drop]
<1> DEFINE queues == [type |-> "queue_get_config_reply"]
<1>1. r.type \in {"hello", "echo_request", "echo_reply", "features_request", "barrier_request",
                  "set_config", "get_config_request", "stats_request", "vendor",
                  "queue_get_config_request"}
  BY PeersAssumption
<1>2. /\ Single(<<hello>>) /\ Single(<<echo>>) /\ Single(<<features>>) /\ Single(<<barrier>>)
      /\ Single(<<config>>) /\ Single(<<queues>>)
  <2>1. hello.type # "flow_removed" /\ echo.type # "flow_removed" /\ features.type # "flow_removed"
        /\ barrier.type # "flow_removed" /\ config.type # "flow_removed" /\ queues.type # "flow_removed"
    OBVIOUS
  <2> HIDE DEF hello, echo, features, barrier, config, queues
  <2>2. QED
    BY <2>1, SingleMessage
<1>3. Single(<<error("bad_vendor")>>) /\ Single(<<>>) /\ Single(stats_reply(r))
  BY SingleError, StatsReply DEF Single
<1>4. reply(r) =
        CASE r.type = "hello" -> IF conn.hello THEN <<>> ELSE <<hello>>
          [] r.type = "echo_request" -> <<echo>>
          [] r.type = "features_request" -> <<features>>
          [] r.type = "barrier_request" -> <<barrier>>
          [] r.type = "get_config_request" -> <<config>>
          [] r.type = "stats_request" -> stats_reply(r)
          [] r.type = "vendor" -> <<error("bad_vendor")>>
          [] r.type = "queue_get_config_request" -> <<queues>>
          [] r.type \in {"echo_reply", "set_config"} -> <<>>
  BY DEF reply, send_hello
<1>5. features.ports = [n \in DOMAIN ports |-> ports[n].link_down]
  OBVIOUS
<1> HIDE DEF hello, echo, features, barrier, config, queues
<1>6. CASE r.type = "hello"
  BY <1>2, <1>3, <1>4, <1>6
<1>7. CASE r.type = "features_request"
  <2>1. reply(r) = <<features>>
    BY <1>4, <1>7
  <2>2. QED
    BY <2>1, <1>2, <1>5
<1>8. CASE r.type \in {"echo_request", "barrier_request", "get_config_request", "queue_get_config_request"}
  BY <1>2, <1>4, <1>8
<1>9. CASE r.type \in {"stats_request", "vendor", "echo_reply", "set_config"}
  BY <1>3, <1>4, <1>9
<1>10. QED
  BY <1>1, <1>6, <1>7, <1>8, <1>9

(* An action that leaves table and buffers alone.                          *)
LEMMA OnlyPorts ==
  ASSUME IInv, peers' = peers, UNCHANGED <<table, buffer, timer, announced>>, NoneRemoved(out'),
         frag_drop' \in BOOLEAN, conn' \in [up : BOOLEAN, hello : BOOLEAN, starting : BOOLEAN],
         PortsInv', ControllerKnowsPorts'
  PROVE  Preserves
<1>1. Slots(buffer) /\ BufferHonest /\ TableInv(table, timer) /\ timer \in 0..Period
  BY Parts
<1>2. Slots(buffer') /\ BufferHonest'
  BY <1>1, SameBuffer
<1>3. Reports
  BY SameTable DEF Reports
<1>4. TableInv(table', timer') /\ timer' \in 0..Period
  BY <1>1
<1>5. QED
  BY <1>2, <1>3, <1>4, Together

LEMMA RxRequestStep ==
  ASSUME IInv, peers' = peers, NEW r \in peers.requests, RxRequest(r)
  PROVE  Preserves
<1>1. /\ conn.up /\ out' = reply(r)
      /\ conn' = [conn EXCEPT !.starting = FALSE, !.hello = @ \/ r.type = "hello"]
      /\ frag_drop' = (IF r.type = "set_config" THEN r.frag_drop ELSE frag_drop)
      /\ view' = (IF r.type = "features_request" THEN out'[1].ports ELSE view)
      /\ UNCHANGED <<ports, port_stats, table, buffer, timer, announced>>
  BY DEF RxRequest
<1>2. Known /\ PortsInv /\ ControllerKnowsPorts /\ frag_drop \in BOOLEAN
      /\ conn \in [up : BOOLEAN, hello : BOOLEAN, starting : BOOLEAN]
  BY Parts
<1>3. peers \in Peers /\ (r.type = "set_config" => r.frag_drop \in BOOLEAN)
  BY <1>2, PeersAssumption DEF Known
<1>4. Single(reply(r))
      /\ (r.type = "features_request" => reply(r)[1].ports = [n \in DOMAIN ports |-> ports[n].link_down])
  BY <1>3, Reply
<1>5. NoneRemoved(out')
  BY <1>1, <1>4, SingleNone
<1>6. conn' \in [up : BOOLEAN, hello : BOOLEAN, starting : BOOLEAN]
  <2>1. (conn.hello \/ r.type = "hello") \in BOOLEAN
    BY Zenon
  <2>2. QED
    BY <1>1, <1>2, <2>1
<1>7. frag_drop' \in BOOLEAN
  BY <1>1, <1>2, <1>3
<1>8. PortsInv'
  BY <1>1, <1>2 DEF PortsInv
<1>9. ControllerKnowsPorts'
  <2>1. CASE r.type = "features_request"
    <3>1. view' = [n \in DOMAIN ports |-> ports[n].link_down]
      BY <2>1, <1>1, <1>4
    <3>2. QED
      BY <3>1, <1>1 DEF ControllerKnowsPorts
  <2>2. CASE r.type # "features_request"
    BY <2>2, <1>1, <1>2 DEF ControllerKnowsPorts, NoView
  <2>3. QED
    BY <2>1, <2>2
<1>10. QED
  BY <1>1, <1>5, <1>6, <1>7, <1>8, <1>9, OnlyPorts

(* send_port_status sends one message or none.                             *)
LEMMA PortStatus ==
  ASSUME NEW n, NEW reason, NEW link_down
  PROVE  Single(port_status(n, reason, link_down))
<1> DEFINE m == [type |-> "port_status", port |-> n, reason |-> reason, link_down |-> link_down]
<1>1. m.type # "flow_removed"
  OBVIOUS
<1>2. port_status(n, reason, link_down) = IF conn.up THEN <<m>> ELSE <<>>
  BY DEF port_status
<1> HIDE DEF m
<1>3. QED
  BY <1>1, <1>2, SingleMessage DEF Single

(* What is said of a port, and what the controller knows then.             *)
LEMMA ToldDown ==
  ASSUME ControllerKnowsPorts, conn.up, NEW n, NEW is \in {"down", "up"}, Told(n, is) # NoView
  PROVE  Told(n, is) = [m \in DOMAIN ports \cup {n} |-> IF m = n THEN is = "down" ELSE ports[m].link_down]
<1>1. view # NoView
  BY DEF Told
<1>2. view = [m \in DOMAIN ports |-> ports[m].link_down]
  BY <1>1 DEF ControllerKnowsPorts
<1>3. DOMAIN view = DOMAIN ports /\ \A m \in DOMAIN ports : view[m] = ports[m].link_down
  BY <1>2
<1>4. Told(n, is) = [m \in DOMAIN view \cup {n} |-> IF m = n THEN is = "down" ELSE view[m]]
  BY <1>1 DEF Told
<1>5. QED
  BY <1>3, <1>4

LEMMA ToldDeleted ==
  ASSUME ControllerKnowsPorts, conn.up, NEW n, Told(n, "deleted") # NoView
  PROVE  Told(n, "deleted") = [m \in DOMAIN ports \ {n} |-> ports[m].link_down]
<1>1. view # NoView
  BY DEF Told
<1>2. view = [m \in DOMAIN ports |-> ports[m].link_down]
  BY <1>1 DEF ControllerKnowsPorts
<1>3. DOMAIN view = DOMAIN ports /\ \A m \in DOMAIN ports : view[m] = ports[m].link_down
  BY <1>2
<1>4. Told(n, "deleted") = [m \in DOMAIN view \ {n} |-> view[m]]
  BY <1>1 DEF Told
<1>5. QED
  BY <1>3, <1>4

LEMMA AddPortStep ==
  ASSUME IInv, peers' = peers, NEW n \in peers.changing, AddPort(n)
  PROVE  Preserves
<1> DEFINE fresh == [config |-> {"NO_STP"}, link_down |-> FALSE]
<1>1. /\ n \notin DOMAIN ports
      /\ ports' = [m \in DOMAIN ports \cup {n} |-> IF m = n THEN fresh ELSE ports[m]]
      /\ port_stats' = port_stats \cup {n}
      /\ out' = port_status(n, "add", FALSE) /\ view' = Told(n, "up")
      /\ UNCHANGED <<table, buffer, frag_drop, conn, timer, announced>>
  BY DEF AddPort
<1>2. Known /\ PortsInv /\ ControllerKnowsPorts /\ frag_drop \in BOOLEAN
      /\ conn \in [up : BOOLEAN, hello : BOOLEAN, starting : BOOLEAN]
  BY Parts
<1>3. n \in PortNos
  BY <1>2, PeersAssumption DEF Known
<1>4. NoneRemoved(out')
  BY <1>1, PortStatus, SingleNone
<1>5. fresh = [config |-> fresh.config, link_down |-> fresh.link_down] /\ fresh.link_down = FALSE
  OBVIOUS
<1> HIDE DEF fresh
<1>6. DOMAIN ports' = DOMAIN ports \cup {n} /\ ports'[n] = fresh
      /\ \A m \in DOMAIN ports : ports'[m] = ports[m]
  BY <1>1
<1>7. PortsInv'
  <2>1. \A m \in DOMAIN ports : ports[m] = [config |-> ports[m].config, link_down |-> ports[m].link_down]
    BY <1>2 DEF PortsInv
  <2>2. \A m \in DOMAIN ports' :
          ports'[m] = [config |-> ports'[m].config, link_down |-> ports'[m].link_down]
    BY <2>1, <1>5, <1>6
  <2>3. ports' = [m \in DOMAIN ports' |-> ports'[m]]
    BY <1>1
  <2>4. DOMAIN ports' \subseteq PortNos /\ DOMAIN ports' \subseteq port_stats'
    BY <1>1, <1>2, <1>3, <1>6 DEF PortsInv
  <2>5. QED
    BY <2>2, <2>3, <2>4 DEF PortsInv
<1>8. ControllerKnowsPorts'
  <2> SUFFICES ASSUME conn.up, Told(n, "up") # NoView
               PROVE  Told(n, "up") = [m \in DOMAIN ports' |-> ports'[m].link_down]
    BY <1>1 DEF ControllerKnowsPorts, NoView
  <2>1. Told(n, "up") = [m \in DOMAIN ports \cup {n} |-> IF m = n THEN "up" = "down" ELSE ports[m].link_down]
    BY <1>2, ToldDown
  <2>2. "up" # "down"
    OBVIOUS
  <2>3. QED
    BY <2>1, <2>2, <1>5, <1>6
<1>9. QED
  BY <1>1, <1>2, <1>4, <1>7, <1>8, OnlyPorts

LEMMA DeletePortStep ==
  ASSUME IInv, peers' = peers, NEW n \in peers.changing, DeletePort(n)
  PROVE  Preserves
<1>1. /\ ports' = [m \in DOMAIN ports \ {n} |-> ports[m]]
      /\ out' = port_status(n, "delete", ports[n].link_down) /\ view' = Told(n, "deleted")
      /\ UNCHANGED <<port_stats, table, buffer, frag_drop, conn, timer, announced>>
  BY DEF DeletePort
<1>2. PortsInv /\ ControllerKnowsPorts /\ frag_drop \in BOOLEAN
      /\ conn \in [up : BOOLEAN, hello : BOOLEAN, starting : BOOLEAN]
  BY Parts
<1>3. NoneRemoved(out')
  BY <1>1, PortStatus, SingleNone
<1>4. DOMAIN ports' = DOMAIN ports \ {n} /\ \A m \in DOMAIN ports' : ports'[m] = ports[m]
  BY <1>1
<1>5. PortsInv'
  <2>1. \A m \in DOMAIN ports : ports[m] = [config |-> ports[m].config, link_down |-> ports[m].link_down]
    BY <1>2 DEF PortsInv
  <2>2. \A m \in DOMAIN ports' :
          ports'[m] = [config |-> ports'[m].config, link_down |-> ports'[m].link_down]
    BY <2>1, <1>4
  <2>3. ports' = [m \in DOMAIN ports' |-> ports'[m]]
    BY <1>1
  <2>4. DOMAIN ports' \subseteq PortNos /\ DOMAIN ports' \subseteq port_stats'
    BY <1>1, <1>2, <1>4 DEF PortsInv
  <2>5. QED
    BY <2>2, <2>3, <2>4 DEF PortsInv
<1>6. ControllerKnowsPorts'
  <2> SUFFICES ASSUME conn.up, Told(n, "deleted") # NoView
               PROVE  Told(n, "deleted") = [m \in DOMAIN ports' |-> ports'[m].link_down]
    BY <1>1 DEF ControllerKnowsPorts, NoView
  <2>1. Told(n, "deleted") = [m \in DOMAIN ports \ {n} |-> ports[m].link_down]
    BY <1>2, ToldDeleted
  <2>2. QED
    BY <2>1, <1>4
<1>7. QED
  BY <1>1, <1>2, <1>3, <1>5, <1>6, OnlyPorts

(* One port of the table of ports changes.                                 *)
LEMMA OnePort ==
  ASSUME PortsInv, NEW n \in DOMAIN ports, NEW c, NEW l, UNCHANGED port_stats,
         ports' = [ports EXCEPT ![n] = [config |-> c, link_down |-> l]]
  PROVE  /\ PortsInv' /\ DOMAIN ports' = DOMAIN ports /\ ports'[n].link_down = l
         /\ \A m \in DOMAIN ports : m # n => ports'[m].link_down = ports[m].link_down
<1> DEFINE new == [config |-> c, link_down |-> l]
<1>1. new = [config |-> new.config, link_down |-> new.link_down] /\ new.link_down = l
  OBVIOUS
<1>2. \A m \in DOMAIN ports : ports[m] = [config |-> ports[m].config, link_down |-> ports[m].link_down]
  BY DEF PortsInv
<1> HIDE DEF new
<1>3. ports = [m \in DOMAIN ports |-> ports[m]]
  BY DEF PortsInv
<1>4. DOMAIN ports' = DOMAIN ports /\ ports'[n] = new /\ \A m \in DOMAIN ports : m # n => ports'[m] = ports[m]
  BY <1>3 DEF new
<1>5. \A m \in DOMAIN ports' :
        ports'[m] = [config |-> ports'[m].config, link_down |-> ports'[m].link_down]
  BY <1>1, <1>2, <1>4
<1>6. ports' = [m \in DOMAIN ports' |-> ports'[m]]
  BY <1>4
<1>7. PortsInv'
  BY <1>4, <1>5, <1>6 DEF PortsInv
<1>8. QED
  BY <1>1, <1>4, <1>7

LEMMA BothFields ==
  ASSUME NEW a, NEW b, NEW c, NEW l, NEW r, r = [config |-> a, link_down |-> b]
  PROVE  [r EXCEPT !.config = c, !.link_down = l] = [config |-> c, link_down |-> l]
<1>1. [r EXCEPT !.config = c] = [config |-> c, link_down |-> b]
  OBVIOUS
<1>2. [[config |-> c, link_down |-> b] EXCEPT !.link_down = l] = [config |-> c, link_down |-> l]
  OBVIOUS
<1>3. QED
  BY <1>1, <1>2

LEMMA SetPortDown ==
  ASSUME PortsInv, ControllerKnowsPorts, NEW n \in DOMAIN ports, NEW on \in BOOLEAN,
         set_port_down(n, on), conn.up, conn'.up, UNCHANGED port_stats
  PROVE  PortsInv' /\ ControllerKnowsPorts' /\ NoneRemoved(out')
<1> DEFINE changed == on # ("PORT_DOWN" \in ports[n].config)
<1> DEFINE moved == changed /\ on # ports[n].link_down
<1> DEFINE c == IF on THEN ports[n].config \cup {"PORT_DOWN"} ELSE ports[n].config \ {"PORT_DOWN"}
<1> DEFINE l == IF changed THEN on ELSE ports[n].link_down
<1>1. ports[n] = [config |-> ports[n].config, link_down |-> ports[n].link_down]
  BY DEF PortsInv
<1>2. ports' = [ports EXCEPT ![n].config = c, ![n].link_down = l]
  BY DEF set_port_down
<1>3. /\ out' = (IF moved THEN port_status(n, "modify", on) ELSE <<>>)
      /\ view' = (IF moved THEN Told(n, IF on THEN "down" ELSE "up") ELSE view)
  BY DEF set_port_down
<1>4. l = IF moved THEN on ELSE ports[n].link_down
  BY Zenon
<1> HIDE DEF c, l, moved, changed
<1>5. ports' = [ports EXCEPT ![n] = [config |-> c, link_down |-> l]]
  <2>1. ports = [m \in DOMAIN ports |-> ports[m]]
    BY DEF PortsInv
  <2>2. [ports[n] EXCEPT !.config = c, !.link_down = l] = [config |-> c, link_down |-> l]
    <3> DEFINE r == ports[n]
    <3> DEFINE e == ports[n].config
    <3> DEFINE f == ports[n].link_down
    <3>1. r = [config |-> e, link_down |-> f]
      BY <1>1
    <3> HIDE DEF r, e, f
    <3>2. [r EXCEPT !.config = c, !.link_down = l] = [config |-> c, link_down |-> l]
      BY <3>1, BothFields
    <3>3. QED
      BY <3>2 DEF r
  <2>3. ports' = [ports EXCEPT ![n] = [ports[n] EXCEPT !.config = c, !.link_down = l]]
    BY <1>2, <2>1
  <2>4. QED
    BY <2>2, <2>3
<1>6. /\ PortsInv' /\ DOMAIN ports' = DOMAIN ports /\ ports'[n].link_down = l
      /\ \A m \in DOMAIN ports : m # n => ports'[m].link_down = ports[m].link_down
  BY <1>5, OnePort
<1>7. NoneRemoved(out')
  <2>1. Single(port_status(n, "modify", on)) /\ Single(<<>>)
    BY PortStatus DEF Single
  <2>2. QED
    BY <2>1, <1>3, SingleNone
<1>8. ControllerKnowsPorts'
  <2> SUFFICES ASSUME view' # NoView
               PROVE  view' = [m \in DOMAIN ports' |-> ports'[m].link_down]
    BY DEF ControllerKnowsPorts, NoView
  <2>1. CASE moved
    <3> DEFINE is == IF on THEN "down" ELSE "up"
    <3>1. is \in {"down", "up"} /\ ((is = "down") <=> on)
      OBVIOUS
    <3>2. view' = Told(n, is)
      BY <1>3, <2>1
    <3> HIDE DEF is
    <3>3. Told(n, is) = [m \in DOMAIN ports \cup {n} |-> IF m = n THEN is = "down" ELSE ports[m].link_down]
      BY <3>1, <3>2, ToldDown
    <3>4. DOMAIN ports \cup {n} = DOMAIN ports'
      BY <1>6
    <3>5. \A m \in DOMAIN ports' : (IF m = n THEN is = "down" ELSE ports[m].link_down) = ports'[m].link_down
      <4>1. (is = "down") = on
        BY <3>1, Zenon
      <4>2. QED
        BY <4>1, <1>4, <1>6, <2>1
    <3>6. QED
      BY <3>2, <3>3, <3>4, <3>5
  <2>2. CASE ~moved
    <3>1. view = [m \in DOMAIN ports |-> ports[m].link_down]
      BY <2>2, <1>3 DEF ControllerKnowsPorts
    <3>2. \A m \in DOMAIN ports : ports'[m].link_down = ports[m].link_down
      BY <2>2, <1>4, <1>6
    <3>3. QED
      BY <3>1, <3>2, <2>2, <1>3, <1>6
  <2>3. QED
    BY <2>1, <2>2
<1>9. QED
  BY <1>6, <1>7, <1>8

LEMMA SetPortFlag ==
  ASSUME PortsInv, ControllerKnowsPorts, NEW n \in DOMAIN ports, NEW flag, NEW on,
         set_port_flag(n, flag, on), conn.up, conn'.up, UNCHANGED port_stats
  PROVE  PortsInv' /\ ControllerKnowsPorts' /\ NoneRemoved(out')
<1> DEFINE c == IF on THEN ports[n].config \cup {flag} ELSE ports[n].config \ {flag}
<1>1. out' = <<>> /\ view' = view /\ ports' = IF flag = "NO_STP" THEN ports ELSE [ports EXCEPT ![n].config = c]
  BY DEF set_port_flag
<1>2. NoneRemoved(out')
  BY <1>1, SingleNone DEF Single
<1>3. CASE ports' = ports
  BY <1>1, <1>2, <1>3, SamePorts
<1>4. CASE ports' = [ports EXCEPT ![n].config = c]
  <2> HIDE DEF c
  <2>1. ports[n] = [config |-> ports[n].config, link_down |-> ports[n].link_down]
    BY DEF PortsInv
  <2>2. ports' = [ports EXCEPT ![n] = [config |-> c, link_down |-> ports[n].link_down]]
    <3>1. [ports[n] EXCEPT !.config = c] = [config |-> c, link_down |-> ports[n].link_down]
      BY <2>1
    <3>2. ports' = [ports EXCEPT ![n] = [ports[n] EXCEPT !.config = c]]
      BY <1>4
    <3>3. QED
      BY <3>1, <3>2
  <2>3. /\ PortsInv' /\ DOMAIN ports' = DOMAIN ports
        /\ \A m \in DOMAIN ports : ports'[m].link_down = ports[m].link_down
    BY <2>2, OnePort
  <2>4. [m \in DOMAIN ports' |-> ports'[m].link_down] = [m \in DOMAIN ports |-> ports[m].link_down]
    BY <2>3
  <2>5. ControllerKnowsPorts'
    BY <2>4, <1>1 DEF ControllerKnowsPorts, NoView
  <2>6. QED
    BY <2>3, <2>5, <1>2
<1>5. QED
  BY <1>1, <1>3, <1>4

LEMMA RxPortModStep ==
  ASSUME IInv, peers' = peers, NEW pm \in peers.port_mods, RxPortMod(pm)
  PROVE  Preserves
<1>1. /\ Received /\ UNCHANGED <<port_stats, table, buffer, frag_drop, timer, announced>>
      /\ IF pm.port_no \notin DOMAIN ports \/ ~pm.hw_addr
         THEN out' = <<error("port_mod_failed")>> /\ UNCHANGED <<ports, view>>
         ELSE IF pm.flag = "PORT_DOWN" THEN set_port_down(pm.port_no, pm.on)
         ELSE set_port_flag(pm.port_no, pm.flag, pm.on)
  BY DEF RxPortMod
<1>2. Known /\ PortsInv /\ ControllerKnowsPorts /\ frag_drop \in BOOLEAN
  BY Parts
<1>3. conn.up /\ conn'.up /\ conn' \in [up : BOOLEAN, hello : BOOLEAN, starting : BOOLEAN]
  BY <1>1, ReceivedFacts
<1>4. pm.on \in BOOLEAN
  BY <1>2, PeersAssumption DEF Known
<1>5. PortsInv' /\ ControllerKnowsPorts' /\ NoneRemoved(out')
  <2>1. CASE out' = <<error("port_mod_failed")>> /\ UNCHANGED <<ports, view>>
    BY <2>1, <1>1, <1>2, <1>3, SamePorts, SingleError, SingleNone
  <2>2. CASE pm.port_no \in DOMAIN ports /\ set_port_down(pm.port_no, pm.on)
    BY <2>2, <1>1, <1>2, <1>3, <1>4, SetPortDown
  <2>3. CASE pm.port_no \in DOMAIN ports /\ set_port_flag(pm.port_no, pm.flag, pm.on)
    BY <2>3, <1>1, <1>2, <1>3, SetPortFlag
  <2>4. QED
    BY <2>1, <2>2, <2>3, <1>1
<1>6. QED
  BY <1>1, <1>2, <1>3, <1>5, OnlyPorts

(* A second passes: an entry that has timeouts is a second older.          *)
Older(e) ==
  [e EXCEPT !.age = IF e.hard > 0 THEN @ + 1 ELSE @,
            !.untouched = IF e.idle > 0 THEN @ + 1 ELSE @]

LEMMA OlderFacts ==
  ASSUME NEW e \in EntryT
  PROVE  /\ Older(e) \in EntryT /\ SameKey(Older(e), e)
         /\ Older(e).hard = e.hard /\ Older(e).idle = e.idle
         /\ e.hard > 0 => Older(e).age = e.age + 1
         /\ e.idle > 0 => Older(e).untouched = e.untouched + 1
<1> DEFINE a == IF e.hard > 0 THEN e.age + 1 ELSE e.age
<1> DEFINE b == IF e.idle > 0 THEN e.untouched + 1 ELSE e.untouched
<1>1. e.age \in Nat /\ e.untouched \in Nat /\ e.hard \in Nat /\ e.idle \in Nat
  BY EntryFacts
<1>2. /\ a \in Nat /\ b \in Nat /\ (e.hard > 0 => a = e.age + 1) /\ (e.idle > 0 => b = e.untouched + 1)
  BY <1>1
<1>3. Older(e) = [e EXCEPT !.age = a, !.untouched = b]
  BY DEF Older, EntryT
<1> HIDE DEF a, b
<1>4. /\ [e EXCEPT !.age = a, !.untouched = b] \in EntryT
      /\ SameKey([e EXCEPT !.age = a, !.untouched = b], e)
      /\ [e EXCEPT !.age = a, !.untouched = b].hard = e.hard
      /\ [e EXCEPT !.age = a, !.untouched = b].idle = e.idle
      /\ [e EXCEPT !.age = a, !.untouched = b].age = a
      /\ [e EXCEPT !.age = a, !.untouched = b].untouched = b
  BY <1>2 DEF EntryT, SameKey
<1>5. QED
  BY <1>2, <1>3, <1>4

LEMMA OlderInv ==
  ASSUME NEW t, NEW tm \in 0..Period, tm > 0, TableInv(t, tm), NEW u, u = [i \in DOMAIN t |-> Older(t[i])]
  PROVE  TableInv(u, tm - 1) /\ AllStay(t, u)
<1>0. t \in Seq(EntryT) /\ Len(t) <= MaxEntries /\ Sorted(t) /\ Unique(t) /\ InTime(t, tm)
  BY DEF TableInv
<1>1. DOMAIN u = DOMAIN t /\ DOMAIN t = 1..Len(t) /\ Len(t) \in Nat
  BY <1>0
<1>2. \A i \in DOMAIN t : t[i] \in EntryT
  BY <1>0
<1>3. \A i \in DOMAIN t : u[i] = Older(t[i])
  OBVIOUS
<1>4. ASSUME NEW i \in DOMAIN t
      PROVE  /\ u[i] \in EntryT /\ SameKey(u[i], t[i])
             /\ u[i].hard = t[i].hard /\ u[i].idle = t[i].idle
             /\ t[i].hard > 0 => u[i].age = t[i].age + 1
             /\ t[i].idle > 0 => u[i].untouched = t[i].untouched + 1
  BY <1>2, <1>3, OlderFacts
<1>5. u = [i \in 1..Len(t) |-> u[i]]
  BY <1>1
<1>6. u \in Seq(EntryT) /\ Len(u) = Len(t)
  BY <1>1, <1>4, <1>5
<1>7. Sorted(u) /\ Unique(u)
  BY <1>0, <1>1, <1>4, SameKeys
<1>8. InTime(u, tm - 1)
  <2> SUFFICES ASSUME NEW i \in DOMAIN t
               PROVE  /\ u[i].hard > 0 => u[i].age <= u[i].hard + (Period - (tm - 1))
                      /\ u[i].idle > 0 => u[i].untouched <= u[i].idle + (Period - (tm - 1))
    BY <1>1 DEF InTime
  <2>1. /\ t[i].hard > 0 => t[i].age <= t[i].hard + (Period - tm)
        /\ t[i].idle > 0 => t[i].untouched <= t[i].idle + (Period - tm)
    BY <1>0 DEF InTime
  <2>2. /\ t[i].idle \in Nat /\ t[i].hard \in Nat /\ t[i].age \in Nat /\ t[i].untouched \in Nat
        /\ Period \in Nat
    BY <1>2, EntryFacts, Sizes
  <2>3. QED
    BY <2>1, <2>2, <1>4
<1>9. TableInv(u, tm - 1)
  BY <1>0, <1>6, <1>7, <1>8 DEF TableInv
<1>10. AllStay(t, u)
  BY <1>1, <1>4 DEF AllStay
<1>11. QED
  BY <1>9, <1>10

LEMMA TickStep ==
  ASSUME IInv, peers' = peers, Tick
  PROVE  Preserves
<1>1. /\ timer > 0 /\ timer' = timer - 1 /\ out' = <<>>
      /\ table' = [i \in DOMAIN table |-> Older(table[i])]
      /\ UNCHANGED <<ports, port_stats, buffer, frag_drop, conn, announced, view>>
  BY DEF Tick, Older
<1>2. Slots(buffer) /\ BufferHonest /\ PortsInv /\ ControllerKnowsPorts /\ frag_drop \in BOOLEAN
      /\ conn \in [up : BOOLEAN, hello : BOOLEAN, starting : BOOLEAN]
      /\ TableInv(table, timer) /\ timer \in 0..Period
  BY Parts
<1>3. TableInv(table', timer') /\ AllStay(table, table')
  BY <1>1, <1>2, OlderInv
<1>4. timer' \in 0..Period
  BY <1>1, <1>2, Sizes
<1>5. NoneRemoved(out')
  BY <1>1, SingleNone DEF Single
<1>6. Reports
  BY <1>3, <1>5, NothingLeaves DEF Reports
<1>7. Slots(buffer') /\ BufferHonest'
  BY <1>1, <1>2, SameBuffer
<1>8. PortsInv' /\ ControllerKnowsPorts'
  BY <1>1, <1>2, SamePorts
<1>9. QED
  BY <1>1, <1>2, <1>3, <1>4, <1>6, <1>7, <1>8, Together

(* What remove_expired_entries keeps has all its time before it.           *)
LEMMA ExpiryInTime ==
  ASSUME NEW t, NEW tm, TableInv(t, tm), NEW gone,
         \A i \in DOMAIN t : i \notin gone => ~is_idle_timed_out(t[i]) /\ ~is_hard_timed_out(t[i])
  PROVE  TableInv(keep(t, gone), Period)
<1> DEFINE u == keep(t, gone)
<1>1. TableInv(u, tm) /\ t \in Seq(EntryT)
  BY KeepInv DEF TableInv
<1>2. PICK at : Kept(u, t, DOMAIN t \ gone, at)
  BY <1>1, KeepFacts
<1> HIDE DEF u
<1>3. InTime(u, Period)
  <2> SUFFICES ASSUME NEW k \in DOMAIN u
               PROVE  /\ u[k].hard > 0 => u[k].age <= u[k].hard + (Period - Period)
                      /\ u[k].idle > 0 => u[k].untouched <= u[k].idle + (Period - Period)
    BY DEF InTime
  <2>1. at[k] \in DOMAIN t /\ at[k] \notin gone /\ u[k] = t[at[k]]
    BY <1>2 DEF Kept
  <2>2. ~is_idle_timed_out(u[k]) /\ ~is_hard_timed_out(u[k]) /\ u[k] \in EntryT
    BY <2>1, <1>1
  <2>3. /\ u[k].idle \in Nat /\ u[k].hard \in Nat /\ u[k].age \in Nat /\ u[k].untouched \in Nat
        /\ Period - Period = 0
    BY <2>2, EntryFacts, Sizes
  <2>4. (u[k].hard > 0 => u[k].age <= u[k].hard) /\ (u[k].idle > 0 => u[k].untouched <= u[k].idle)
    BY <2>2, <2>3 DEF is_idle_timed_out, is_hard_timed_out
  <2>5. QED
    BY <2>3, <2>4
<1>4. TableInv(u, Period)
  BY <1>1, <1>3 DEF TableInv
<1>5. QED
  BY <1>4 DEF u

LEMMA RemoveExpiredStep ==
  ASSUME IInv, peers' = peers, RemoveExpired
  PROVE  Preserves
<1> DEFINE idle == {i \in DOMAIN table : is_idle_timed_out(table[i])}
<1> DEFINE hard == {i \in DOMAIN table : hard_expired(table[i])}
<1> DEFINE a == flow_removed(table, idle, "idle")
<1> DEFINE b == flow_removed(table, hard, "hard")
<1>1. /\ timer' = Period /\ table' = keep(table, idle \cup hard) /\ out' = SendAll(Running, a \o b).out
      /\ UNCHANGED <<ports, port_stats, buffer, frag_drop, conn, announced, view>>
  BY DEF RemoveExpired
<1>2. Slots(buffer) /\ BufferHonest /\ PortsInv /\ ControllerKnowsPorts /\ frag_drop \in BOOLEAN
      /\ conn \in [up : BOOLEAN, hello : BOOLEAN, starting : BOOLEAN]
      /\ TableInv(table, timer) /\ timer \in 0..Period /\ table \in Seq(EntryT)
  BY Parts DEF TableInv
<1>3. idle \in SUBSET DOMAIN table /\ hard \in SUBSET DOMAIN table /\ idle \cap hard = {}
      /\ idle \cup hard \in SUBSET DOMAIN table
  BY DEF hard_expired
<1>4. \A i \in DOMAIN table :
        i \notin idle \cup hard => ~is_idle_timed_out(table[i]) /\ ~is_hard_timed_out(table[i])
  BY DEF hard_expired
<1> HIDE DEF idle, hard
<1>5. IsList(a) /\ IsList(b) /\ (\E f : TellsAt(a, table, idle, f)) /\ (\E g : TellsAt(b, table, hard, g))
  BY <1>2, <1>3, FlowRemovedTells
<1> HIDE DEF a, b
<1>6. PICK f : TellsAt(a, table, idle, f)
  BY <1>5
<1>7. PICK g : TellsAt(b, table, hard, g)
  BY <1>5
<1>8. PICK at : TellsAt(a \o b, table, idle \cup hard, at)
  BY <1>3, <1>5, <1>6, <1>7, TellsTogether
<1>9. Reported(table, keep(table, idle \cup hard), a \o b)
  BY <1>2, <1>3, <1>8, RemovedReported
<1>10. Reports
  <2> SUFFICES ASSUME conn.up
               PROVE  out' = a \o b
    BY <1>1, <1>9 DEF Reports
  <2>1. SendAll(Running, a \o b) = [Running EXCEPT !.out = @ \o (a \o b)]
    BY DEF SendAll
  <2>2. Running.out = <<>> /\ DOMAIN Running = {"buffer", "out", "ok", "raised", "packet", "touched"}
    BY RunningQuiet DEF Quiet, Running_
  <2>3. SendAll(Running, a \o b).out = <<>> \o (a \o b)
    BY <2>1, <2>2
  <2>4. IsList(a \o b)
    BY <1>5, ConcatList
  <2>5. <<>> \o (a \o b) = a \o b
    BY <2>4, ConcatEmptySeq DEF IsList
  <2>6. QED
    BY <2>3, <2>5, <1>1
<1>11. TableInv(table', timer') /\ timer' \in 0..Period
  <2>1. TableInv(keep(table, idle \cup hard), Period)
    BY <1>2, <1>4, ExpiryInTime
  <2>2. Period \in 0..Period
    BY Sizes
  <2>3. QED
    BY <2>1, <2>2, <1>1
<1>12. Slots(buffer') /\ BufferHonest'
  BY <1>1, <1>2, SameBuffer
<1>13. PortsInv' /\ ControllerKnowsPorts'
  BY <1>1, <1>2, SamePorts
<1>14. QED
  BY <1>1, <1>2, <1>10, <1>11, <1>12, <1>13, Together

(* OFConnection                                                            *)
LEMMA ConnectionStep ==
  ASSUME IInv, peers' = peers, SetConnection \/ RxBadVersion \/ RxUnreadable \/ Close
  PROVE  Preserves
<1>1. PortsInv /\ ControllerKnowsPorts /\ frag_drop \in BOOLEAN
      /\ conn \in [up : BOOLEAN, hello : BOOLEAN, starting : BOOLEAN]
  BY Parts
<1>2. UNCHANGED <<ports, port_stats, table, buffer, frag_drop, timer, announced>>
  BY DEF SetConnection, RxBadVersion, RxUnreadable, Close
<1>3. /\ conn' \in [up : BOOLEAN, hello : BOOLEAN, starting : BOOLEAN]
      /\ \/ view' = NoView
         \/ view' = view /\ (conn'.up => conn.up)
  <2>1. CASE SetConnection
    <3>1. conn' = [up |-> TRUE, hello |-> FALSE, starting |-> TRUE] /\ view' = NoView
      BY <2>1 DEF SetConnection
    <3>2. QED
      BY <3>1
  <2>2. CASE RxBadVersion \/ Close
    <3>1. conn' = [conn EXCEPT !.up = FALSE] /\ view' = view
      BY <2>2 DEF RxBadVersion, Close
    <3>2. QED
      BY <3>1, <1>1
  <2>3. CASE RxUnreadable
    <3>1. conn' = conn /\ view' = view
      BY <2>3 DEF RxUnreadable
    <3>2. QED
      BY <3>1, <1>1
  <2>4. QED
    BY <2>1, <2>2, <2>3
<1>4. NoneRemoved(out')
  <2>1. out' = <<>> \/ \E type : out' = <<error(type)>>
    BY DEF SetConnection, RxBadVersion, RxUnreadable, Close
  <2>2. Single(out')
    BY <2>1, SingleError DEF Single
  <2>3. QED
    BY <2>2, SingleNone
<1>5. PortsInv' /\ ControllerKnowsPorts'
  <2>1. CASE view' = NoView
    BY <2>1, <1>1, <1>2 DEF PortsInv, ControllerKnowsPorts, NoView
  <2>2. CASE view' = view /\ (conn'.up => conn.up)
    BY <2>2, <1>1, <1>2, SamePorts
  <2>3. QED
    BY <2>1, <2>2, <1>3
<1>6. QED
  BY <1>1, <1>2, <1>3, <1>4, <1>5, OnlyPorts

-----------------------------------------------------------------------------
(* The theorems                                                            *)

LEMMA InitInv ==
  ASSUME Init
  PROVE  IInv
<1>1. table = <<>> /\ buffer = <<>> /\ timer = Period /\ peers \in Peers /\ frag_drop = FALSE
      /\ conn = [up |-> FALSE, hello |-> FALSE, starting |-> TRUE] /\ view = NoView
      /\ ports = [n \in FirstPorts |-> [config |-> {"NO_STP"}, link_down |-> FALSE]]
      /\ port_stats = FirstPorts
  BY DEF Init
<1>2. Len(<<>>) = 0 /\ DOMAIN <<>> = {}
  OBVIOUS
<1>3. TableInv(table, timer)
  <2>1. table \in Seq(EntryT) /\ Len(table) <= MaxEntries
    BY <1>1, <1>2, Sizes
  <2>2. Sorted(table) /\ Unique(table) /\ InTime(table, timer)
    BY <1>1, <1>2 DEF Sorted, Unique, InTime
  <2>3. QED
    BY <2>1, <2>2 DEF TableInv
<1>4. Slots(buffer) /\ BufferHonest
  <2>1. IsList(<<>>)
    BY EmptyList
  <2>2. QED
    BY <1>1, <1>2, <2>1, Sizes DEF Slots, IsList, BufferHonest
<1>5. PortsInv
  <2> DEFINE first == [config |-> {"NO_STP"}, link_down |-> FALSE]
  <2>1. first = [config |-> first.config, link_down |-> first.link_down]
    OBVIOUS
  <2>2. ports = [n \in FirstPorts |-> first] /\ FirstPorts \subseteq PortNos /\ port_stats = FirstPorts
    BY <1>1, SizesAssumption
  <2> HIDE DEF first
  <2>3. QED
    BY <2>1, <2>2 DEF PortsInv
<1>6. timer \in 0..Period /\ frag_drop \in BOOLEAN
      /\ conn \in [up : BOOLEAN, hello : BOOLEAN, starting : BOOLEAN]
  <2>1. Period \in Nat /\ Period \in 0..Period
    BY Sizes
  <2>2. [up |-> FALSE, hello |-> FALSE, starting |-> TRUE]
          \in [up : BOOLEAN, hello : BOOLEAN, starting : BOOLEAN]
    OBVIOUS
  <2>3. QED
    BY <1>1, <2>1, <2>2
<1>7. ControllerKnowsPorts
  BY <1>1 DEF ControllerKnowsPorts
<1>8. QED
  BY <1>1, <1>3, <1>4, <1>5, <1>6, <1>7 DEF IInv, Types

LEMMA StepInv ==
  ASSUME IInv, Next
  PROVE  Preserves
<1>1. Step /\ peers' = peers
  BY DEF Next
<1>2. CASE \E p \in peers.packets, n \in PortNos : RxPacket(p, n)
  BY <1>1, <1>2, RxPacketStep
<1>3. CASE \E fm \in peers.flow_mods : RxFlowMod(fm)
  BY <1>1, <1>3, RxFlowModStep
<1>4. CASE \E po \in peers.packet_outs : RxPacketOut(po)
  BY <1>1, <1>4, RxPacketOutStep
<1>5. CASE \E r \in peers.requests : RxRequest(r)
  BY <1>1, <1>5, RxRequestStep
<1>6. CASE \E pm \in peers.port_mods : RxPortMod(pm)
  BY <1>1, <1>6, RxPortModStep
<1>7. CASE \E n \in peers.changing : AddPort(n) \/ DeletePort(n)
  BY <1>1, <1>7, AddPortStep, DeletePortStep
<1>8. CASE Tick
  BY <1>1, <1>8, TickStep
<1>9. CASE RemoveExpired
  BY <1>1, <1>9, RemoveExpiredStep
<1>10. CASE SetConnection \/ RxBadVersion \/ RxUnreadable \/ Close
  BY <1>1, <1>10, ConnectionStep
<1>11. QED
  BY <1>1, <1>2, <1>3, <1>4, <1>5, <1>6, <1>7, <1>8, <1>9, <1>10 DEF Step

LEMMA StutterInv ==
  ASSUME IInv, UNCHANGED vars
  PROVE  IInv'
<1>1. /\ peers' = peers /\ ports' = ports /\ table' = table /\ buffer' = buffer
      /\ frag_drop' = frag_drop /\ conn' = conn /\ timer' = timer /\ announced' = announced
      /\ view' = view /\ port_stats' = port_stats
  BY DEF vars
<1>2. Slots(buffer) /\ BufferHonest /\ PortsInv /\ ControllerKnowsPorts /\ TableInv(table, timer)
  BY Parts
<1>3. TableInv(table, timer)'
  BY <1>1, <1>2, NextTable
<1>4. PortsInv' /\ ControllerKnowsPorts'
  BY <1>1, <1>2, SamePorts
<1>5. Slots(buffer') /\ BufferHonest'
  BY <1>1, <1>2, SameBuffer
<1>6. Slots(buffer)'
  BY <1>5 DEF Slots, Slot, Free, NoPacket, NONE
<1>7. QED
  BY <1>1, <1>3, <1>4, <1>5, <1>6 DEF IInv, Types

LEMMA Inductive == Spec => []IInv
<1>1. Init => IInv
  BY InitInv
<1>2. IInv /\ [Next]_vars => IInv'
  BY StepInv, StutterInv DEF Preserves
<1>3. QED
  BY <1>1, <1>2, PTL DEF Spec

(* The table is in order, so the first entry that matches a frame has the  *)
(* highest priority of all that do.                                        *)
LEMMA OrderedWins ==
  ASSUME IInv
  PROVE  BestEntryWins
<1> SUFFICES ASSUME NEW p, NEW n, NEW j \in DOMAIN table,
                    matches_with_wildcards(table[j].match, from_packet(p, n), FALSE)
             PROVE  /\ entry_for_packet(p, n) # 0
                    /\ effective_priority(table[j]) <= effective_priority(table[entry_for_packet(p, n)])
  BY DEF BestEntryWins
<1> DEFINE i == entry_for_packet(p, n)
<1>1. table \in Seq(EntryT) /\ Sorted(table)
  BY Parts DEF TableInv
<1>2. i \in DOMAIN table /\ i <= j
  BY <1>1, FirstEntry
<1> HIDE DEF i
<1>3. DOMAIN table = 1..Len(table) /\ Len(table) \in Nat
  BY <1>1
<1>4. i # 0 /\ (i = j \/ i < j)
  BY <1>2, <1>3
<1>5. effective_priority(table[j]) \in Nat
  BY <1>1, EntryFacts
<1>6. effective_priority(table[j]) <= effective_priority(table[i])
  BY <1>1, <1>2, <1>4, <1>5 DEF Sorted
<1>7. QED
  BY <1>4, <1>6 DEF i

LEMMA TableParts ==
  ASSUME IInv
  PROVE  TableSound
<1>1. /\ Slots(buffer) /\ TableInv(table, timer) /\ timer \in 0..Period /\ PortsInv
      /\ frag_drop \in BOOLEAN /\ conn \in [up : BOOLEAN, hello : BOOLEAN, starting : BOOLEAN]
  BY Parts
<1>2. table \in Seq(EntryT) /\ Len(table) <= MaxEntries /\ Unique(table) /\ InTime(table, timer)
  BY <1>1 DEF TableInv
<1>3. TypeOK
  BY <1>1, <1>2 DEF TypeOK, PortsInv, Slots, Slot
<1>4. NoDuplicates
  BY <1>2 DEF NoDuplicates, Unique
<1>5. FixedOnArrival
  <2> SUFFICES ASSUME NEW i \in DOMAIN table
               PROVE  \E fm \in peers.flow_mods : table[i].match = fix(fm.match)
    BY DEF FixedOnArrival
  <2>1. table[i] \in EntryT
    BY <1>2
  <2>2. QED
    BY <2>1 DEF EntryT
<1>6. ExpiresInTime
  <2> SUFFICES ASSUME NEW i \in DOMAIN table
               PROVE  /\ table[i].hard > 0 => table[i].age <= table[i].hard + Period
                      /\ table[i].idle > 0 => table[i].untouched <= table[i].idle + Period
    BY DEF ExpiresInTime
  <2>1. /\ table[i].hard > 0 => table[i].age <= table[i].hard + (Period - timer)
        /\ table[i].idle > 0 => table[i].untouched <= table[i].idle + (Period - timer)
    BY <1>2 DEF InTime
  <2>2. table[i] \in EntryT
    BY <1>2
  <2>3. /\ table[i].hard \in Nat /\ table[i].age \in Nat /\ table[i].idle \in Nat
        /\ table[i].untouched \in Nat /\ Period \in Nat
    BY <2>2, EntryFacts, Sizes
  <2>4. QED
    BY <2>1, <2>3, <1>1
<1>7. QED
  BY <1>3, <1>4, <1>5, <1>6, OrderedWins DEF TableSound

(* For every table size, timer period and set of messages: an entry of the *)
(* highest effective priority handles a frame (the binary search of        *)
(* add_entry keeps the table in order), no two entries have the same match *)
(* and priority, a match arrives as fix() leaves it, entries go within a   *)
(* period of their timeouts, and table and buffers keep to their limits.   *)
THEOREM TableAlwaysSound == Spec => []TableSound
<1>1. IInv => TableSound
  BY TableParts
<1>2. QED
  BY <1>1, Inductive, PTL

(* For every number of buffers and ports: whatever frames, rewrites,       *)
(* releases, reconnections and port changes come in whatever order, a slot *)
(* holds the very frame (the object that arrived, from its port) that the  *)
(* last packet-in with its number announced, and the controller of the     *)
(* connection knows the ports and which are down.  Nothing is said of what *)
(* set actions wrote to that frame since (BufferUnchanged does not hold).  *)
THEOREM ToldTrue == Spec => []ControllerToldTrue
<1>1. IInv => ControllerToldTrue
  BY DEF IInv, ControllerToldTrue
<1>2. QED
  BY <1>1, Inductive, PTL

(* An entry that asked for it leaves with exactly one flow-removed message *)
(* while a controller is connected, by whichever of DELETE and the two     *)
(* timeouts it goes and however many go together; no step sends one for an *)
(* entry that stays.                                                       *)
THEOREM RemovalsReported == Spec => RemovalReported
<1> DEFINE Exactly ==
      conn.up /\ conn'.up =>
        \A i \in DOMAIN table :
          LET e == table[i]
              left == ~\E j \in DOMAIN table' :
                         table'[j].match = e.match /\ table'[j].priority = e.priority
              told == {k \in DOMAIN out' : /\ out'[k].type = "flow_removed"
                                           /\ out'[k].match = e.match
                                           /\ out'[k].priority = e.priority}
          IN e.rem => Cardinality(told) = IF left THEN 1 ELSE 0
<1>1. Reports => Exactly
  BY DEF Reports, Reported, Left, ToldOf
<1>2. IInv /\ [Next]_vars => [Exactly]_vars
  BY <1>1, StepInv DEF Preserves
<1>3. QED
  BY <1>2, Inductive, PTL DEF Spec, RemovalReported
=============================================================================
