----------------------------- MODULE CoreProofs -----------------------------
(***************************************************************************)
(* Proofs about Core: nobody who waits for components is forgotten or      *)
(* called twice, no listener is passed over, components are launched as    *)
(* the command line asks, and nothing is told that POX stops before it has *)
(* started, for all programs, command lines, waiters and listeners.        *)
(***************************************************************************)
EXTENDS Core, FiniteSetTheorems, SequenceTheorems, WellFoundedInduction, TLAPS

-----------------------------------------------------------------------------
(* The frames of a stack.                                                  *)
EntryT == [handler: DOMAIN Listeners, priority: Nat \cup {NoPriority}, once: BOOLEAN, eid: Nat]
CodeT == [fn: {"code"}, kind: {"handler", "callback", "launch", "task"}]
RaiseT == [fn: {"raise"}, event: Events, lst: Seq(EntryT), live: BOOLEAN, i: Nat \ {0}, cur: EntryT,
           halt: BOOLEAN, safe: BOOLEAN, start: SUBSET Nat, called: SUBSET Nat]
TryT == [fn: {"_try_waiters"}, todo: Seq(DOMAIN Waiters), changed: BOOLEAN]
DoneT == [fn: {"done"}, todo: Seq(DOMAIN Listeners)]
GoUpT == [fn: {"goUp"}, pc: {"start", "goingup", "up", "notify"}]
QuitT == [fn: {"_quit"}, pc: {"check", "stop", "defer", "wait", "notify"}]
FrameT == CodeT \cup RaiseT \cup TryT \cup DoneT \cup GoUpT \cup QuitT

(* Every listener of the event that was there at first has been called or  *)
(* is still to come.                                                       *)
Reached(d) == \A id \in d.start : id \in d.called \/ \E k \in d.i..Len(d.lst) : d.lst[k].eid = id

(* The handlers of a sink are bound by its done(), which is called when    *)
(* the sink has been served.                                               *)
Bound(l, sv) == \A w \in DOMAIN Sinks : l \in Range(Sinks[w]) => sv[w] = 1

(* What a frame says of the state: a dispatch that is live goes over the   *)
(* list of its source, done() belongs to a sink that was served, goUp is   *)
(* called when everything was launched, and a quit gets no further than    *)
(* its test while POX starts.                                              *)
FrameInv(f, hs, sv, up, su) ==
  /\ f \in RaiseT => Reached(f) /\ (f.live => f.lst = hs[f.event])
  /\ f \in DoneT => \A n \in DOMAIN f.todo : Bound(f.todo[n], sv)
  /\ f \in GoUpT => up
  /\ f \in QuitT /\ f.pc # "check" => ~su

(* At the bottom of a stack is what starts a thread; a handler stands on   *)
(* the dispatch that called it.                                            *)
Starts(f) == f.fn \in {"code", "goUp", "_quit"}
IsHandler(f) == f \in CodeT /\ f.kind = "handler"
Whole(s, hs, sv, up, su) ==
  /\ s \in Seq(FrameT)
  /\ s # <<>> => Starts(s[1])
  /\ \A k \in DOMAIN s : IsHandler(s[k]) => k > 1 /\ s[k - 1] \in RaiseT
  /\ \A k \in DOMAIN s : FrameInv(s[k], hs, sv, up, su)

Sound(stk, hs, sv, up, su) ==
  /\ stk \in [Threads -> Seq(FrameT)]
  /\ \A th \in Threads : Whole(stk[th], hs, sv, up, su)

HasStarted == boot # "launch" /\ at = Len(order_)
Stacks == Sound(stack, handlers, served, HasStarted, starting_up)

Types ==
  /\ program \in Programs /\ left \subseteq program.ops
  /\ boot \in {"launch", "up", "wait", "end", "exited"} /\ at \in 0..Len(order_)
  /\ starting_up \in BOOLEAN /\ running \in BOOLEAN /\ sched \in {"runs", "told", "quit"}
  /\ waiters \in Seq(DOMAIN Waiters) /\ served \in [DOMAIN Waiters -> Nat]
  /\ next_eid \in Nat \ {0} /\ log \in Seq(Events) /\ skipped = FALSE

(* Lists are in order, their ids were given out, and the handlers of sinks *)
(* among them belong to sinks that were served.                            *)
ListOK(lst, top, sv) ==
  /\ Sorted(lst)
  /\ \A k \in DOMAIN lst : lst[k].eid \in 1..top - 1 /\ Bound(lst[k].handler, sv)
ListsOK(hs, top, sv) == hs \in [Events -> Seq(EntryT)] /\ \A e \in Events : ListOK(hs[e], top, sv)
Lists == ListsOK(handlers, next_eid, served)

(* A waiter is asked for, waits or is served, one after the other.         *)
Waiting ==
  /\ \A j, k \in DOMAIN waiters : waiters[j] = waiters[k] => j = k
  /\ \A k \in DOMAIN waiters : served[waiters[k]] = 0
  /\ \A w \in DOMAIN Waiters : served[w] \in {0, 1} /\ (served[w] = 1 => Ready(w))
  /\ \A o \in left : Enters(o) => served[o.arg] = 0 /\ \A k \in DOMAIN waiters : waiters[k] # o.arg

(* A waiter that is ready will be looked at.                               *)
Looks(f, w) == f \in TryT /\ (f.changed \/ \E n \in DOMAIN f.todo : f.todo[n] = w)
Watched ==
  \A k \in DOMAIN waiters : Ready(waiters[k]) =>
    \E th \in Threads : \E j \in DOMAIN stack[th] : Looks(stack[th][j], waiters[k])

(* POX is told to stop when it has started.                                *)
Phases ==
  /\ ~starting_up => HasStarted
  /\ starting_up => \A n \in DOMAIN log : log[n] # "GoingDown"

CInv == Types /\ Stacks /\ Lists /\ Waiting /\ Watched /\ Phases

-----------------------------------------------------------------------------
(* Sequences.                                                              *)

(* A non-empty set of positions has a first and a last one.                *)
LEMMA FirstPlace ==
  ASSUME NEW T, T \subseteq Nat, T # {}
  PROVE  \E x \in T : \A y \in T : x <= y
<1> DEFINE Less == {p \in Nat \X Nat : p[1] < p[2]}
<1>1. OpToRel(<, Nat) = Less
  BY DEF OpToRel
<1>2. IsWellFoundedOn(Less, Nat)
  BY <1>1, NatLessThanWellFounded
<1> HIDE DEF Less
<1>3. PICK x \in T : \A y \in T : ~(<<y, x>> \in Less)
  BY <1>2, WFMin
<1>4. \A y \in T : ~(y < x)
  BY <1>3 DEF Less
<1>5. QED
  BY <1>4

LEMMA LastPlace ==
  ASSUME NEW n \in Nat, NEW T, T \subseteq 1..n, T # {}
  PROVE  \E x \in T : \A y \in T : y <= x
<1> DEFINE U == {k \in 0..n : n - k \in T}
<1>1. U \subseteq Nat /\ U # {}
  <2>1. PICK y \in T : TRUE
    OBVIOUS
  <2>2. n - y \in 0..n /\ n - (n - y) = y
    OBVIOUS
  <2>3. n - y \in U
    BY <2>1, <2>2
  <2>4. U \subseteq Nat
    OBVIOUS
  <2> HIDE DEF U
  <2>5. QED
    BY <2>3, <2>4
<1>2. PICK u \in U : \A v \in U : u <= v
  BY <1>1, FirstPlace
<1>3. \A y \in T : y <= n - u
  <2> TAKE y \in T
  <2>1. n - y \in U
    <3>1. n - y \in 0..n /\ n - (n - y) = y
      OBVIOUS
    <3>2. QED
      BY <3>1
  <2>2. u <= n - y
    BY <2>1, <1>2
  <2>3. QED
    BY <2>2, <1>2
<1>4. QED
  BY <1>2, <1>3

(* A sequence of numbers that grows and stays within its own domain is the *)
(* identity.                                                               *)
LEMMA GrowsInPlace ==
  ASSUME NEW n \in Nat, NEW f \in [1..n -> 1..n],
         \A j, k \in 1..n : j < k => f[j] < f[k]
  PROVE  \A k \in 1..n : f[k] = k
<1> DEFINE Below == {k \in 1..n : f[k] < k}
           Above == {k \in 1..n : f[k] > k}
<1>1. Below = {}
  <2> SUFFICES ASSUME Below # {} PROVE FALSE
    OBVIOUS
  <2>0. Below \subseteq Nat
    OBVIOUS
  <2>1. PICK x \in Below : \A y \in Below : x <= y
    BY <2>0, FirstPlace
  <2>2. x \in 1..n /\ f[x] \in 1..n /\ f[x] < x
    BY <2>1
  <2>3. f[x] \notin Below
    BY <2>1, <2>2
  <2>4. f[f[x]] < f[x]
    BY <2>2
  <2>5. QED
    BY <2>2, <2>3, <2>4
<1>2. Above = {}
  <2> SUFFICES ASSUME Above # {} PROVE FALSE
    OBVIOUS
  <2>0. Above \subseteq 1..n
    OBVIOUS
  <2>1. PICK x \in Above : \A y \in Above : y <= x
    BY <2>0, LastPlace
  <2>2. x \in 1..n /\ f[x] \in 1..n /\ f[x] > x
    BY <2>1
  <2>3. f[x] \notin Above
    BY <2>1, <2>2
  <2>4. f[f[x]] > f[x]
    BY <2>2
  <2>5. QED
    BY <2>2, <2>3, <2>4
<1>3. QED
  <2> TAKE k \in 1..n
  <2>1. ~(f[k] < k) /\ ~(f[k] > k)
    BY <1>1, <1>2
  <2>2. QED
    BY <2>1

LEMMA FrontAndLast ==
  ASSUME NEW S, NEW s \in Seq(S), s # <<>>
  PROVE  /\ Front(s) \in Seq(S) /\ Len(Front(s)) = Len(s) - 1 /\ Len(s) \in Nat \ {0}
         /\ \A k \in 1..Len(s) - 1 : Front(s)[k] = s[k]
         /\ Last(s) = s[Len(s)] /\ Last(s) \in S
<1>1. Len(s) \in Nat \ {0} /\ Last(s) = s[Len(s)] /\ Last(s) \in S
  BY DEF Last
<1> DEFINE n == Len(s) - 1
<1>2. n \in Nat /\ 1 \in Int /\ n - 1 + 1 = n /\ \A i \in 1..n : s[i] \in S
  BY <1>1
<1>3. /\ Front(s) \in Seq(S) /\ Len(Front(s)) = n
      /\ \A k \in 1..n : Front(s)[k] = s[k]
  <2>1. /\ SubSeq(s, 1, n) \in Seq(S)
        /\ Len(SubSeq(s, 1, n)) = IF 1 <= n THEN n - 1 + 1 ELSE 0
        /\ \A i \in 1..n - 1 + 1 : SubSeq(s, 1, n)[i] = s[1 + i - 1]
    <3> HIDE DEF n
    <3>1. QED
      BY <1>2, SubSeqProperties
  <2>2. Front(s) = SubSeq(s, 1, n)
    BY DEF Front
  <2> HIDE DEF n
  <2>3. \A i \in 1..n : 1 + i - 1 = i
    BY <1>2
  <2>4. QED
    BY <1>2, <2>1, <2>2, <2>3
<1>4. QED
  BY <1>1, <1>3

LEMMA TailFacts ==
  ASSUME NEW S, NEW s \in Seq(S), s # <<>>
  PROVE  /\ Tail(s) \in Seq(S)
         /\ \A n \in DOMAIN Tail(s) : n + 1 \in DOMAIN s /\ Tail(s)[n] = s[n + 1]
         /\ \A n \in DOMAIN s : n = 1 \/ (n - 1 \in DOMAIN Tail(s) /\ Tail(s)[n - 1] = s[n])
<1>1. Tail(s) \in Seq(S) /\ Len(Tail(s)) = Len(s) - 1 /\ \A i \in 1..Len(Tail(s)) : Tail(s)[i] = s[i + 1]
  BY HeadTailProperties
<1>2. Len(s) \in Nat /\ DOMAIN s = 1..Len(s) /\ DOMAIN Tail(s) = 1..Len(s) - 1
  BY <1>1
<1> DEFINE m == Len(s)
<1> HIDE DEF m
<1>3. \A n \in 1..m - 1 : n + 1 \in 1..m
  BY <1>2 DEF m
<1>4. \A n \in 1..m : n = 1 \/ (n - 1 \in 1..m - 1 /\ (n - 1) + 1 = n)
  BY <1>2 DEF m
<1>5. QED
  BY <1>1, <1>2, <1>3, <1>4 DEF m

(* A sequence without its i-th element.                                    *)
Cut(s, i, t) ==
  /\ Len(t) = Len(s) - 1
  /\ \A k \in 1..Len(s) - 1 : t[k] = IF k < i THEN s[k] ELSE s[k + 1]
LEMMA RemoveAtCuts ==
  ASSUME NEW S, NEW s \in Seq(S), NEW i \in DOMAIN s
  PROVE  RemoveAt(s, i) \in Seq(S) /\ Cut(s, i, RemoveAt(s, i))
<1> DEFINE n == Len(s)
           a == SubSeq(s, 1, i - 1)
           b == SubSeq(s, i + 1, n)
<1>1. n \in Nat /\ i \in 1..n /\ \A k \in 1..n : s[k] \in S
  OBVIOUS
<1>2. a \in Seq(S) /\ Len(a) = i - 1 /\ \A k \in 1..i - 1 : a[k] = s[k]
  <2>1. 1 \in Int /\ i - 1 \in Int /\ \A k \in 1..i - 1 : s[k] \in S
    BY <1>1
  <2>2. /\ SubSeq(s, 1, i - 1) \in Seq(S)
        /\ Len(SubSeq(s, 1, i - 1)) = IF 1 <= i - 1 THEN (i - 1) - 1 + 1 ELSE 0
        /\ \A k \in 1..(i - 1) - 1 + 1 : SubSeq(s, 1, i - 1)[k] = s[1 + k - 1]
    BY <2>1, SubSeqProperties
  <2>3. (i - 1) - 1 + 1 = i - 1 /\ \A k \in 1..i - 1 : 1 + k - 1 = k
    BY <1>1
  <2>4. QED
    BY <1>1, <2>2, <2>3
<1>3. b \in Seq(S) /\ Len(b) = n - i /\ \A k \in 1..n - i : b[k] = s[i + k]
  <2>1. i + 1 \in Int /\ n \in Int /\ \A k \in i + 1..n : s[k] \in S
    BY <1>1
  <2>2. /\ SubSeq(s, i + 1, n) \in Seq(S)
        /\ Len(SubSeq(s, i + 1, n)) = IF i + 1 <= n THEN n - (i + 1) + 1 ELSE 0
        /\ \A k \in 1..n - (i + 1) + 1 : SubSeq(s, i + 1, n)[k] = s[(i + 1) + k - 1]
    <3> HIDE DEF n
    <3>1. QED
      BY <2>1, SubSeqProperties
  <2>3. n - (i + 1) + 1 = n - i /\ \A k \in 1..n - i : (i + 1) + k - 1 = i + k
    BY <1>1
  <2>4. QED
    BY <1>1, <2>2, <2>3
<1>4. RemoveAt(s, i) = a \o b
  BY DEF RemoveAt
<1> HIDE DEF n, a, b
<1>a. i \in Int /\ n \in Int /\ 1 <= i /\ i <= n
  BY <1>1
<1>b. a \o b \in Seq(S) /\ Len(a \o b) = Len(a) + Len(b)
  BY <1>2, <1>3, ConcatProperties
<1>5. a \o b \in Seq(S) /\ Len(a \o b) = n - 1
  BY <1>a, <1>b, <1>2, <1>3
<1>6. ASSUME NEW k \in 1..n - 1 PROVE (a \o b)[k] = IF k < i THEN s[k] ELSE s[k + 1]
  <2>1. CASE k < i
    BY <1>1, <1>2, <1>3, <2>1
  <2>2. CASE ~(k < i)
    <3>1. k \in Int /\ 1 <= k /\ k <= n - 1
      OBVIOUS
    <3>2. k - (i - 1) \in 1..n - i /\ i + (k - (i - 1)) = k + 1 /\ k \in 1..(i - 1) + (n - i) /\ ~(k <= i - 1)
      BY <1>a, <3>1, <2>2
    <3>3. (a \o b)[k] = b[k - Len(a)]
      BY <1>2, <1>3, <3>2, ConcatProperties
    <3>4. (a \o b)[k] = s[k + 1]
      BY <1>2, <1>3, <3>2, <3>3
    <3>5. QED
      BY <1>a, <3>1, <3>4, <2>2
  <2>3. QED
    BY <2>1, <2>2
<1>7. QED
  BY <1>4, <1>5, <1>6 DEF Cut, n

-----------------------------------------------------------------------------
(* Lists of listeners.                                                     *)

(* The list s is lst with e at place p.                                    *)
Spliced(lst, e, s, p) ==
  \A k \in 1..Len(lst) + 1 : s[k] = IF k < p THEN lst[k] ELSE IF k = p THEN e ELSE lst[k - 1]
Inserted(lst, e, s) ==
  /\ s \in Seq(EntryT) /\ Len(s) = Len(lst) + 1 /\ Sorted(s)
  /\ \E p \in 1..Len(lst) + 1 : Spliced(lst, e, s, p)

(* An entry that is newer than all others has one place.                   *)
LEMMA PlaceExists ==
  ASSUME NEW lst \in Seq(EntryT), Sorted(lst), NEW e \in EntryT,
         \A k \in DOMAIN lst : lst[k].eid < e.eid
  PROVE  \E p \in 1..Len(lst) + 1 : /\ \A k \in 1..p - 1 : Before(lst[k], e)
                                    /\ \A k \in p..Len(lst) : Before(e, lst[k])
<1> DEFINE n == Len(lst)
           T == {k \in 1..n + 1 : k = n + 1 \/ Before(e, lst[k])}
<1>1. n \in Nat /\ DOMAIN lst = 1..n
  OBVIOUS
<1>2. T \subseteq Nat /\ n + 1 \in T
  BY <1>1
<1>3. PICK p \in T : \A y \in T : p <= y
  <2>1. T # {}
    BY <1>2
  <2> HIDE DEF T
  <2>2. QED
    BY <1>2, <2>1, FirstPlace
<1>4. \A k \in 1..n : lst[k].priority \in Int /\ lst[k].eid \in Int /\ lst[k].eid < e.eid
  <2> TAKE k \in 1..n
  <2>1. lst[k] \in EntryT /\ lst[k].eid < e.eid
    BY <1>1
  <2>2. QED
    BY <2>1 DEF EntryT, NoPriority
<1>5. e.priority \in Int /\ e.eid \in Int
  BY DEF EntryT, NoPriority
<1>6. ASSUME NEW k \in 1..p - 1 PROVE Before(lst[k], e)
  <2>1. k \in 1..n /\ k \notin T
    BY <1>1, <1>3
  <2>2. ~Before(e, lst[k])
    BY <1>1, <2>1
  <2>3. QED
    BY <1>4, <1>5, <2>1, <2>2 DEF Before
<1>7. ASSUME NEW k \in p..n PROVE Before(e, lst[k])
  <2>1. p \in 1..n /\ Before(e, lst[p]) /\ k \in 1..n
    BY <1>1, <1>3
  <2>2. k = p \/ Before(lst[p], lst[k])
    BY <1>1, <2>1 DEF Sorted
  <2>3. QED
    BY <1>4, <1>5, <2>1, <2>2 DEF Before
<1>8. p \in 1..n + 1
  BY <1>3
<1> HIDE DEF T
<1>9. QED
  BY <1>6, <1>7, <1>8

(* The list with e put there is in order.                                  *)
LEMMA SpliceSorted ==
  ASSUME NEW lst \in Seq(EntryT), Sorted(lst), NEW e \in EntryT, NEW p \in 1..Len(lst) + 1,
         \A k \in 1..p - 1 : Before(lst[k], e), \A k \in p..Len(lst) : Before(e, lst[k]),
         NEW s, s \in Seq(EntryT), Len(s) = Len(lst) + 1, Spliced(lst, e, s, p)
  PROVE  Sorted(s)
<1> DEFINE n == Len(lst)
<1>1. n \in Nat /\ DOMAIN lst = 1..n /\ DOMAIN s = 1..n + 1 /\ p \in 1..n + 1
  OBVIOUS
<1>2. \A k \in 1..n + 1 : s[k] = IF k < p THEN lst[k] ELSE IF k = p THEN e ELSE lst[k - 1]
  BY DEF Spliced
<1>3. \A j, k \in 1..n : j < k => Before(lst[j], lst[k])
  BY <1>1 DEF Sorted
<1>4. (\A k \in 1..p - 1 : Before(lst[k], e)) /\ \A k \in p..n : Before(e, lst[k])
  OBVIOUS
<1> HIDE DEF n
<1>5. ASSUME NEW j \in 1..n + 1, NEW k \in 1..n + 1, j < k PROVE Before(s[j], s[k])
  <2>1. CASE k < p
    <3>1. j < p /\ j \in 1..n /\ k \in 1..n
      BY <1>1, <1>5, <2>1
    <3>2. QED
      BY <1>2, <1>3, <1>5, <2>1, <3>1
  <2>2. CASE k = p
    <3>1. j < p /\ j \in 1..p - 1
      BY <1>1, <1>5, <2>2
    <3>2. QED
      BY <1>1, <1>2, <1>4, <2>2, <3>1
  <2>3. CASE k > p
    <3>1. k - 1 \in 1..n /\ k - 1 \in p..n /\ ~(k < p) /\ k # p
      BY <1>1, <2>3
    <3>2. CASE j < p
      <4>1. j \in 1..n /\ j < k - 1
        BY <1>1, <2>3, <3>2
      <4>2. QED
        BY <1>2, <1>3, <3>1, <3>2, <4>1
    <3>3. CASE j = p
      BY <1>1, <1>2, <1>4, <3>1, <3>3
    <3>4. CASE j > p
      <4>1. j - 1 \in 1..n /\ j - 1 < k - 1 /\ ~(j < p) /\ j # p
        BY <1>1, <1>5, <3>4
      <4>2. QED
        BY <1>2, <1>3, <3>1, <4>1
    <3>5. QED
      BY <1>1, <3>2, <3>3, <3>4
  <2>4. QED
    BY <1>1, <2>1, <2>2, <2>3
<1>6. QED
  BY <1>1, <1>5 DEF Sorted

LEMMA BeforeStrict ==
  ASSUME NEW x \in EntryT, NEW y \in EntryT, Before(x, y)
  PROVE  ~Before(y, x)
<1>1. x.priority \in Int /\ y.priority \in Int /\ x.eid \in Int /\ y.eid \in Int
  BY DEF EntryT, NoPriority
<1>2. QED
  BY <1>1 DEF Before

(* Two lists in order of the same entries are the same.                    *)
LEMMA OneOrder ==
  ASSUME NEW n \in Nat, NEW s \in [1..n -> EntryT], NEW t \in [1..n -> EntryT], Sorted(s), Sorted(t),
         \A k \in 1..n : \E j \in 1..n : s[k] = t[j]
  PROVE  s = t
<1> DEFINE f == [k \in 1..n |-> CHOOSE j \in 1..n : s[k] = t[j]]
<1>1. f \in [1..n -> 1..n] /\ \A k \in 1..n : s[k] = t[f[k]]
  OBVIOUS
<1> HIDE DEF f
<1>2. \A k \in 1..n : t[k].priority \in Int /\ t[k].eid \in Int
  <2> TAKE k \in 1..n
  <2>1. t[k] \in EntryT
    OBVIOUS
  <2>2. QED
    BY <2>1 DEF EntryT, NoPriority
<1>3. ASSUME NEW j \in 1..n, NEW k \in 1..n, j < k PROVE f[j] < f[k]
  <2>0. DOMAIN s = 1..n /\ DOMAIN t = 1..n /\ f[j] \in 1..n /\ f[k] \in 1..n
    BY <1>1
  <2>1. PICK a, b \in 1..n : a = f[j] /\ b = f[k]
    BY <2>0
  <2>2. Before(t[a], t[b])
    <3>1. Before(s[j], s[k])
      BY <1>3, <2>0 DEF Sorted
    <3>2. QED
      BY <1>1, <2>1, <3>1
  <2>3. /\ t[a].priority \in Int /\ t[a].eid \in Int
        /\ t[b].priority \in Int /\ t[b].eid \in Int
    BY <1>2
  <2>4. a # b
    BY <2>2, <2>3 DEF Before
  <2>5. ~(b < a)
    <3>1. SUFFICES ASSUME b < a PROVE FALSE
      OBVIOUS
    <3>2. Before(t[b], t[a])
      BY <2>0, <3>1 DEF Sorted
    <3>3. QED
      BY <2>2, <3>2, BeforeStrict
  <2>6. a < b
    BY <2>4, <2>5
  <2>7. QED
    BY <2>1, <2>6
<1>4. \A k \in 1..n : f[k] = k
  BY <1>1, <1>3, GrowsInPlace
<1>5. \A k \in 1..n : s[k] = t[k]
  BY <1>1, <1>4
<1>6. QED
  BY <1>5

(* addListener puts the new entry in its place and moves nothing else.     *)
LEMMA AddedInserts ==
  ASSUME NEW lst \in Seq(EntryT), Sorted(lst), NEW e \in EntryT,
         \A k \in DOMAIN lst : lst[k].eid < e.eid
  PROVE  Inserted(lst, e, Added(lst, e))
<1> DEFINE n == Len(lst)
           new == Append(lst, e)
<1>1. n \in Nat /\ DOMAIN lst = 1..n /\ \A k \in 1..n : lst[k] \in EntryT
  OBVIOUS
<1>2. /\ new \in Seq(EntryT) /\ Len(new) = n + 1 /\ DOMAIN new = 1..n + 1
      /\ new[n + 1] = e /\ \A k \in 1..n : new[k] = lst[k]
  OBVIOUS
<1>3. PICK p \in 1..n + 1 : /\ \A k \in 1..p - 1 : Before(lst[k], e)
                            /\ \A k \in p..n : Before(e, lst[k])
  BY PlaceExists
<1> DEFINE t == [k \in 1..n + 1 |-> IF k < p THEN lst[k] ELSE IF k = p THEN e ELSE lst[k - 1]]
<1>4. t \in [1..n + 1 -> EntryT]
  <2>1. ASSUME NEW k \in 1..n + 1
        PROVE  (IF k < p THEN lst[k] ELSE IF k = p THEN e ELSE lst[k - 1]) \in EntryT
    <3>1. k < p => k \in 1..n
      BY <1>1
    <3>2. ~(k < p) /\ k # p => k - 1 \in 1..n
      BY <1>1
    <3> HIDE DEF n
    <3>3. QED
      BY <1>1, <3>1, <3>2
  <2> HIDE DEF n
  <2>2. QED
    BY <2>1
<1>5. t \in Seq(EntryT) /\ Len(t) = n + 1
  <2>1. n + 1 \in Nat
    BY <1>1
  <2> HIDE DEF t, n
  <2>2. QED
    BY <1>4, <2>1
<1>6. Spliced(lst, e, t, p)
  BY DEF Spliced
<1> HIDE DEF t, n, new
<1>7. Sorted(t)
  BY <1>3, <1>5, <1>6, SpliceSorted DEF n
<1>8. CASE e.priority = NoPriority
  <2>1. \A k \in 1..n : Before(lst[k], e)
    <3> TAKE k \in 1..n
    <3>1. lst[k] \in EntryT /\ lst[k].eid < e.eid
      BY <1>1
    <3>2. QED
      BY <3>1, <1>8 DEF Before, EntryT, NoPriority
  <2>2. \A k \in (n + 1)..n : Before(e, lst[k])
    BY <1>1
  <2>3. \A k \in 1..(n + 1) - 1 : Before(lst[k], e)
    BY <1>1, <2>1
  <2>4. Spliced(lst, e, new, n + 1)
    BY <1>1, <1>2 DEF Spliced, n
  <2>5. Sorted(new)
    <3>1. n + 1 \in 1..n + 1
      BY <1>1
    <3>2. QED
      BY <1>2, <2>2, <2>3, <2>4, <3>1, SpliceSorted DEF n
  <2>6. n + 1 \in 1..n + 1
    BY <1>1
  <2>7. Added(lst, e) = new
    BY <1>8 DEF Added, new
  <2>8. QED
    BY <1>2, <2>4, <2>5, <2>6, <2>7 DEF Inserted, n
<1>9. CASE e.priority # NoPriority
  <2>1. Range(new) = {lst[k] : k \in 1..n} \cup {e}
    <3>1. Range(new) = {new[k] : k \in 1..n + 1}
      BY <1>2 DEF Range
    <3>2. \A k \in 1..n + 1 : k \in 1..n \/ k = n + 1
      BY <1>1
    <3>3. 1..n \subseteq 1..n + 1 /\ n + 1 \in 1..n + 1
      BY <1>1
    <3>4. QED
      BY <1>2, <3>1, <3>2, <3>3
  <2>2. \A k \in 1..n + 1 : t[k] \in Range(new)
    <3> TAKE k \in 1..n + 1
    <3>1. t[k] = IF k < p THEN lst[k] ELSE IF k = p THEN e ELSE lst[k - 1]
      BY DEF t
    <3>2. k < p => k \in 1..n
      BY <1>1
    <3>3. ~(k < p) /\ k # p => k - 1 \in 1..n
      BY <1>1
    <3>4. QED
      BY <2>1, <3>1, <3>2, <3>3
  <2>3. t \in [DOMAIN new -> Range(new)]
    BY <1>2, <1>4, <2>2
  <2> DEFINE s == BySort(new)
  <2>4. s \in [DOMAIN new -> Range(new)] /\ Sorted(s)
    BY <1>7, <2>3 DEF BySort
  <2> HIDE DEF s
  <2>5. ASSUME NEW x \in Range(new) PROVE x \in EntryT /\ \E j \in 1..n + 1 : x = t[j]
    <3>1. x \in EntryT
      BY <1>1, <2>1
    <3>2. CASE x = e
      <4>1. t[p] = e
        BY <1>1, <1>3 DEF t
      <4>2. QED
        BY <1>3, <3>1, <3>2, <4>1
    <3>3. ASSUME NEW k \in 1..n, x = lst[k] PROVE \E j \in 1..n + 1 : x = t[j]
      <4>1. CASE k < p
        <5>1. k \in 1..n + 1 /\ t[k] = lst[k]
          BY <1>1, <4>1 DEF t
        <5>2. QED
          BY <3>3, <5>1
      <4>2. CASE ~(k < p)
        <5>1. k + 1 \in 1..n + 1 /\ ~(k + 1 < p) /\ k + 1 # p /\ (k + 1) - 1 = k
          BY <1>1, <1>3, <4>2
        <5>2. t[k + 1] = lst[k]
          BY <5>1 DEF t
        <5>3. QED
          BY <3>3, <5>1, <5>2
      <4>3. QED
        BY <4>1, <4>2
    <3>4. QED
      BY <2>1, <3>1, <3>2, <3>3
  <2>6. s \in [1..n + 1 -> EntryT] /\ \A k \in 1..n + 1 : \E j \in 1..n + 1 : s[k] = t[j]
    BY <1>2, <2>4, <2>5
  <2>7. s = t
    <3>1. n + 1 \in Nat
      BY <1>1
    <3>2. QED
      BY <1>4, <1>7, <2>4, <2>6, <3>1, OneOrder
  <2>8. Added(lst, e) = t
    BY <1>9, <2>7 DEF Added, s, new
  <2>9. QED
    BY <1>3, <1>5, <1>6, <1>7, <2>8 DEF Inserted, n
<1>10. QED
  BY <1>8, <1>9

-----------------------------------------------------------------------------
(* Frames and stacks.                                                      *)
LEMMA FrameKinds ==
  ASSUME NEW f \in FrameT
  PROVE  /\ f \in CodeT <=> f.fn = "code"
         /\ f \in RaiseT <=> f.fn = "raise"
         /\ f \in TryT <=> f.fn = "_try_waiters"
         /\ f \in DoneT <=> f.fn = "done"
         /\ f \in GoUpT <=> f.fn = "goUp"
         /\ f \in QuitT <=> f.fn = "_quit"
<1>1. \A c \in CodeT : c.fn = "code"
  BY DEF CodeT
<1>2. \A c \in RaiseT : c.fn = "raise"
  BY DEF RaiseT
<1>3. \A c \in TryT : c.fn = "_try_waiters"
  BY DEF TryT
<1>4. \A c \in DoneT : c.fn = "done"
  BY DEF DoneT
<1>5. \A c \in GoUpT : c.fn = "goUp"
  BY DEF GoUpT
<1>6. \A c \in QuitT : c.fn = "_quit"
  BY DEF QuitT
<1>7. QED
  BY <1>1, <1>2, <1>3, <1>4, <1>5, <1>6 DEF FrameT

(* The frames of _try_waiters in s are still in t.                         *)
Keeps(s, t) == \A j \in DOMAIN s : s[j] \in TryT => j \in DOMAIN t /\ t[j] = s[j]

LEMMA WholeFront ==
  ASSUME NEW hs, NEW sv, NEW up, NEW su, NEW s, Whole(s, hs, sv, up, su), s # <<>>
  PROVE  Whole(Front(s), hs, sv, up, su) /\ (Last(s) \notin TryT => Keeps(s, Front(s)))
<1> DEFINE n == Len(s)
<1>1. s \in Seq(FrameT)
  BY DEF Whole
<1>2. /\ Front(s) \in Seq(FrameT) /\ Len(Front(s)) = n - 1 /\ n \in Nat \ {0}
      /\ \A k \in 1..n - 1 : Front(s)[k] = s[k]
      /\ Last(s) = s[n]
  BY <1>1, FrontAndLast
<1>3. DOMAIN s = 1..n /\ DOMAIN Front(s) = 1..n - 1
  BY <1>1, <1>2
<1>4. Front(s) # <<>> => Starts(Front(s)[1])
  <2>1. Front(s) # <<>> => 1 \in 1..n - 1
    BY <1>2
  <2>2. QED
    BY <1>2, <2>1 DEF Whole
<1> HIDE DEF n
<1>5. \A k \in 1..n - 1 : k \in 1..n /\ (k > 1 => k - 1 \in 1..n - 1)
  BY <1>2
<1>6. \A k \in DOMAIN Front(s) : IsHandler(Front(s)[k]) => k > 1 /\ Front(s)[k - 1] \in RaiseT
  BY <1>2, <1>3, <1>5 DEF Whole
<1>7. \A k \in DOMAIN Front(s) : FrameInv(Front(s)[k], hs, sv, up, su)
  BY <1>2, <1>3, <1>5 DEF Whole
<1>8. Last(s) \notin TryT => Keeps(s, Front(s))
  <2>1. \A k \in 1..n : k \in 1..n - 1 \/ k = n
    BY <1>2
  <2>2. QED
    BY <1>2, <1>3, <2>1 DEF Keeps
<1>9. QED
  BY <1>2, <1>4, <1>6, <1>7, <1>8 DEF Whole

LEMMA WholePush ==
  ASSUME NEW hs, NEW sv, NEW up, NEW su, NEW s, Whole(s, hs, sv, up, su),
         NEW f \in FrameT, FrameInv(f, hs, sv, up, su),
         s = <<>> => Starts(f),
         IsHandler(f) => s # <<>> /\ Last(s) \in RaiseT
  PROVE  Whole(Append(s, f), hs, sv, up, su) /\ Keeps(s, Append(s, f))
<1> DEFINE n == Len(s)
           t == Append(s, f)
<1>1. s \in Seq(FrameT)
  BY DEF Whole
<1>2. /\ n \in Nat /\ DOMAIN s = 1..n /\ t \in Seq(FrameT) /\ DOMAIN t = 1..n + 1 /\ t # <<>>
      /\ t[n + 1] = f /\ \A k \in 1..n : t[k] = s[k]
  BY <1>1
<1>3. (s = <<>> => n = 0) /\ (s # <<>> => n > 0 /\ Last(s) = s[n])
  BY <1>1, <1>2 DEF Last
<1> HIDE DEF n, t
<1>4. Starts(t[1])
  <2>1. CASE s = <<>>
    BY <1>2, <1>3, <2>1
  <2>2. CASE s # <<>>
    <3>1. 1 \in 1..n
      BY <1>2, <1>3, <2>2
    <3>2. QED
      BY <1>2, <2>2, <3>1 DEF Whole
  <2>3. QED
    BY <2>1, <2>2
<1>5. ASSUME NEW k \in 1..n + 1
      PROVE  (IsHandler(t[k]) => k > 1 /\ t[k - 1] \in RaiseT) /\ FrameInv(t[k], hs, sv, up, su)
  <2>1. CASE k \in 1..n
    <3>1. k > 1 => k - 1 \in 1..n
      BY <1>2, <2>1
    <3>2. QED
      BY <1>2, <2>1, <3>1 DEF Whole
  <2>2. CASE k = n + 1
    <3>1. n > 0 => k > 1 /\ k - 1 = n /\ n \in 1..n
      BY <1>2, <2>2
    <3>2. QED
      BY <1>2, <1>3, <2>2, <3>1
  <2>3. QED
    BY <1>2, <2>1, <2>2
<1>6. Keeps(s, t)
  BY <1>2 DEF Keeps
<1>7. QED
  BY <1>2, <1>4, <1>5, <1>6 DEF Whole, t

LEMMA KeepsOn ==
  ASSUME NEW s, NEW t, NEW u, Keeps(s, t), Keeps(t, u)
  PROVE  Keeps(s, u)
  BY DEF Keeps

(* The frame on top is replaced by another of its kind.                    *)
LEMMA WholeTop ==
  ASSUME NEW hs, NEW sv, NEW up, NEW su, NEW s, Whole(s, hs, sv, up, su), s # <<>>,
         NEW f \in FrameT, f.fn = Last(s).fn, ~IsHandler(f), FrameInv(f, hs, sv, up, su)
  PROVE  /\ Whole(Append(Front(s), f), hs, sv, up, su)
         /\ f \notin TryT => Keeps(s, Append(Front(s), f))
<1>1. /\ s \in Seq(FrameT) /\ Last(s) \in FrameT /\ Last(s) = s[Len(s)]
      /\ Len(Front(s)) = Len(s) - 1 /\ Len(s) \in Nat \ {0} /\ Front(s) \in Seq(FrameT)
  BY FrontAndLast DEF Whole
<1>2. Front(s) = <<>> => Starts(f)
  <2>1. SUFFICES ASSUME Front(s) = <<>> PROVE Starts(f)
    OBVIOUS
  <2>2. Len(s) = 1
    BY <1>1, <2>1
  <2>3. QED
    BY <1>1, <2>2 DEF Whole, Starts
<1>3. Whole(Front(s), hs, sv, up, su) /\ (Last(s) \notin TryT => Keeps(s, Front(s)))
  BY WholeFront
<1>4. Whole(Append(Front(s), f), hs, sv, up, su) /\ Keeps(Front(s), Append(Front(s), f))
  BY <1>2, <1>3, WholePush
<1>5. f \notin TryT => Last(s) \notin TryT
  BY <1>1, FrameKinds
<1>6. QED
  BY <1>3, <1>4, <1>5, KeepsOn

(* What frames say stays true when waiters are served and POX starts.      *)
LEMMA WholeMono ==
  ASSUME NEW hs, NEW sv, NEW up, NEW su, NEW s, Whole(s, hs, sv, up, su),
         NEW sv2, NEW up2, NEW su2, \A w \in DOMAIN Sinks : sv[w] = 1 => sv2[w] = 1,
         up => up2, su2 => su
  PROVE  Whole(s, hs, sv2, up2, su2)
<1>1. ASSUME NEW l, Bound(l, sv) PROVE Bound(l, sv2)
  BY <1>1 DEF Bound
<1>2. ASSUME NEW f, FrameInv(f, hs, sv, up, su) PROVE FrameInv(f, hs, sv2, up2, su2)
  BY <1>1, <1>2 DEF FrameInv
<1>3. QED
  BY <1>2 DEF Whole

-----------------------------------------------------------------------------
(* Listeners that come and go while events are dispatched.                 *)

(* A dispatch over a list that gets one more entry still reaches everyone. *)
LEMMA ReachedAdded ==
  ASSUME NEW d \in RaiseT, Reached(d), NEW e \in EntryT, NEW s, Inserted(d.lst, e, s)
  PROVE  \A id \in d.start : id \in d.called \/ \E k \in d.i..Len(s) : s[k].eid = id
<1>1. d.lst \in Seq(EntryT) /\ d.i \in Nat \ {0}
  BY DEF RaiseT
<1> DEFINE n == Len(d.lst)
<1>2. n \in Nat /\ Len(s) = n + 1
  BY <1>1 DEF Inserted
<1>3. PICK p \in 1..n + 1 : Spliced(d.lst, e, s, p)
  BY DEF Inserted
<1>4. ASSUME NEW id \in d.start, id \notin d.called PROVE \E k \in d.i..n + 1 : s[k].eid = id
  <2>1. PICK k \in d.i..n : d.lst[k].eid = id
    BY <1>4 DEF Reached
  <2>2. k \in 1..n + 1 /\ k + 1 \in 1..n + 1 /\ k \in d.i..n + 1 /\ k + 1 \in d.i..n + 1 /\ (k + 1) - 1 = k
    BY <1>1, <1>2
  <2>3. CASE k < p
    <3>1. s[k] = d.lst[k]
      BY <1>3, <2>2, <2>3 DEF Spliced
    <3>2. QED
      BY <2>1, <2>2, <3>1
  <2>4. CASE ~(k < p)
    <3>1. ~(k + 1 < p) /\ k + 1 # p
      BY <1>2, <1>3, <2>2, <2>4
    <3>2. s[k + 1] = d.lst[k]
      BY <1>3, <2>2, <3>1 DEF Spliced
    <3>3. QED
      BY <2>1, <2>2, <3>2
  <2>5. QED
    BY <2>3, <2>4
<1>5. QED
  BY <1>2, <1>4

(* A listener is added to the list of an event.                            *)
MayAdd(hs, event, e) ==
  /\ hs \in [Events -> Seq(EntryT)] /\ event \in Events /\ e \in EntryT
  /\ Sorted(hs[event]) /\ \A k \in DOMAIN hs[event] : hs[event][k].eid < e.eid
AddsTo(hs, event, e, hs2) == hs2 = [hs EXCEPT ![event] = Added(@, e)]
LEMMA FrameAdded ==
  ASSUME NEW hs, NEW sv, NEW up, NEW su, NEW event, NEW e, MayAdd(hs, event, e),
         NEW hs2, AddsTo(hs, event, e, hs2),
         NEW f \in FrameT, FrameInv(f, hs, sv, up, su)
  PROVE  LET g == DispatchAdded(f, event, e)
         IN /\ g \in FrameT /\ g.fn = f.fn /\ (f \notin RaiseT => g = f)
            /\ FrameInv(g, hs2, sv, up, su)
<1> DEFINE g == DispatchAdded(f, event, e)
<1>0. f \in RaiseT <=> f.fn = "raise"
  BY FrameKinds
<1>1. CASE f \notin RaiseT
  <2>1. g = f
    BY <1>0, <1>1 DEF DispatchAdded
  <2>2. QED
    BY <1>1, <2>1 DEF FrameInv
<1>2. CASE f \in RaiseT
  <2>0. /\ f.event \in Events /\ f.live \in BOOLEAN /\ f.lst \in Seq(EntryT) /\ f.fn = "raise"
        /\ f \notin DoneT /\ f \notin GoUpT /\ f \notin QuitT
    BY <1>2, FrameKinds DEF RaiseT
  <2>1. CASE f.live /\ f.event = event
    <3>1. f.lst = hs[event]
      BY <1>2, <2>1 DEF FrameInv
    <3>2. Inserted(f.lst, e, Added(f.lst, e))
      BY <3>1, AddedInserts DEF MayAdd
    <3>3. g = [f EXCEPT !.lst = Added(f.lst, e)]
      BY <2>0, <2>1 DEF DispatchAdded
    <3>4. Added(f.lst, e) \in Seq(EntryT)
      BY <3>2 DEF Inserted
    <3> HIDE DEF g
    <3>5. g \in RaiseT
      BY <1>2, <3>3, <3>4 DEF RaiseT
    <3>6. /\ g.lst = Added(f.lst, e) /\ g.start = f.start /\ g.called = f.called /\ g.i = f.i
          /\ g.event = f.event /\ g.live = f.live /\ g.fn = "raise"
      BY <1>2, <3>3 DEF RaiseT
    <3>7. Reached(g)
      <4>1. Reached(f) /\ e \in EntryT
        BY <1>2 DEF FrameInv, MayAdd
      <4>2. QED
        BY <1>2, <3>2, <3>6, <4>1, ReachedAdded DEF Reached
    <3>8. hs2[event] = Added(hs[event], e)
      BY DEF MayAdd, AddsTo
    <3>9. g \in FrameT /\ g \notin DoneT /\ g \notin GoUpT /\ g \notin QuitT
      <4>1. g \in FrameT
        BY <3>5 DEF FrameT
      <4>2. QED
        BY <4>1, <3>6, FrameKinds
    <3>10. FrameInv(g, hs2, sv, up, su)
      BY <2>1, <3>1, <3>6, <3>7, <3>8, <3>9 DEF FrameInv
    <3>11. QED
      BY <1>2, <2>0, <3>6, <3>9, <3>10 DEF g
  <2>2. CASE ~(f.live /\ f.event = event)
    <3>1. g = f
      BY <2>2 DEF DispatchAdded
    <3>2. f.live => hs2[f.event] = hs[f.event]
      BY <2>0, <2>2 DEF MayAdd, AddsTo
    <3>3. FrameInv(f, hs2, sv, up, su)
      BY <2>0, <3>2 DEF FrameInv
    <3>4. QED
      BY <3>1, <3>3
  <2>3. QED
    BY <2>1, <2>2
<1>3. QED
  BY <1>1, <1>2

(* A listener is removed from the lists of some events.                    *)
Dropped(hs, events, hs2) == \A e \in Events \ events : hs2[e] = hs[e]
LEMMA FrameRemoved ==
  ASSUME NEW hs, NEW hs2, NEW sv, NEW up, NEW su, NEW events, NEW eid, Dropped(hs, events, hs2),
         NEW f \in FrameT, FrameInv(f, hs, sv, up, su)
  PROVE  LET g == DispatchRemoved(f, events, eid)
         IN /\ g \in FrameT /\ g.fn = f.fn /\ (f \notin RaiseT => g = f)
            /\ FrameInv(g, hs2, sv, up, su)
<1> DEFINE g == DispatchRemoved(f, events, eid)
<1>0. f \in RaiseT <=> f.fn = "raise"
  BY FrameKinds
<1>1. CASE f \notin RaiseT
  <2>1. g = f
    BY <1>0, <1>1 DEF DispatchRemoved
  <2>2. QED
    BY <1>1, <2>1 DEF FrameInv
<1>2. CASE f \in RaiseT
  <2>0. /\ f.event \in Events /\ f.fn = "raise"
        /\ f \notin DoneT /\ f \notin GoUpT /\ f \notin QuitT
    BY <1>2, FrameKinds DEF RaiseT
  <2>1. CASE f.event \in events
    <3>1. g = [f EXCEPT !.live = FALSE]
      BY <2>0, <2>1 DEF DispatchRemoved
    <3> HIDE DEF g
    <3>2. g \in RaiseT
      BY <1>2, <3>1 DEF RaiseT
    <3>3. /\ g.lst = f.lst /\ g.start = f.start /\ g.called = f.called /\ g.i = f.i
          /\ g.event = f.event /\ g.live = FALSE /\ g.fn = "raise"
      BY <1>2, <3>1 DEF RaiseT
    <3>4. g \in FrameT
      BY <3>2 DEF FrameT
    <3>5. g \notin DoneT /\ g \notin GoUpT /\ g \notin QuitT
      BY <3>3, <3>4, FrameKinds
    <3>6. Reached(g)
      BY <1>2, <3>3 DEF FrameInv, Reached
    <3>7. FrameInv(g, hs2, sv, up, su)
      BY <3>3, <3>5, <3>6 DEF FrameInv
    <3>8. QED
      BY <1>2, <2>0, <3>3, <3>4, <3>7 DEF g
  <2>2. CASE f.event \notin events
    <3>1. g = f
      BY <2>2 DEF DispatchRemoved
    <3>2. hs2[f.event] = hs[f.event]
      BY <2>0, <2>2 DEF Dropped
    <3>3. FrameInv(f, hs2, sv, up, su)
      BY <2>0, <3>2 DEF FrameInv
    <3>4. QED
      BY <3>1, <3>3
  <2>3. QED
    BY <2>1, <2>2
<1>3. QED
  BY <1>1, <1>2

(* Both leave the stacks whole.                                            *)
Mapped(s, t, hs2, sv, up, su) ==
  /\ DOMAIN t = DOMAIN s
  /\ \A k \in DOMAIN s : /\ t[k] \in FrameT /\ t[k].fn = s[k].fn /\ (s[k] \notin RaiseT => t[k] = s[k])
                         /\ FrameInv(t[k], hs2, sv, up, su)
LEMMA WholeMapped ==
  ASSUME NEW hs, NEW hs2, NEW sv, NEW up, NEW su, NEW s, Whole(s, hs, sv, up, su),
         NEW t, t = [k \in DOMAIN s |-> t[k]], Mapped(s, t, hs2, sv, up, su)
  PROVE  Whole(t, hs2, sv, up, su) /\ Keeps(s, t)
<1> DEFINE n == Len(s)
<1>1. s \in Seq(FrameT) /\ n \in Nat /\ DOMAIN s = 1..n /\ DOMAIN t = 1..n
  BY DEF Whole, Mapped
<1>2. \A k \in 1..n : t[k] \in FrameT /\ t[k].fn = s[k].fn /\ (s[k] \notin RaiseT => t[k] = s[k])
                      /\ FrameInv(t[k], hs2, sv, up, su)
  BY <1>1 DEF Mapped
<1> HIDE DEF n
<1>3. t \in Seq(FrameT)
  BY <1>1, <1>2
<1>4. \A k \in 1..n : (t[k] \in RaiseT <=> s[k] \in RaiseT) /\ (t[k] \in CodeT => s[k] = t[k])
                      /\ (s[k] \in TryT => t[k] = s[k])
  <2> TAKE k \in 1..n
  <2>1. s[k] \in FrameT /\ t[k] \in FrameT
    BY <1>1, <1>2
  <2>2. QED
    BY <1>2, <2>1, FrameKinds
<1>5. t # <<>> => Starts(t[1])
  <2>1. t # <<>> => 1 \in 1..n /\ s # <<>>
    BY <1>1, <1>3
  <2>2. QED
    BY <1>2, <2>1 DEF Whole, Starts
<1>6. \A k \in 1..n : IsHandler(t[k]) => k > 1 /\ t[k - 1] \in RaiseT
  <2> TAKE k \in 1..n
  <2>1. HAVE IsHandler(t[k])
  <2>2. IsHandler(s[k])
    BY <1>4, <2>1 DEF IsHandler
  <2>3. k > 1 /\ s[k - 1] \in RaiseT
    BY <1>1, <2>2 DEF Whole
  <2>4. k - 1 \in 1..n
    BY <1>1, <2>3
  <2>5. QED
    BY <1>4, <2>3, <2>4
<1>7. Keeps(s, t)
  BY <1>1, <1>4 DEF Keeps
<1>8. QED
  BY <1>1, <1>2, <1>3, <1>5, <1>6, <1>7 DEF Whole

(* addListener.                                                            *)
KeepsAll(stk, stk2) == \A th \in Threads : Keeps(stk[th], stk2[th])

Adding(hs, stk, l, top, hs2, stk2) ==
  LET e == Entry(l, Listeners[l].priority, Listeners[l].once, top)
      event == Listeners[l].event
  IN /\ hs2 = [hs EXCEPT ![event] = Added(@, e)]
     /\ stk2 = [t \in Threads |-> [k \in DOMAIN stk[t] |-> DispatchAdded(stk[t][k], event, e)]]
LEMMA Listened ==
  ASSUME NEW hs, NEW sv, NEW up, NEW su, NEW top \in Nat \ {0}, ListsOK(hs, top, sv),
         NEW stk, Sound(stk, hs, sv, up, su), NEW l \in DOMAIN Listeners, Bound(l, sv),
         NEW hs2, NEW stk2, Adding(hs, stk, l, top, hs2, stk2)
  PROVE  ListsOK(hs2, top + 1, sv) /\ Sound(stk2, hs2, sv, up, su) /\ KeepsAll(stk, stk2)
<1> DEFINE e == Entry(l, Listeners[l].priority, Listeners[l].once, top)
           event == Listeners[l].event
<1>0. /\ hs2 = [hs EXCEPT ![event] = Added(@, e)]
      /\ stk2 = [t \in Threads |-> [k \in DOMAIN stk[t] |-> DispatchAdded(stk[t][k], event, e)]]
  BY DEF Adding
<1>1. event \in Events /\ e \in EntryT /\ e.eid = top /\ e.handler = l
  BY ListenersAssumption DEF EntryT, Entry
<1> HIDE DEF e, event
<1> USE <1>0
<1>2. hs[event] \in Seq(EntryT) /\ ListOK(hs[event], top, sv)
  BY <1>1 DEF ListsOK
<1>3. \A k \in DOMAIN hs[event] : hs[event][k].eid < e.eid
  BY <1>1, <1>2 DEF ListOK
<1>4. MayAdd(hs, event, e)
  BY <1>1, <1>2, <1>3 DEF MayAdd, ListOK, ListsOK
<1>5. Inserted(hs[event], e, Added(hs[event], e))
  BY <1>1, <1>2, <1>3, AddedInserts DEF ListOK
<1> DEFINE s == Added(hs[event], e)
           n == Len(hs[event])
<1>6. s \in Seq(EntryT) /\ Sorted(s) /\ n \in Nat /\ DOMAIN s = 1..n + 1 /\ DOMAIN hs[event] = 1..n
  BY <1>2, <1>5 DEF Inserted
<1>7. ListOK(s, top + 1, sv)
  <2>1. PICK p \in 1..n + 1 : Spliced(hs[event], e, s, p)
    BY <1>5 DEF Inserted
  <2> HIDE DEF s, n
  <2>2. ASSUME NEW k \in 1..n + 1 PROVE s[k].eid \in 1..(top + 1) - 1 /\ Bound(s[k].handler, sv)
    <3>1. \A j \in 1..n : hs[event][j].eid \in 1..(top + 1) - 1 /\ Bound(hs[event][j].handler, sv)
      <4>1. \A id \in 1..top - 1 : id \in 1..(top + 1) - 1
        OBVIOUS
      <4>2. \A j \in 1..n : hs[event][j].eid \in 1..top - 1 /\ Bound(hs[event][j].handler, sv)
        BY <1>2, <1>6 DEF ListOK
      <4>3. QED
        BY <4>1, <4>2
    <3>2. e.eid \in 1..(top + 1) - 1 /\ Bound(e.handler, sv)
      BY <1>1
    <3>3. s[k] = IF k < p THEN hs[event][k] ELSE IF k = p THEN e ELSE hs[event][k - 1]
      BY <2>1 DEF Spliced, n
    <3>4. (k < p => k \in 1..n) /\ (~(k < p) /\ k # p => k - 1 \in 1..n)
      BY <1>6
    <3>5. QED
      BY <3>1, <3>2, <3>3, <3>4
  <2>3. QED
    BY <1>6, <2>2 DEF ListOK
<1>8. ListsOK(hs2, top + 1, sv)
  <2>1. hs2 \in [Events -> Seq(EntryT)]
    BY <1>6 DEF ListsOK
  <2>2. ASSUME NEW x \in Events PROVE ListOK(hs2[x], top + 1, sv)
    <3>1. CASE x = event
      BY <1>1, <1>7, <3>1 DEF ListsOK
    <3>2. CASE x # event
      <4>1. hs2[x] = hs[x] /\ ListOK(hs[x], top, sv)
        BY <3>2 DEF ListsOK
      <4>2. \A id \in 1..top - 1 : id \in 1..(top + 1) - 1
        OBVIOUS
      <4>3. QED
        BY <4>1, <4>2 DEF ListOK
    <3>3. QED
      BY <3>1, <3>2
  <2>3. QED
    BY <2>1, <2>2 DEF ListsOK
<1>9. ASSUME NEW t \in Threads
      PROVE  Whole(stk2[t], hs2, sv, up, su) /\ Keeps(stk[t], stk2[t]) /\ stk2[t] \in Seq(FrameT)
  <2>1. Whole(stk[t], hs, sv, up, su) /\ stk[t] \in Seq(FrameT)
    BY DEF Sound
  <2>2. /\ DOMAIN stk2[t] = DOMAIN stk[t] /\ stk2[t] = [k \in DOMAIN stk[t] |-> stk2[t][k]]
        /\ \A k \in DOMAIN stk[t] : stk2[t][k] = DispatchAdded(stk[t][k], event, e)
    OBVIOUS
  <2>3. \A k \in DOMAIN stk[t] : stk[t][k] \in FrameT /\ FrameInv(stk[t][k], hs, sv, up, su)
    BY <2>1 DEF Whole
  <2>4. Mapped(stk[t], stk2[t], hs2, sv, up, su)
    <3>1. ASSUME NEW k \in DOMAIN stk[t]
          PROVE  /\ stk2[t][k] \in FrameT /\ stk2[t][k].fn = stk[t][k].fn
                 /\ stk[t][k] \notin RaiseT => stk2[t][k] = stk[t][k]
                 /\ FrameInv(stk2[t][k], hs2, sv, up, su)
      <4> DEFINE f == stk[t][k]
      <4>1. f \in FrameT /\ FrameInv(f, hs, sv, up, su) /\ stk2[t][k] = DispatchAdded(f, event, e)
        BY <2>2, <2>3
      <4>0. AddsTo(hs, event, e, hs2)
        BY DEF AddsTo
      <4> HIDE DEF f
      <4>2. LET g == DispatchAdded(f, event, e)
            IN /\ g \in FrameT /\ g.fn = f.fn /\ (f \notin RaiseT => g = f)
               /\ FrameInv(g, hs2, sv, up, su)
        BY <1>4, <4>0, <4>1, FrameAdded
      <4>3. QED
        BY <4>1, <4>2 DEF f
    <3>2. QED
      BY <2>2, <3>1 DEF Mapped
  <2>5. Whole(stk2[t], hs2, sv, up, su) /\ Keeps(stk[t], stk2[t])
    BY <2>1, <2>2, <2>4, WholeMapped
  <2>6. QED
    BY <2>5 DEF Whole
<1>10. stk2 \in [Threads -> Seq(FrameT)]
  <2>1. stk2 = [t \in Threads |-> stk2[t]]
    OBVIOUS
  <2>2. QED
    BY <1>9, <2>1
<1>11. QED
  BY <1>8, <1>9, <1>10 DEF Sound, KeepsAll

(* removeListener.                                                         *)
LEMMA WithoutOK ==
  ASSUME NEW lst \in Seq(EntryT), NEW top, NEW sv, ListOK(lst, top, sv), NEW eid
  PROVE  Without(lst, eid) \in Seq(EntryT) /\ ListOK(Without(lst, eid), top, sv)
<1> DEFINE places == {k \in DOMAIN lst : lst[k].eid = eid}
<1>1. CASE places = {}
  BY <1>1 DEF Without
<1>2. CASE places # {}
  <2> DEFINE i == CHOOSE k \in places : TRUE
             t == RemoveAt(lst, i)
             n == Len(lst)
  <2>1. i \in DOMAIN lst
    BY <1>2
  <2>2. Without(lst, eid) = t
    BY <1>2 DEF Without
  <2> HIDE DEF i
  <2>3. t \in Seq(EntryT) /\ Cut(lst, i, t)
    BY <2>1, RemoveAtCuts
  <2> HIDE DEF t
  <2>4. n \in Nat \ {0} /\ i \in 1..n /\ DOMAIN lst = 1..n
    BY <2>1
  <2>5. DOMAIN t = 1..n - 1 /\ \A k \in 1..n - 1 : t[k] = IF k < i THEN lst[k] ELSE lst[k + 1]
    BY <2>3 DEF Cut
  <2> HIDE DEF n
  <2>6. \A j, k \in 1..n : j < k => Before(lst[j], lst[k])
    BY <2>4 DEF ListOK, Sorted
  <2>7. ASSUME NEW j \in 1..n - 1, NEW k \in 1..n - 1, j < k PROVE Before(t[j], t[k])
    <3>1. j \in 1..n /\ k \in 1..n /\ j + 1 \in 1..n /\ k + 1 \in 1..n /\ j < k + 1 /\ j + 1 < k + 1
      BY <2>4, <2>7
    <3>2. k < i => j < i
      BY <2>4, <2>7
    <3>3. QED
      BY <2>5, <2>6, <2>7, <3>1, <3>2
  <2>8. \A k \in 1..n - 1 : k \in 1..n /\ k + 1 \in 1..n
    BY <2>4
  <2>9. \A k \in 1..n - 1 : t[k].eid \in 1..top - 1 /\ Bound(t[k].handler, sv)
    BY <2>4, <2>5, <2>8 DEF ListOK
  <2>10. QED
    BY <2>2, <2>3, <2>5, <2>7, <2>9 DEF ListOK, Sorted
<1>3. QED
  BY <1>1, <1>2

Removing(hs, stk, events, eid, hs2, stk2) ==
  /\ hs2 = [e \in Events |-> IF e \in events THEN Without(hs[e], eid) ELSE hs[e]]
  /\ stk2 = [t \in Threads |-> [k \in DOMAIN stk[t] |-> DispatchRemoved(stk[t][k], events, eid)]]
LEMMA Unlistened ==
  ASSUME NEW hs, NEW sv, NEW up, NEW su, NEW top, ListsOK(hs, top, sv),
         NEW stk, Sound(stk, hs, sv, up, su), NEW events, NEW eid,
         NEW hs2, NEW stk2, Removing(hs, stk, events, eid, hs2, stk2)
  PROVE  ListsOK(hs2, top, sv) /\ Sound(stk2, hs2, sv, up, su) /\ KeepsAll(stk, stk2)
<1> USE DEF Removing
<1>1. \A e \in Events : hs2[e] \in Seq(EntryT) /\ ListOK(hs2[e], top, sv)
  <2> TAKE e \in Events
  <2>1. hs[e] \in Seq(EntryT) /\ ListOK(hs[e], top, sv)
    BY DEF ListsOK
  <2>2. Without(hs[e], eid) \in Seq(EntryT) /\ ListOK(Without(hs[e], eid), top, sv)
    BY <2>1, WithoutOK
  <2>3. hs2[e] = IF e \in events THEN Without(hs[e], eid) ELSE hs[e]
    OBVIOUS
  <2>4. QED
    BY <2>1, <2>2, <2>3
<1>2. ListsOK(hs2, top, sv)
  <2>1. hs2 = [e \in Events |-> hs2[e]]
    OBVIOUS
  <2>2. QED
    BY <1>1, <2>1 DEF ListsOK
<1>3. Dropped(hs, events, hs2)
  BY DEF Dropped
<1>9. ASSUME NEW t \in Threads
      PROVE  Whole(stk2[t], hs2, sv, up, su) /\ Keeps(stk[t], stk2[t]) /\ stk2[t] \in Seq(FrameT)
  <2>1. Whole(stk[t], hs, sv, up, su) /\ stk[t] \in Seq(FrameT)
    BY DEF Sound
  <2>2. /\ DOMAIN stk2[t] = DOMAIN stk[t] /\ stk2[t] = [k \in DOMAIN stk[t] |-> stk2[t][k]]
        /\ \A k \in DOMAIN stk[t] : stk2[t][k] = DispatchRemoved(stk[t][k], events, eid)
    OBVIOUS
  <2>3. \A k \in DOMAIN stk[t] : stk[t][k] \in FrameT /\ FrameInv(stk[t][k], hs, sv, up, su)
    BY <2>1 DEF Whole
  <2>4. Mapped(stk[t], stk2[t], hs2, sv, up, su)
    <3>1. ASSUME NEW k \in DOMAIN stk[t]
          PROVE  /\ stk2[t][k] \in FrameT /\ stk2[t][k].fn = stk[t][k].fn
                 /\ stk[t][k] \notin RaiseT => stk2[t][k] = stk[t][k]
                 /\ FrameInv(stk2[t][k], hs2, sv, up, su)
      <4> DEFINE f == stk[t][k]
      <4>1. f \in FrameT /\ FrameInv(f, hs, sv, up, su) /\ stk2[t][k] = DispatchRemoved(f, events, eid)
        BY <2>2, <2>3
      <4> HIDE DEF f
      <4>2. LET g == DispatchRemoved(f, events, eid)
            IN /\ g \in FrameT /\ g.fn = f.fn /\ (f \notin RaiseT => g = f)
               /\ FrameInv(g, hs2, sv, up, su)
        BY <1>3, <4>1, FrameRemoved
      <4>3. QED
        BY <4>1, <4>2 DEF f
    <3>2. QED
      BY <2>2, <3>1 DEF Mapped
  <2>5. Whole(stk2[t], hs2, sv, up, su) /\ Keeps(stk[t], stk2[t])
    BY <2>1, <2>2, <2>4, WholeMapped
  <2>6. QED
    BY <2>5 DEF Whole
<1>10. stk2 \in [Threads -> Seq(FrameT)]
  <2>1. stk2 = [t \in Threads |-> stk2[t]]
    OBVIOUS
  <2>2. QED
    BY <1>9, <2>1
<1>11. QED
  BY <1>2, <1>9, <1>10 DEF Sound, KeepsAll

-----------------------------------------------------------------------------
(* Steps that leave components and waiters alone.                          *)
LEMMA OneStack ==
  ASSUME NEW hs, NEW sv, NEW up, NEW su, NEW stk, Sound(stk, hs, sv, up, su),
         NEW th \in Threads, NEW s, Whole(s, hs, sv, up, su), Keeps(stk[th], s)
  PROVE  Sound([stk EXCEPT ![th] = s], hs, sv, up, su) /\ KeepsAll(stk, [stk EXCEPT ![th] = s])
<1> DEFINE stk2 == [stk EXCEPT ![th] = s]
<1>1. s \in Seq(FrameT) /\ stk \in [Threads -> Seq(FrameT)]
  BY DEF Whole, Sound
<1>2. stk2 \in [Threads -> Seq(FrameT)] /\ stk2[th] = s /\ \A t \in Threads : t # th => stk2[t] = stk[t]
  BY <1>1
<1> HIDE DEF stk2
<1>3. Sound(stk2, hs, sv, up, su)
  BY <1>2 DEF Sound
<1>4. KeepsAll(stk, stk2)
  BY <1>2 DEF KeepsAll, Keeps
<1>5. QED
  BY <1>3, <1>4 DEF stk2

LEMMA SoundMono ==
  ASSUME NEW hs, NEW sv, NEW up, NEW su, NEW stk, Sound(stk, hs, sv, up, su),
         NEW sv2, NEW up2, NEW su2, \A w \in DOMAIN Sinks : sv[w] = 1 => sv2[w] = 1,
         up => up2, su2 => su
  PROVE  Sound(stk, hs, sv2, up2, su2)
  BY WholeMono DEF Sound

LEMMA OrderFixed == ASSUME program' = program PROVE order_' = order_ /\ Len(order_)' = Len(order_)
  BY DEF order_, argv_

LEMMA WatchedKept ==
  ASSUME Watched, KeepsAll(stack, stack'), UNCHANGED <<components, waiters>>
  PROVE  Watched'
  BY DEF Watched, Ready, KeepsAll, Keeps, Looks

(* What a step that does not use the registry has to keep.                 *)
Fixed ==
  /\ program' = program /\ left' \subseteq left /\ UNCHANGED registry /\ UNCHANGED <<served, skipped>>
  /\ boot' \in {"launch", "up", "wait", "end", "exited"} /\ at' \in 0..Len(order_)
  /\ starting_up' \in BOOLEAN /\ running' \in BOOLEAN /\ sched' \in {"runs", "told", "quit"}
LEMMA Preserved ==
  ASSUME CInv, Fixed, log' \in Seq(Events), next_eid' \in Nat \ {0},
         ListsOK(handlers', next_eid', served),
         Sound(stack', handlers', served, HasStarted', starting_up'), KeepsAll(stack, stack'), Phases'
  PROVE  CInv'
<1>1. Types'
  <2>1. Len(order_)' = Len(order_)
    BY OrderFixed DEF Fixed
  <2>2. program' \in Programs /\ left' \subseteq program'.ops
    BY DEF CInv, Types, Fixed
  <2>3. QED
    BY <2>1, <2>2 DEF CInv, Types, Fixed, registry
<1>2. Stacks' /\ Lists'
  BY DEF Stacks, Lists, Fixed
<1>3. Waiting'
  BY DEF CInv, Waiting, Fixed, registry, Ready
<1>4. Watched'
  BY WatchedKept DEF CInv, Fixed, registry
<1>5. QED
  BY <1>1, <1>2, <1>3, <1>4 DEF CInv

(* Only the stacks change.                                                 *)
LEMMA OnlyStacks ==
  ASSUME CInv, Fixed, UNCHANGED <<log, revent, starting_up, boot, at>>,
         Sound(stack', handlers, served, HasStarted, starting_up), KeepsAll(stack, stack')
  PROVE  CInv'
<1>1. HasStarted' <=> HasStarted
  BY OrderFixed DEF HasStarted, Fixed
<1>2. Phases'
  BY <1>1 DEF Phases, CInv
<1>3. Sound(stack', handlers', served, HasStarted', starting_up')
  <2>1. handlers' = handlers /\ starting_up' = starting_up
    BY DEF revent
  <2>2. QED
    BY <1>1, <2>1, SoundMono
<1>4. ListsOK(handlers', next_eid', served) /\ next_eid' \in Nat \ {0} /\ log' \in Seq(Events)
  BY DEF CInv, Lists, Types, revent
<1>5. QED
  BY <1>2, <1>3, <1>4, Preserved

-----------------------------------------------------------------------------
(* The frame a thread is in.                                               *)
Now(s) == Whole(s, handlers, served, HasStarted, starting_up)
FrameNow(f) == FrameInv(f, handlers, served, HasStarted, starting_up)

LEMMA TopFrame ==
  ASSUME CInv, NEW th \in Threads, stack[th] # <<>>
  PROVE  /\ Now(stack[th]) /\ stack[th] \in Seq(FrameT)
         /\ Top(th) \in FrameT /\ FrameNow(Top(th)) /\ Top(th) = Last(stack[th])
         /\ Front(stack[th]) \in Seq(FrameT) /\ Now(Front(stack[th]))
         /\ Top(th) \notin TryT => Keeps(stack[th], Front(stack[th]))
         /\ ~Starts(Top(th)) => Front(stack[th]) # <<>>
         /\ IsHandler(Top(th)) => Front(stack[th]) # <<>> /\ Last(Front(stack[th])) \in RaiseT
<1> DEFINE s == stack[th]
           n == Len(s)
<1>1. Now(s) /\ s \in Seq(FrameT) /\ s # <<>>
  BY DEF CInv, Stacks, Sound, Now
<1>2. Top(th) = Last(s)
  BY DEF Top
<1> HIDE DEF s
<1>3. /\ Front(s) \in Seq(FrameT) /\ Len(Front(s)) = n - 1 /\ n \in Nat \ {0}
      /\ \A k \in 1..n - 1 : Front(s)[k] = s[k]
      /\ Last(s) = s[n] /\ Last(s) \in FrameT
  BY <1>1, FrontAndLast
<1>4. DOMAIN s = 1..n /\ n \in 1..n
  BY <1>1, <1>3
<1>5. FrameNow(Last(s))
  BY <1>1, <1>3, <1>4 DEF Now, Whole, FrameNow
<1>6. Now(Front(s)) /\ (Last(s) \notin TryT => Keeps(s, Front(s)))
  BY <1>1, WholeFront DEF Now
<1>7. ~Starts(Last(s)) => Front(s) # <<>>
  <2>1. SUFFICES ASSUME Front(s) = <<>> PROVE Starts(Last(s))
    OBVIOUS
  <2>2. n = 1
    BY <1>3, <2>1
  <2>3. QED
    BY <1>1, <1>3, <2>2 DEF Now, Whole
<1>8. IsHandler(Last(s)) => Front(s) # <<>> /\ Last(Front(s)) \in RaiseT
  <2>1. SUFFICES ASSUME IsHandler(s[n]) PROVE Front(s) # <<>> /\ Last(Front(s)) \in RaiseT
    BY <1>3
  <2>2. n > 1 /\ s[n - 1] \in RaiseT
    BY <1>1, <1>4, <2>1 DEF Now, Whole
  <2>3. n - 1 \in 1..n - 1 /\ n - 1 # 0
    BY <1>3, <2>2
  <2>4. Last(Front(s)) = Front(s)[n - 1] /\ Front(s) # <<>>
    BY <1>3, <2>3 DEF Last
  <2>5. QED
    BY <1>3, <2>2, <2>3, <2>4
<1>9. QED
  BY <1>1, <1>2, <1>3, <1>5, <1>6, <1>7, <1>8 DEF s

LEMMA PushNow ==
  ASSUME NEW s, Now(s), NEW f \in FrameT, FrameNow(f), s = <<>> => Starts(f),
         IsHandler(f) => s # <<>> /\ Last(s) \in RaiseT
  PROVE  Now(Append(s, f)) /\ Keeps(s, Append(s, f))
  BY WholePush DEF Now, FrameNow

LEMMA TopNow ==
  ASSUME NEW s, Now(s), s # <<>>, NEW f \in FrameT, f.fn = Last(s).fn, ~IsHandler(f), FrameNow(f)
  PROVE  Now(Append(Front(s), f)) /\ (f \notin TryT => Keeps(s, Append(Front(s), f)))
  BY WholeTop DEF Now, FrameNow

LEMMA CodeOK ==
  ASSUME NEW kind \in {"handler", "callback", "launch", "task"}
  PROVE  /\ CodeFrame(kind) \in FrameT /\ CodeFrame(kind) \in CodeT /\ FrameNow(CodeFrame(kind))
         /\ Starts(CodeFrame(kind)) /\ (kind # "handler" => ~IsHandler(CodeFrame(kind)))
         /\ CodeFrame(kind) \notin TryT
<1>1. CodeFrame(kind) \in CodeT /\ CodeFrame(kind).fn = "code" /\ CodeFrame(kind).kind = kind
  BY DEF CodeFrame, CodeT
<1>2. CodeFrame(kind) \in FrameT
  BY <1>1 DEF FrameT
<1>3. /\ CodeFrame(kind) \notin RaiseT /\ CodeFrame(kind) \notin DoneT /\ CodeFrame(kind) \notin GoUpT
      /\ CodeFrame(kind) \notin QuitT /\ CodeFrame(kind) \notin TryT
  BY <1>1, <1>2, FrameKinds
<1>4. FrameNow(CodeFrame(kind))
  BY <1>3 DEF FrameNow, FrameInv
<1>5. QED
  BY <1>1, <1>2, <1>3, <1>4 DEF Starts, IsHandler

(* goUp and _quit.                                                         *)
LEMMA PlainFrame ==
  ASSUME NEW f, \/ f = Frame("goUp", f.pc) /\ f.pc \in {"start", "goingup", "up", "notify"}
                \/ f = Frame("_quit", f.pc) /\ f.pc \in {"check", "stop", "defer", "wait", "notify"}
  PROVE  /\ f \in FrameT /\ Starts(f) /\ ~IsHandler(f) /\ f \notin TryT
         /\ f.fn = "goUp" => f \in GoUpT /\ (HasStarted => FrameNow(f))
         /\ f.fn = "_quit" => f \in QuitT /\ (f.pc = "check" \/ ~starting_up => FrameNow(f))
<1>1. CASE f = Frame("goUp", f.pc) /\ f.pc \in {"start", "goingup", "up", "notify"}
  <2>1. f \in GoUpT /\ f.fn = "goUp"
    BY <1>1 DEF Frame, GoUpT
  <2>2. f \in FrameT
    BY <2>1 DEF FrameT
  <2>3. f \notin RaiseT /\ f \notin DoneT /\ f \notin QuitT /\ f \notin CodeT /\ f \notin TryT
    BY <2>1, <2>2, FrameKinds
  <2>4. QED
    BY <2>1, <2>2, <2>3 DEF FrameNow, FrameInv, Starts, IsHandler
<1>2. CASE f = Frame("_quit", f.pc) /\ f.pc \in {"check", "stop", "defer", "wait", "notify"}
  <2>1. f \in QuitT /\ f.fn = "_quit"
    BY <1>2 DEF Frame, QuitT
  <2>2. f \in FrameT
    BY <2>1 DEF FrameT
  <2>3. f \notin RaiseT /\ f \notin DoneT /\ f \notin GoUpT /\ f \notin CodeT /\ f \notin TryT
    BY <2>1, <2>2, FrameKinds
  <2>4. QED
    BY <2>1, <2>2, <2>3 DEF FrameNow, FrameInv, Starts, IsHandler
<1>3. QED
  BY <1>1, <1>2

(* raiseEvent begins.                                                      *)
LEMMA RaisedNow ==
  ASSUME CInv, NEW s, Now(s), s # <<>>, NEW event \in Events, NEW safe \in BOOLEAN
  PROVE  Now(Raised(s, event, safe)) /\ Keeps(s, Raised(s, event, safe))
<1>1. CASE handlers[event] = <<>>
  BY <1>1 DEF Raised, Keeps
<1>2. CASE handlers[event] # <<>>
  <2> DEFINE lst == handlers[event]
             d == Dispatch(event, lst, safe)
  <2>1. lst \in Seq(EntryT) /\ lst # <<>> /\ Head(lst) \in EntryT
    BY <1>2 DEF CInv, Lists, ListsOK
  <2>2. \A k \in DOMAIN lst : lst[k] \in EntryT /\ lst[k].eid \in Nat
    <3>1. ASSUME NEW x \in EntryT PROVE x.eid \in Nat
      BY DEF EntryT
    <3>2. QED
      BY <2>1, <3>1
  <2> HIDE DEF lst
  <2>3. {e.eid : e \in Range(lst)} \subseteq Nat
    BY <2>2 DEF Range
  <2>4. d \in RaiseT
    BY <2>1, <2>3 DEF Dispatch, RaiseT
  <2>5. /\ d.fn = "raise" /\ d.start = {e.eid : e \in Range(lst)} /\ d.i = 1 /\ d.lst = lst
        /\ d.event = event
    BY DEF Dispatch
  <2>6. Reached(d)
    <3>1. ASSUME NEW id \in d.start PROVE \E k \in 1..Len(lst) : lst[k].eid = id
      BY <2>1, <2>5 DEF Range
    <3>2. QED
      BY <2>5, <3>1 DEF Reached
  <2> HIDE DEF d
  <2>7. d \in FrameT
    BY <2>4 DEF FrameT
  <2>8. d \notin DoneT /\ d \notin GoUpT /\ d \notin QuitT /\ d \notin CodeT
    BY <2>5, <2>7, FrameKinds
  <2>9. FrameNow(d) /\ ~IsHandler(d)
    BY <2>5, <2>6, <2>8 DEF FrameNow, FrameInv, lst, IsHandler
  <2>10. Now(Append(s, d)) /\ Keeps(s, Append(s, d))
    BY <2>7, <2>9, PushNow
  <2>11. QED
    BY <1>2, <2>10 DEF Raised, d, lst
<1>3. QED
  BY <1>1, <1>2

LEMMA OneNow ==
  ASSUME CInv, Fixed, UNCHANGED <<log, revent, starting_up, boot, at>>,
         NEW th \in Threads, NEW s, Now(s), Keeps(stack[th], s), SetStack(th, s)
  PROVE  CInv'
<1>1. /\ Sound([stack EXCEPT ![th] = s], handlers, served, HasStarted, starting_up)
      /\ KeepsAll(stack, [stack EXCEPT ![th] = s])
  BY OneStack DEF CInv, Stacks, Now
<1>2. stack' = [stack EXCEPT ![th] = s]
  BY DEF SetStack
<1>3. QED
  BY <1>1, <1>2, OnlyStacks

(* What Fixed asks of a step that leaves the main variables alone.         *)
LEMMA FixedMost ==
  ASSUME CInv, UNCHANGED <<program, boot, at, registry, starting_up, served, skipped>>,
         left' \subseteq left, running' \in BOOLEAN, sched' \in {"runs", "told", "quit"}
  PROVE  Fixed
  BY DEF CInv, Types, Fixed

(* A step that changes nothing but the stacks.                             *)
LEMMA QuietFixed ==
  ASSUME CInv, UNCHANGED <<program, left, boot, at, registry, revent, state, history>>
  PROVE  Fixed /\ UNCHANGED <<log, revent, starting_up, boot, at>>
<1>1. /\ UNCHANGED <<program, boot, at, registry, starting_up, served, skipped>> /\ left' = left
      /\ running' = running /\ sched' = sched /\ UNCHANGED <<log, revent>>
  BY DEF state, history
<1>2. running \in BOOLEAN /\ sched \in {"runs", "told", "quit"}
  BY DEF CInv, Types
<1>3. QED
  BY <1>1, <1>2, FixedMost

-----------------------------------------------------------------------------
(* raiseEvent.                                                             *)
LEMMA InvokeKeeps ==
  ASSUME CInv, NEW th \in Threads, Invoke(th)
  PROVE  CInv'
<1> DEFINE d == Top(th)
           g == Invoked(d)
           s == stack[th]
<1>1. stack[th] # <<>> /\ d.fn = "raise" /\ ~Over(d)
  BY DEF Invoke, Running, Busy
<1>2. /\ Now(s) /\ s \in Seq(FrameT) /\ d \in FrameT /\ FrameNow(d) /\ d = Last(s)
      /\ Front(s) \in Seq(FrameT)
  BY <1>1, TopFrame
<1>3. d \in RaiseT
  BY <1>1, <1>2, FrameKinds
<1> HIDE DEF d, s
<1>4. /\ d.lst \in Seq(EntryT) /\ d.i \in Nat \ {0} /\ d.called \in SUBSET Nat /\ d.start \in SUBSET Nat
      /\ d.i <= Len(d.lst)
  BY <1>1, <1>3 DEF RaiseT, Over
<1>5. d.i \in DOMAIN d.lst /\ d.lst[d.i] \in EntryT /\ d.lst[d.i].eid \in Nat
  <2>1. d.i \in DOMAIN d.lst /\ d.lst[d.i] \in EntryT
    BY <1>4
  <2>2. QED
    BY <2>1 DEF EntryT
<1>6. g = [d EXCEPT !.i = d.i + 1, !.cur = d.lst[d.i], !.called = d.called \cup {d.lst[d.i].eid}]
  BY DEF Invoked
<1> HIDE DEF g
<1>7. d.i + 1 \in Nat \ {0} /\ d.called \cup {d.lst[d.i].eid} \in SUBSET Nat
  BY <1>4, <1>5
<1>8. g \in RaiseT
  BY <1>3, <1>5, <1>6, <1>7 DEF RaiseT
<1>9. /\ g.fn = "raise" /\ g.i = d.i + 1 /\ g.called = d.called \cup {d.lst[d.i].eid} /\ g.start = d.start
      /\ g.lst = d.lst /\ g.live = d.live /\ g.event = d.event
  BY <1>3, <1>6 DEF RaiseT
<1>10. Reached(g)
  <2>1. ASSUME NEW id \in g.start, id \notin g.called PROVE \E k \in g.i..Len(g.lst) : g.lst[k].eid = id
    <3>1. Reached(d)
      BY <1>2, <1>3 DEF FrameNow, FrameInv
    <3>2. PICK k \in d.i..Len(d.lst) : d.lst[k].eid = id
      BY <1>9, <2>1, <3>1 DEF Reached
    <3>3. k # d.i
      BY <1>9, <2>1, <3>2
    <3>4. k \in g.i..Len(g.lst)
      BY <1>4, <1>9, <3>3
    <3>5. QED
      BY <1>9, <3>2, <3>4
  <2>2. QED
    BY <2>1 DEF Reached
<1>11. g \in FrameT
  BY <1>8 DEF FrameT
<1>12. g \notin DoneT /\ g \notin GoUpT /\ g \notin QuitT /\ g \notin CodeT /\ g \notin TryT
  BY <1>9, <1>11, FrameKinds
<1>13. FrameNow(g) /\ ~IsHandler(g)
  BY <1>2, <1>3, <1>9, <1>10, <1>12 DEF FrameNow, FrameInv, IsHandler
<1> DEFINE s1 == Append(Front(s), g)
           s2 == Append(s1, CodeFrame("handler"))
<1>14. Now(s1) /\ Keeps(s, s1)
  <2>1. g.fn = Last(s).fn /\ s # <<>>
    BY <1>1, <1>2, <1>9 DEF s
  <2>2. QED
    BY <1>2, <1>11, <1>12, <1>13, <2>1, TopNow
<1>15. s1 # <<>> /\ Last(s1) = g /\ s1 \in Seq(FrameT)
  BY <1>2, <1>11 DEF Last
<1> HIDE DEF s1
<1>16. Now(s2) /\ Keeps(s1, s2)
  BY <1>8, <1>14, <1>15, CodeOK, PushNow
<1>17. s2 = s1 \o <<CodeFrame("handler")>>
  BY <1>15, CodeOK, AppendIsConcat
<1>18. Keeps(s, s2)
  BY <1>14, <1>16, KeepsOn
<1>19. SetStack(th, s2)
  <2>1. SetStack(th, Append(Front(stack[th]), Invoked(Top(th))) \o <<CodeFrame("handler")>>)
    BY DEF Invoke
  <2>2. QED
    BY <2>1, <1>17 DEF s1, s, g, d
<1> HIDE DEF s2
<1>20. Fixed /\ UNCHANGED <<log, revent, starting_up, boot, at>>
  BY QuietFixed DEF Invoke
<1>21. QED
  BY <1>16, <1>18, <1>19, <1>20, OneNow DEF s

LEMMA DeliveredKeeps ==
  ASSUME CInv, NEW th \in Threads, Delivered(th)
  PROVE  CInv'
<1> DEFINE d == Top(th)
           s == stack[th]
<1>1. s # <<>> /\ d.fn = "raise" /\ Over(d)
  BY DEF Delivered, Running, Busy
<1>2. Now(Front(s)) /\ d \in FrameT /\ FrameNow(d) /\ (d \notin TryT => Keeps(s, Front(s)))
  BY <1>1, TopFrame
<1>3. d \in RaiseT /\ d \notin TryT
  BY <1>1, <1>2, FrameKinds
<1> HIDE DEF d
<1>4. d.start \subseteq d.called
  <2>1. Reached(d)
    BY <1>2, <1>3 DEF FrameNow, FrameInv
  <2>2. d.lst \in Seq(EntryT) /\ d.i \in Nat /\ d.i > Len(d.lst)
    BY <1>1, <1>3 DEF RaiseT, Over
  <2>3. \A k \in d.i..Len(d.lst) : FALSE
    BY <2>2
  <2>4. QED
    BY <2>1, <2>3 DEF Reached
<1>5. skipped' = skipped
  <2>1. skipped' = (skipped \/ ~(d.start \subseteq d.called)) /\ skipped = FALSE
    BY DEF Delivered, d, CInv, Types
  <2>2. QED
    BY <1>4, <2>1
<1>6. UNCHANGED <<program, left, boot, at, registry, revent, state, history>>
  BY <1>5 DEF Delivered, history
<1>7. Fixed /\ UNCHANGED <<log, revent, starting_up, boot, at>>
  BY <1>6, QuietFixed
<1>8. SetStack(th, Front(s))
  BY DEF Delivered
<1>9. QED
  BY <1>2, <1>3, <1>7, <1>8, OneNow

(* Steps after which a listener is gone or there is a new one.             *)
LEMMA AfterUnlisten ==
  ASSUME CInv, Fixed, UNCHANGED <<log, next_eid, starting_up, boot, at>>,
         NEW stk, Sound(stk, handlers, served, HasStarted, starting_up), KeepsAll(stack, stk),
         NEW events, NEW eid, Unlisten(stk, events, eid)
  PROVE  CInv'
<1>1. HasStarted' <=> HasStarted
  BY OrderFixed DEF HasStarted, Fixed
<1>2. Phases'
  BY <1>1 DEF Phases, CInv
<1>3. /\ ListsOK(handlers', next_eid, served)
      /\ Sound(stack', handlers', served, HasStarted, starting_up) /\ KeepsAll(stk, stack')
  <2>1. Removing(handlers, stk, events, eid, handlers', stack')
    BY DEF Removing, Unlisten
  <2>2. QED
    BY <2>1, Unlistened DEF CInv, Lists
<1>4. KeepsAll(stack, stack')
  BY <1>3, KeepsOn DEF KeepsAll
<1>5. Sound(stack', handlers', served, HasStarted', starting_up')
  BY <1>1, <1>3, SoundMono
<1>6. next_eid' \in Nat \ {0} /\ log' \in Seq(Events) /\ ListsOK(handlers', next_eid', served)
  BY <1>3 DEF CInv, Types
<1>7. QED
  BY <1>2, <1>4, <1>5, <1>6, Preserved

LEMMA AfterListen ==
  ASSUME CInv, Fixed, UNCHANGED <<log, starting_up, boot, at>>,
         NEW stk, Sound(stk, handlers, served, HasStarted, starting_up), KeepsAll(stack, stk),
         NEW l \in DOMAIN Listeners, Bound(l, served), Listen(stk, l)
  PROVE  CInv'
<1>1. HasStarted' <=> HasStarted
  BY OrderFixed DEF HasStarted, Fixed
<1>2. Phases'
  BY <1>1 DEF Phases, CInv
<1>0. next_eid \in Nat \ {0}
  BY DEF CInv, Types
<1>3. /\ ListsOK(handlers', next_eid + 1, served)
      /\ Sound(stack', handlers', served, HasStarted, starting_up) /\ KeepsAll(stk, stack')
  <2>1. Adding(handlers, stk, l, next_eid, handlers', stack')
    BY DEF Adding, Listen
  <2>2. QED
    BY <1>0, <2>1, Listened DEF CInv, Lists
<1>4. KeepsAll(stack, stack')
  BY <1>3, KeepsOn DEF KeepsAll
<1>5. Sound(stack', handlers', served, HasStarted', starting_up')
  BY <1>1, <1>3, SoundMono
<1>6. next_eid' \in Nat \ {0} /\ log' \in Seq(Events) /\ ListsOK(handlers', next_eid', served)
  BY <1>0, <1>3 DEF CInv, Types, Listen, _generateEventID
<1>7. QED
  BY <1>2, <1>4, <1>5, <1>6, Preserved

LEMMA SoundNow ==
  ASSUME CInv, NEW th \in Threads, NEW s, Now(s), Keeps(stack[th], s)
  PROVE  /\ Sound([stack EXCEPT ![th] = s], handlers, served, HasStarted, starting_up)
         /\ KeepsAll(stack, [stack EXCEPT ![th] = s])
  BY OneStack DEF CInv, Stacks, Now

LEMMA HandlerReturnsKeeps ==
  ASSUME CInv, NEW th \in Threads, NEW r \in program.returns, HandlerReturns(th, r)
  PROVE  CInv'
<1> DEFINE s == Front(stack[th])
           d == Last(s)
           g == [d EXCEPT !.halt = @ \/ r.halt]
           s2 == IF Halts(d, r) THEN Front(s) ELSE Append(Front(s), g)
           stk == [stack EXCEPT ![th] = s2]
<1>1. stack[th] # <<>> /\ Top(th).fn = "code" /\ Top(th).kind = "handler"
  BY DEF HandlerReturns, Running, Busy
<1>2. /\ Now(s) /\ s \in Seq(FrameT) /\ Top(th) \in FrameT
      /\ (Top(th) \notin TryT => Keeps(stack[th], s))
      /\ (IsHandler(Top(th)) => s # <<>> /\ d \in RaiseT)
  BY <1>1, TopFrame
<1>3. s # <<>> /\ d \in RaiseT /\ Keeps(stack[th], s)
  BY <1>1, <1>2, FrameKinds DEF IsHandler
<1>4. r.halt \in BOOLEAN
  BY ReturnsAssumption DEF CInv, Types, Returns
<1> HIDE DEF s
<1>5. d \in FrameT /\ d = s[Len(s)] /\ Len(s) \in 1..Len(s)
  BY <1>2, <1>3, FrontAndLast
<1>6. FrameNow(d)
  BY <1>2, <1>5 DEF Now, Whole, FrameNow
<1>7. d.fn = "raise" /\ d \notin TryT
  BY <1>3, <1>5, FrameKinds
<1>8. Now(Front(s)) /\ Keeps(s, Front(s))
  BY <1>2, <1>3, <1>7, WholeFront DEF Now
<1>9. Now(Append(Front(s), g)) /\ Keeps(s, Append(Front(s), g))
  <2> HIDE DEF d
  <2>1. d.halt \in BOOLEAN
    BY <1>3 DEF RaiseT
  <2>2. g \in RaiseT
    BY <1>3, <1>4, <2>1 DEF RaiseT
  <2>3. /\ g.fn = "raise" /\ g.i = d.i /\ g.called = d.called /\ g.start = d.start
        /\ g.lst = d.lst /\ g.live = d.live /\ g.event = d.event
    BY <1>3 DEF RaiseT
  <2> HIDE DEF g
  <2>4. g \in FrameT
    BY <2>2 DEF FrameT
  <2>5. g \notin DoneT /\ g \notin GoUpT /\ g \notin QuitT /\ g \notin CodeT /\ g \notin TryT
    BY <2>3, <2>4, FrameKinds
  <2>6. FrameNow(g) /\ ~IsHandler(g)
    BY <1>3, <1>6, <2>3, <2>5 DEF FrameNow, FrameInv, Reached, IsHandler
  <2>7. QED
    BY <1>2, <1>3, <1>7, <2>3, <2>4, <2>5, <2>6, TopNow DEF d
<1> HIDE DEF d, g
<1>10. Now(s2) /\ Keeps(stack[th], s2)
  BY <1>3, <1>8, <1>9, KeepsOn
<1> HIDE DEF s2
<1>11. Sound(stk, handlers, served, HasStarted, starting_up) /\ KeepsAll(stack, stk)
  BY <1>10, SoundNow
<1>12. /\ IF Removes(d, r) THEN Unlisten(stk, Events, d.cur.eid) ELSE stack' = stk /\ UNCHANGED handlers
       /\ UNCHANGED <<program, left, boot, at, registry, next_eid, state, history>>
  BY DEF HandlerReturns, s, d, g, s2
<1>13. Fixed /\ UNCHANGED <<log, next_eid, starting_up, boot, at>>
  <2>1. running \in BOOLEAN /\ sched \in {"runs", "told", "quit"}
    BY DEF CInv, Types
  <2>2. QED
    BY <1>12, <2>1, FixedMost DEF state, history
<1> HIDE DEF stk
<1>14. CASE Removes(d, r)
  BY <1>11, <1>12, <1>13, <1>14, AfterUnlisten
<1>15. CASE ~Removes(d, r)
  <2>1. stack' = stk /\ UNCHANGED revent
    BY <1>12, <1>15 DEF revent
  <2>2. QED
    BY <1>11, <1>13, <2>1, OnlyStacks
<1>16. QED
  BY <1>14, <1>15

-----------------------------------------------------------------------------
(* The calls of the applications that have to do with listeners.           *)
LEMMA CallFixed ==
  ASSUME CInv, NEW th, NEW o, MayCall(th, o), UNCHANGED <<program, boot, at, registry, state, history>>
  PROVE  /\ Fixed /\ UNCHANGED <<log, starting_up, boot, at>>
         /\ program \in Programs /\ o \in program.ops /\ o \in left /\ stack[th] # <<>> /\ Top(th).fn = "code"
<1>1. running \in BOOLEAN /\ sched \in {"runs", "told", "quit"} /\ program \in Programs /\ left \subseteq program.ops
  BY DEF CInv, Types
<1>2. left' \subseteq left /\ o \in left /\ stack[th] # <<>> /\ Top(th).fn = "code"
  BY DEF MayCall, Running, Busy
<1>3. Fixed
  BY <1>1, <1>2, FixedMost DEF state, history
<1>4. QED
  BY <1>1, <1>2, <1>3 DEF state, history

LEMMA SoundHere ==
  ASSUME CInv
  PROVE  Sound(stack, handlers, served, HasStarted, starting_up) /\ KeepsAll(stack, stack)
  BY DEF CInv, Stacks, KeepsAll, Keeps

LEMMA addListenerKeeps ==
  ASSUME CInv, NEW th \in Threads, NEW o, addListener(th, o)
  PROVE  CInv'
<1>1. /\ Fixed /\ UNCHANGED <<log, starting_up, boot, at>> /\ program \in Programs /\ o \in program.ops
      /\ o.op = "addListener" /\ Listen(stack, o.arg)
  BY CallFixed DEF addListener
<1>2. o.arg \in DOMAIN Listeners /\ \A w \in DOMAIN Sinks : o.arg \notin Range(Sinks[w])
  BY <1>1, OpsAssumption
<1>3. Bound(o.arg, served)
  BY <1>2 DEF Bound
<1>4. QED
  BY <1>1, <1>2, <1>3, SoundHere, AfterListen

LEMMA removeListenerKeeps ==
  ASSUME CInv, NEW th \in Threads, NEW o, removeListener(th, o)
  PROVE  CInv'
<1>1. MayCall(th, o) /\ UNCHANGED <<program, boot, at, registry, next_eid, state, history>>
  BY DEF removeListener
<1>2. Fixed /\ UNCHANGED <<log, next_eid, starting_up, boot, at>>
  BY <1>1, CallFixed
<1>3. PICK events, eid : Unlisten(stack, events, eid)
  BY DEF removeListener
<1>4. QED
  BY <1>2, <1>3, SoundHere, AfterUnlisten

LEMMA BindKeeps ==
  ASSUME CInv, NEW th \in Threads, Bind(th)
  PROVE  CInv'
<1> DEFINE s == stack[th]
           d == Top(th)
<1>1. s # <<>> /\ d.fn = "done"
  BY DEF Bind, Running, Busy
<1>2. /\ Now(s) /\ d \in FrameT /\ FrameNow(d) /\ d = Last(s) /\ Now(Front(s))
      /\ (d \notin TryT => Keeps(s, Front(s)))
      /\ (~Starts(d) => Front(s) # <<>>)
  BY <1>1, TopFrame
<1>3. d \in DoneT /\ d \notin TryT /\ Front(s) # <<>> /\ Keeps(s, Front(s))
  BY <1>1, <1>2, FrameKinds DEF Starts
<1>4. d.todo \in Seq(DOMAIN Listeners) /\ \A n \in DOMAIN d.todo : Bound(d.todo[n], served)
  BY <1>2, <1>3 DEF DoneT, FrameNow, FrameInv
<1>5. UNCHANGED <<program, left, boot, at, registry, state, history>>
  BY DEF Bind
<1>6. Fixed /\ UNCHANGED <<log, starting_up, boot, at>>
  <2>1. running \in BOOLEAN /\ sched \in {"runs", "told", "quit"}
    BY DEF CInv, Types
  <2>2. QED
    BY <1>5, <2>1, FixedMost DEF state, history
<1>7. CASE d.todo = <<>>
  <2>1. SetStack(th, Append(Front(s), CodeFrame("callback"))) /\ UNCHANGED revent
    BY <1>7 DEF Bind
  <2>2. Now(Append(Front(s), CodeFrame("callback"))) /\ Keeps(Front(s), Append(Front(s), CodeFrame("callback")))
    BY <1>2, CodeOK, PushNow
  <2>3. Keeps(s, Append(Front(s), CodeFrame("callback")))
    BY <1>3, <2>2, KeepsOn
  <2>4. QED
    BY <1>6, <2>1, <2>2, <2>3, OneNow
<1>8. CASE d.todo # <<>>
  <2> DEFINE g == [d EXCEPT !.todo = Tail(@)]
             s2 == Append(Front(s), g)
             l == Head(d.todo)
  <2>1. Listen([stack EXCEPT ![th] = Append(Front(@), [Top(th) EXCEPT !.todo = Tail(@)])], Head(Top(th).todo))
    BY <1>8 DEF Bind
  <2>2. Listen([stack EXCEPT ![th] = s2], l)
    BY <2>1
  <2> HIDE DEF d
  <2>3. l \in DOMAIN Listeners /\ Bound(l, served)
    BY <1>4, <1>8
  <2>4. Tail(d.todo) \in Seq(DOMAIN Listeners) /\ \A n \in DOMAIN Tail(d.todo) : Bound(Tail(d.todo)[n], served)
    BY <1>4, <1>8, TailFacts
  <2>5. g \in DoneT /\ g.fn = "done" /\ g.todo = Tail(d.todo)
    BY <1>3, <2>4 DEF DoneT
  <2> HIDE DEF g
  <2>6. g \in FrameT
    BY <2>5 DEF FrameT
  <2>7. g \notin RaiseT /\ g \notin GoUpT /\ g \notin QuitT /\ g \notin CodeT /\ g \notin TryT
    BY <2>5, <2>6, FrameKinds
  <2>8. FrameNow(g) /\ ~IsHandler(g)
    BY <2>4, <2>5, <2>7 DEF FrameNow, FrameInv, IsHandler
  <2>9. Now(s2) /\ Keeps(s, s2)
    BY <1>1, <1>2, <2>5, <2>6, <2>7, <2>8, TopNow
  <2> HIDE DEF s2, l
  <2>10. /\ Sound([stack EXCEPT ![th] = s2], handlers, served, HasStarted, starting_up)
         /\ KeepsAll(stack, [stack EXCEPT ![th] = s2])
    BY <2>9, SoundNow
  <2>11. QED
    BY <1>6, <2>2, <2>3, <2>10, AfterListen
<1>9. QED
  BY <1>7, <1>8

-----------------------------------------------------------------------------
(* Starting and stopping.                                                  *)
Silent(lg) == \A n \in DOMAIN lg : lg[n] # "GoingDown"

(* A step of one thread that may also tell of an event, or move boot on.   *)
LEMMA StepOn ==
  ASSUME CInv, Fixed, UNCHANGED <<revent, starting_up>>, HasStarted => HasStarted',
         log' \in Seq(Events), starting_up => Silent(log'),
         NEW th \in Threads, NEW s, Now(s), Keeps(stack[th], s), SetStack(th, s)
  PROVE  CInv'
<1>1. /\ Sound([stack EXCEPT ![th] = s], handlers, served, HasStarted, starting_up)
      /\ KeepsAll(stack, [stack EXCEPT ![th] = s])
  BY SoundNow
<1>2. stack' = [stack EXCEPT ![th] = s]
  BY DEF SetStack
<1>3. Sound(stack', handlers', served, HasStarted', starting_up') /\ KeepsAll(stack, stack')
  <2>1. handlers' = handlers /\ starting_up' = starting_up
    BY DEF revent
  <2>2. QED
    BY <1>1, <1>2, <2>1, SoundMono
<1>4. Phases'
  BY DEF Phases, CInv, Silent
<1>5. ListsOK(handlers', next_eid', served) /\ next_eid' \in Nat \ {0}
  BY DEF CInv, Lists, Types, revent
<1>6. QED
  BY <1>3, <1>4, <1>5, Preserved

LEMMA Told ==
  ASSUME CInv, NEW event \in Events, log' = Append(log, event) \/ log' = log,
         event # "GoingDown" \/ ~starting_up
  PROVE  log' \in Seq(Events) /\ (starting_up => Silent(log'))
<1>1. log \in Seq(Events) /\ (starting_up => Silent(log))
  BY DEF CInv, Types, Phases, Silent
<1>2. CASE log' = log
  BY <1>1, <1>2
<1>3. CASE log' = Append(log, event)
  <2>1. /\ Append(log, event) \in Seq(Events) /\ DOMAIN Append(log, event) = 1..Len(log) + 1
        /\ Append(log, event)[Len(log) + 1] = event
        /\ \A n \in 1..Len(log) : n \in DOMAIN log /\ Append(log, event)[n] = log[n]
        /\ \A n \in 1..Len(log) + 1 : n \in 1..Len(log) \/ n = Len(log) + 1
    BY <1>1
  <2>2. starting_up => Silent(Append(log, event))
    BY <1>1, <2>1 DEF Silent
  <2>3. QED
    BY <1>3, <2>1, <2>2
<1>4. QED
  BY <1>2, <1>3

LEMMA StartedStays ==
  ASSUME UNCHANGED <<program, at>>, boot' = boot \/ boot' # "launch"
  PROVE  HasStarted => HasStarted'
  BY OrderFixed DEF HasStarted

(* goUp or _quit goes on to its next place.                                *)
LEMMA GotoNow ==
  ASSUME CInv, NEW th \in Threads, stack[th] # <<>>, NEW pc,
         \/ Top(th).fn = "goUp" /\ pc \in {"start", "goingup", "up", "notify"}
         \/ Top(th).fn = "_quit" /\ pc \in {"check", "stop", "defer", "wait", "notify"} /\ ~starting_up
  PROVE  Now(Goto(th, pc)) /\ Keeps(stack[th], Goto(th, pc)) /\ Goto(th, pc) # <<>>
<1> DEFINE s == stack[th]
           d == Top(th)
           f == [d EXCEPT !.pc = pc]
<1>1. Now(s) /\ d \in FrameT /\ FrameNow(d) /\ d = Last(s) /\ Front(s) \in Seq(FrameT) /\ s # <<>>
  BY TopFrame
<1>2. Goto(th, pc) = Append(Front(s), f)
  BY DEF Goto
<1> HIDE DEF d
<1>3. (d.fn = "goUp" => d \in GoUpT) /\ (d.fn = "_quit" => d \in QuitT)
  BY <1>1, FrameKinds
<1>4. f = Frame(d.fn, pc) /\ f.pc = pc /\ f.fn = d.fn
  BY <1>3 DEF Frame, GoUpT, QuitT, d
<1>5. d.fn = "goUp" => HasStarted
  BY <1>1, <1>3 DEF FrameNow, FrameInv
<1> HIDE DEF f
<1>6. f \in FrameT /\ ~IsHandler(f) /\ f \notin TryT /\ FrameNow(f)
  BY <1>4, <1>5, PlainFrame DEF d
<1>7. Now(Append(Front(s), f)) /\ Keeps(s, Append(Front(s), f))
  BY <1>1, <1>4, <1>6, TopNow
<1>8. QED
  BY <1>1, <1>2, <1>6, <1>7

LEMMA AtFacts ==
  ASSUME CInv, NEW th \in Threads, NEW fn, NEW pc, At(th, fn, pc)
  PROVE  /\ stack[th] # <<>> /\ Top(th).fn = fn /\ Top(th).pc = pc /\ Alive
         /\ fn = "_quit" /\ pc # "check" => ~starting_up
         /\ fn = "goUp" => HasStarted
         /\ fn # "_try_waiters" => Now(Front(stack[th])) /\ Keeps(stack[th], Front(stack[th]))
<1>1. stack[th] # <<>> /\ Top(th).fn = fn /\ Top(th).pc = pc /\ Alive
  BY DEF At, Running, Busy
<1>2. /\ Top(th) \in FrameT /\ FrameNow(Top(th)) /\ Now(Front(stack[th]))
      /\ (Top(th) \notin TryT => Keeps(stack[th], Front(stack[th])))
  BY <1>1, TopFrame
<1>3. QED
  BY <1>1, <1>2, FrameKinds DEF FrameNow, FrameInv

LEMMA QuitKeeps ==
  ASSUME CInv, NEW th \in Threads, Quit(th)
  PROVE  CInv'
<1>0. running \in BOOLEAN /\ sched \in {"runs", "told", "quit"}
  BY DEF CInv, Types
<1>1. CASE QuitReturns(th)
  <2>1. Now(Front(stack[th])) /\ Keeps(stack[th], Front(stack[th])) /\ SetStack(th, Front(stack[th]))
    BY <1>1, AtFacts DEF QuitReturns
  <2>2. Fixed /\ UNCHANGED <<log, revent, starting_up, boot, at>>
    BY <1>1, QuietFixed DEF QuitReturns
  <2>3. QED
    BY <2>1, <2>2, OneNow
<1>2. CASE QuitGoes(th)
  <2>1. stack[th] # <<>> /\ Top(th).fn = "_quit" /\ ~starting_up /\ SetStack(th, Goto(th, "stop"))
    BY <1>2, AtFacts DEF QuitGoes, MayStop
  <2>2. Now(Goto(th, "stop")) /\ Keeps(stack[th], Goto(th, "stop"))
    BY <2>1, GotoNow
  <2>3. Fixed /\ UNCHANGED <<log, revent, starting_up, boot, at>>
    BY <1>2, QuietFixed DEF QuitGoes
  <2>4. QED
    BY <2>1, <2>2, <2>3, OneNow
<1>3. CASE QuitStops(th)
  <2> DEFINE s == Goto(th, "defer")
             s2 == Raised(s, "GoingDown", FALSE)
  <2>1. stack[th] # <<>> /\ Top(th).fn = "_quit" /\ ~starting_up /\ SetStack(th, s2)
    <3>1. At(th, "_quit", "stop") /\ SetStack(th, s2)
      BY <1>3 DEF QuitStops
    <3> HIDE DEF s2
    <3>2. QED
      BY <3>1, AtFacts
  <2>2. Now(s) /\ Keeps(stack[th], s) /\ s # <<>>
    BY <2>1, GotoNow
  <2>3. Now(s2) /\ Keeps(s, s2)
    BY <2>2, RaisedNow DEF Events
  <2>4. Keeps(stack[th], s2)
    BY <2>2, <2>3, KeepsOn
  <2>5. UNCHANGED <<program, left, boot, at, registry, revent, starting_up, sched, served, skipped>> /\ running' = FALSE
    BY <1>3 DEF QuitStops
  <2>6. Fixed /\ (HasStarted => HasStarted')
    BY <1>0, <2>5, FixedMost, StartedStays
  <2>7. log' \in Seq(Events) /\ (starting_up => Silent(log'))
    BY <1>3, <2>1, Told DEF QuitStops, Events
  <2>8. QED
    BY <2>1, <2>3, <2>4, <2>5, <2>6, <2>7, StepOn
<1>4. CASE QuitDefers(th)
  <2>1. stack[th] # <<>> /\ Top(th).fn = "_quit" /\ ~starting_up /\ SetStack(th, Goto(th, "wait"))
    BY <1>4, AtFacts DEF QuitDefers
  <2>2. Now(Goto(th, "wait")) /\ Keeps(stack[th], Goto(th, "wait"))
    BY <2>1, GotoNow
  <2>3. Fixed /\ UNCHANGED <<log, revent, starting_up, boot, at>>
    <3>1. UNCHANGED <<program, left, boot, at, registry, revent, starting_up, running, served, skipped, log>>
      BY <1>4 DEF QuitDefers, history
    <3>2. sched' \in {"runs", "told", "quit"}
      BY <1>0, <1>4 DEF QuitDefers
    <3>3. QED
      BY <1>0, <3>1, <3>2, FixedMost
  <2>4. QED
    BY <2>1, <2>2, <2>3, OneNow
<1>5. CASE QuitDown(th)
  <2> DEFINE s == Goto(th, "notify")
             s2 == Raised(s, "Down", FALSE)
  <2>1. stack[th] # <<>> /\ Top(th).fn = "_quit" /\ ~starting_up /\ SetStack(th, s2)
    <3>1. At(th, "_quit", "wait") /\ SetStack(th, s2)
      BY <1>5 DEF QuitDown
    <3> HIDE DEF s2
    <3>2. QED
      BY <3>1, AtFacts
  <2>2. Now(s) /\ Keeps(stack[th], s) /\ s # <<>>
    BY <2>1, GotoNow
  <2>3. Now(s2) /\ Keeps(s, s2)
    BY <2>2, RaisedNow DEF Events
  <2>4. Keeps(stack[th], s2)
    BY <2>2, <2>3, KeepsOn
  <2>5. UNCHANGED <<program, left, boot, at, registry, revent, state, served, skipped>>
    BY <1>5 DEF QuitDown
  <2>6. Fixed /\ (HasStarted => HasStarted') /\ UNCHANGED <<revent, starting_up>>
    BY <1>0, <2>5, FixedMost, StartedStays DEF state
  <2>7. log' \in Seq(Events) /\ (starting_up => Silent(log'))
    BY <1>5, <2>1, Told DEF QuitDown, Events
  <2>8. QED
    BY <2>1, <2>3, <2>4, <2>6, <2>7, StepOn
<1>6. CASE QuitEnds(th)
  <2>1. Now(Front(stack[th])) /\ Keeps(stack[th], Front(stack[th])) /\ SetStack(th, Front(stack[th]))
    BY <1>6, AtFacts DEF QuitEnds
  <2>2. Fixed /\ UNCHANGED <<log, revent, starting_up, boot, at>>
    BY <1>6, QuietFixed DEF QuitEnds
  <2>3. QED
    BY <2>1, <2>2, OneNow
<1>7. QED
  BY <1>1, <1>2, <1>3, <1>4, <1>5, <1>6 DEF Quit

LEMMA quitKeeps ==
  ASSUME CInv, NEW th \in Threads, NEW o, quit(th, o)
  PROVE  CInv'
<1> DEFINE t == IF starting_up \/ th = "sched" THEN o.arg ELSE th
           f == Frame("_quit", "check")
<1>1. /\ MayCall(th, o) /\ o.op = "quit" /\ SetStack(t, Append(stack[t], f))
      /\ UNCHANGED <<program, boot, at, registry, revent, state, launched, log, served, skipped>>
  BY DEF quit
<1>2. /\ running \in BOOLEAN /\ sched \in {"runs", "told", "quit"} /\ program \in Programs
      /\ left \subseteq program.ops
  BY DEF CInv, Types
<1>3. left' \subseteq left /\ o \in left
  BY <1>1 DEF MayCall
<1>4. Fixed /\ UNCHANGED <<log, revent, starting_up, boot, at>>
  BY <1>1, <1>2, <1>3, FixedMost DEF state
<1>5. o.arg \in Threads
  BY <1>1, <1>2, <1>3 DEF Threads, Quitters, Ops
<1>6. t \in Threads
  BY <1>5
<1> HIDE DEF t
<1>7. Now(stack[t])
  BY <1>6 DEF CInv, Stacks, Sound, Now
<1>8. f \in FrameT /\ Starts(f) /\ ~IsHandler(f) /\ FrameNow(f)
  BY PlainFrame DEF Frame
<1> HIDE DEF f
<1>9. Now(Append(stack[t], f)) /\ Keeps(stack[t], Append(stack[t], f))
  BY <1>7, <1>8, PushNow
<1>10. QED
  BY <1>1, <1>4, <1>6, <1>9, OneNow

LEMMA CodeReturnsKeeps ==
  ASSUME CInv, NEW th \in Threads, NEW rv, CodeReturns(th, rv)
  PROVE  CInv'
<1>1. stack[th] # <<>> /\ Top(th).fn = "code" /\ SetStack(th, Front(stack[th]))
  BY DEF CodeReturns, Running, Busy
<1>2. Now(Front(stack[th])) /\ Keeps(stack[th], Front(stack[th]))
  BY <1>1, TopFrame, FrameKinds
<1>3. UNCHANGED <<program, left, at, registry, revent, state, history>> /\ boot' \in {boot, "exited"}
  BY DEF CodeReturns
<1>4. Fixed /\ (HasStarted => HasStarted') /\ UNCHANGED <<revent, starting_up, log>>
  <2>1. HasStarted => HasStarted'
    BY <1>3, StartedStays
  <2>2. QED
    BY <1>3, <2>1 DEF Fixed, CInv, Types, state, history
<1>5. log' \in Seq(Events) /\ (starting_up => Silent(log'))
  BY <1>4, Told DEF Events
<1>6. QED
  BY <1>1, <1>2, <1>4, <1>5, StepOn

LEMMA AfterExceptionNow ==
  ASSUME CInv, NEW th \in Threads, stack[th] # <<>>, Top(th).fn = "code"
  PROVE  Now(AfterException(stack[th])) /\ Keeps(stack[th], AfterException(stack[th]))
<1> DEFINE s == stack[th]
           under == Front(s)
           out == Front(under)
<1>1. Now(under) /\ under \in Seq(FrameT) /\ Keeps(s, under)
  BY TopFrame, FrameKinds
<1>2. CASE under = <<>> \/ Last(under).fn # "raise"
  <2>1. AfterException(s) = under
    BY <1>2 DEF AfterException
  <2>2. QED
    BY <1>1, <2>1
<1>3. CASE under # <<>> /\ Last(under).fn = "raise"
  <2> HIDE DEF under
  <2>1. Last(under) \in FrameT /\ out \in Seq(FrameT)
    BY <1>1, <1>3, FrontAndLast
  <2>2. Now(out) /\ Keeps(under, out)
    BY <1>1, <1>3, <2>1, FrameKinds, WholeFront DEF Now
  <2>3. Keeps(s, out)
    BY <1>1, <2>2, KeepsOn
  <2>4. CASE Last(under).safe \/ out = <<>>
    <3>1. AfterException(s) = out
      BY <1>3, <2>4 DEF AfterException, under
    <3>2. QED
      BY <2>2, <2>3, <3>1
  <2>5. CASE ~Last(under).safe /\ out # <<>> /\ Last(out).fn \notin {"goUp", "_quit"}
    <3>1. AfterException(s) = out
      BY <1>3, <2>5 DEF AfterException, under
    <3>2. QED
      BY <2>2, <2>3, <3>1
  <2>6. CASE ~Last(under).safe /\ out # <<>> /\ Last(out).fn \in {"goUp", "_quit"}
    <3>1. AfterException(s) = Front(out)
      BY <1>3, <2>6 DEF AfterException, under
    <3> HIDE DEF out
    <3>2. Last(out) \in FrameT
      BY <2>1, <2>6, FrontAndLast
    <3>3. Now(Front(out)) /\ Keeps(out, Front(out))
      BY <2>2, <2>6, <3>2, FrameKinds, WholeFront DEF Now
    <3>4. QED
      BY <2>3, <3>1, <3>3, KeepsOn
  <2>7. QED
    BY <2>4, <2>5, <2>6
<1>4. QED
  BY <1>2, <1>3

LEMMA ThrowsKeeps ==
  ASSUME CInv, NEW th \in Threads, Throws(th)
  PROVE  CInv'
<1> DEFINE s == AfterException(stack[th])
<1>1. stack[th] # <<>> /\ Top(th).fn = "code" /\ SetStack(th, s)
  BY DEF Throws, Running, Busy
<1>2. Now(s) /\ Keeps(stack[th], s)
  BY <1>1, AfterExceptionNow
<1>3. UNCHANGED <<program, left, at, registry, revent, state, history>> /\ boot' \in {boot, "exited"}
  BY DEF Throws
<1>4. Fixed /\ (HasStarted => HasStarted') /\ UNCHANGED <<revent, starting_up, log>>
  <2>1. HasStarted => HasStarted'
    BY <1>3, StartedStays
  <2>2. QED
    BY <1>3, <2>1 DEF Fixed, CInv, Types, state, history
<1>5. log' \in Seq(Events) /\ (starting_up => Silent(log'))
  BY <1>4, Told DEF Events
<1> HIDE DEF s
<1>6. QED
  BY <1>1, <1>2, <1>4, <1>5, StepOn

(* The scheduler's thread.                                                 *)
LEMMA SchedKeeps ==
  ASSUME CInv, SchedRuns \/ SchedQuits
  PROVE  CInv'
<1>1. CASE SchedRuns
  <2>1. /\ stack["sched"] = <<>> /\ SetStack("sched", <<CodeFrame("task")>>) /\ "sched" \in Threads
        /\ UNCHANGED <<program, left, boot, at, registry, revent, state, history>>
    BY <1>1 DEF SchedRuns, Threads
  <2>2. Now(stack["sched"])
    BY <2>1 DEF CInv, Stacks, Sound, Now
  <2>3. Now(Append(stack["sched"], CodeFrame("task"))) /\ Keeps(stack["sched"], Append(stack["sched"], CodeFrame("task")))
    BY <2>2, CodeOK, PushNow
  <2>4. Append(stack["sched"], CodeFrame("task")) = <<CodeFrame("task")>>
    BY <2>1
  <2>5. Fixed /\ UNCHANGED <<log, revent, starting_up, boot, at>>
    BY <2>1, QuietFixed
  <2>6. QED
    BY <2>1, <2>3, <2>4, <2>5, OneNow
<1>2. CASE SchedQuits
  <2>1. UNCHANGED <<program, left, boot, at, stack, registry, revent, starting_up, running, history>> /\ sched' = "quit"
    BY <1>2 DEF SchedQuits
  <2>2. running \in BOOLEAN
    BY DEF CInv, Types
  <2>3. Fixed /\ UNCHANGED <<log, revent, starting_up, boot, at>>
    BY <2>1, <2>2, FixedMost DEF history
  <2>4. Sound(stack', handlers, served, HasStarted, starting_up) /\ KeepsAll(stack, stack')
    BY <2>1, SoundHere
  <2>5. QED
    BY <2>3, <2>4, OnlyStacks
<1>3. QED
  BY <1>1, <1>2

(* boot and goUp: the main thread.                                         *)
LEMMA MainEmpty ==
  ASSUME CInv, stack["main"] = <<>>, NEW f \in FrameT, FrameNow(f), Starts(f), ~IsHandler(f)
  PROVE  Now(<<f>>) /\ Keeps(stack["main"], <<f>>) /\ "main" \in Threads
<1>1. "main" \in Threads
  BY DEF Threads
<1>2. Now(stack["main"])
  BY <1>1 DEF CInv, Stacks, Sound, Now
<1>3. Now(Append(stack["main"], f)) /\ Keeps(stack["main"], Append(stack["main"], f))
  BY <1>2, PushNow
<1>4. Append(stack["main"], f) = <<f>>
  OBVIOUS
<1>5. QED
  BY <1>1, <1>3, <1>4

LEMMA LaunchNextKeeps ==
  ASSUME CInv, LaunchNext
  PROVE  CInv'
<1>1. /\ boot = "launch" /\ stack["main"] = <<>> /\ at < Len(order_) /\ at' = at + 1
      /\ boot' \in {boot, "exited"}
      /\ SetStack("main", <<CodeFrame("launch")>>) \/ UNCHANGED stack
      /\ UNCHANGED <<program, left, registry, revent, state, log, served, asked, skipped>>
  BY DEF LaunchNext
<1>2. ~HasStarted
  BY <1>1 DEF HasStarted
<1>3. at' \in 0..Len(order_)
  BY <1>1 DEF CInv, Types
<1>4. Fixed /\ UNCHANGED <<revent, starting_up, log>>
  BY <1>1, <1>3 DEF Fixed, CInv, Types, state
<1>5. log' \in Seq(Events) /\ (starting_up => Silent(log'))
  BY <1>4, Told DEF Events
<1>6. Now(<<CodeFrame("launch")>>) /\ Keeps(stack["main"], <<CodeFrame("launch")>>) /\ "main" \in Threads
  BY <1>1, CodeOK, MainEmpty
<1>7. CASE SetStack("main", <<CodeFrame("launch")>>)
  BY <1>2, <1>4, <1>5, <1>6, <1>7, StepOn
<1>8. CASE UNCHANGED stack
  <2>1. SetStack("main", stack["main"])
    BY <1>6, <1>8 DEF SetStack, CInv, Stacks, Sound
  <2>2. Now(stack["main"]) /\ Keeps(stack["main"], stack["main"])
    BY <1>6 DEF CInv, Stacks, Sound, Now, Keeps
  <2>3. QED
    BY <1>2, <1>4, <1>5, <1>6, <2>1, <2>2, StepOn
<1>9. QED
  BY <1>1, <1>7, <1>8

LEMMA GoUpKeeps ==
  ASSUME CInv, GoUp
  PROVE  CInv'
<1> DEFINE f == Frame("goUp", "start")
<1>1. /\ boot = "launch" /\ stack["main"] = <<>> /\ at = Len(order_) /\ boot' = "up"
      /\ SetStack("main", <<f>>)
      /\ UNCHANGED <<program, left, at, registry, revent, state, history>>
  BY DEF GoUp
<1>2. HasStarted'
  BY <1>1, OrderFixed DEF HasStarted
<1>3. Fixed /\ UNCHANGED <<revent, starting_up, log>> /\ handlers' = handlers
  BY <1>1 DEF Fixed, CInv, Types, state, history, revent
<1>4. "main" \in Threads
  BY DEF Threads
<1>5. Sound(stack, handlers, served, HasStarted', starting_up)
  BY <1>2, SoundMono DEF CInv, Stacks
<1>6. FrameInv(f, handlers, served, HasStarted', starting_up) /\ f \in FrameT /\ Starts(f) /\ ~IsHandler(f)
  <2>1. f \in FrameT /\ Starts(f) /\ ~IsHandler(f) /\ f \notin TryT /\ f.fn = "goUp"
    BY PlainFrame DEF Frame
  <2> HIDE DEF f
  <2>2. f \notin RaiseT /\ f \notin DoneT /\ f \notin QuitT
    BY <2>1, FrameKinds
  <2>3. QED
    BY <1>2, <2>1, <2>2 DEF FrameInv
<1> HIDE DEF f
<1>7. Whole(stack["main"], handlers, served, HasStarted', starting_up)
  BY <1>4, <1>5 DEF Sound
<1>8. /\ Whole(Append(stack["main"], f), handlers, served, HasStarted', starting_up)
      /\ Keeps(stack["main"], Append(stack["main"], f))
  BY <1>6, <1>7, WholePush
<1>9. Append(stack["main"], f) = <<f>>
  BY <1>1
<1>10. stack' = [stack EXCEPT !["main"] = <<f>>]
  BY <1>1 DEF SetStack
<1>11. Sound(stack', handlers', served, HasStarted', starting_up') /\ KeepsAll(stack, stack')
  <2>1. /\ Sound([stack EXCEPT !["main"] = <<f>>], handlers, served, HasStarted', starting_up)
        /\ KeepsAll(stack, [stack EXCEPT !["main"] = <<f>>])
    BY <1>4, <1>5, <1>8, <1>9, OneStack
  <2>2. QED
    BY <1>3, <1>10, <2>1
<1>12. Phases'
  BY <1>2, <1>3 DEF Phases, CInv
<1>13. ListsOK(handlers', next_eid', served) /\ next_eid' \in Nat \ {0} /\ log' \in Seq(Events)
  BY <1>3 DEF CInv, Lists, Types, revent
<1>14. QED
  BY <1>3, <1>11, <1>12, <1>13, Preserved

LEMMA goUpStartKeeps ==
  ASSUME CInv, goUpStart
  PROVE  CInv'
<1> DEFINE s == Goto("main", "goingup")
<1>1. /\ At("main", "goUp", "start") /\ starting_up' = FALSE /\ SetStack("main", s)
      /\ UNCHANGED <<program, left, boot, at, registry, revent, running, sched, history>>
  BY DEF goUpStart
<1>2. "main" \in Threads
  BY DEF Threads
<1>3. stack["main"] # <<>> /\ Top("main").fn = "goUp" /\ HasStarted
  BY <1>1, <1>2, AtFacts
<1>4. Now(s) /\ Keeps(stack["main"], s)
  BY <1>2, <1>3, GotoNow
<1> HIDE DEF s
<1>5. HasStarted'
  BY <1>1, <1>3, StartedStays
<1>6. Fixed /\ UNCHANGED <<revent, log>> /\ handlers' = handlers
  BY <1>1 DEF Fixed, CInv, Types, history, revent
<1>7. /\ Sound([stack EXCEPT !["main"] = s], handlers, served, HasStarted, starting_up)
      /\ KeepsAll(stack, [stack EXCEPT !["main"] = s])
  BY <1>2, <1>4, SoundNow
<1>8. stack' = [stack EXCEPT !["main"] = s]
  BY <1>1 DEF SetStack
<1>9. Sound(stack', handlers', served, HasStarted', starting_up') /\ KeepsAll(stack, stack')
  BY <1>1, <1>5, <1>6, <1>7, <1>8, SoundMono
<1>10. Phases'
  BY <1>1, <1>5 DEF Phases
<1>11. ListsOK(handlers', next_eid', served) /\ next_eid' \in Nat \ {0} /\ log' \in Seq(Events)
  BY <1>6 DEF CInv, Lists, Types, revent
<1>12. QED
  BY <1>6, <1>9, <1>10, <1>11, Preserved

LEMMA goUpRaiseKeeps ==
  ASSUME CInv, NEW pc, NEW event \in {"GoingUp", "Up"}, NEW next \in {"up", "notify"}, goUpRaise(pc, event, next)
  PROVE  CInv'
<1> DEFINE s == Goto("main", next)
           s2 == Raised(s, event, FALSE)
<1>1. /\ At("main", "goUp", pc) /\ log' = Append(log, event) /\ SetStack("main", s2)
      /\ UNCHANGED <<program, left, boot, at, registry, revent, state, launched, served, asked, skipped>>
  BY DEF goUpRaise
<1>2. "main" \in Threads /\ event \in Events /\ event # "GoingDown"
  BY DEF Threads, Events
<1>3. stack["main"] # <<>> /\ Top("main").fn = "goUp"
  BY <1>1, <1>2, AtFacts
<1>4. Now(s) /\ Keeps(stack["main"], s) /\ s # <<>>
  BY <1>2, <1>3, GotoNow
<1> HIDE DEF s
<1>5. Now(s2) /\ Keeps(s, s2)
  BY <1>2, <1>4, RaisedNow
<1> HIDE DEF s2
<1>6. Keeps(stack["main"], s2)
  BY <1>4, <1>5, KeepsOn
<1>7. HasStarted => HasStarted'
  BY <1>1, StartedStays
<1>8. Fixed /\ UNCHANGED <<revent, starting_up>>
  BY <1>1 DEF Fixed, CInv, Types, state
<1>9. log' \in Seq(Events) /\ (starting_up => Silent(log'))
  BY <1>1, <1>2, Told
<1>10. QED
  BY <1>1, <1>2, <1>5, <1>6, <1>7, <1>8, <1>9, StepOn

LEMMA MainEndsKeeps ==
  ASSUME CInv, goUpEnd \/ MainQuits \/ MainExits
  PROVE  CInv'
<1>0. "main" \in Threads
  BY DEF Threads
<1>1. /\ UNCHANGED <<program, left, at, registry, revent, state, log, served, skipped>>
      /\ boot' \in {"wait", "end", "exited"}
  BY DEF goUpEnd, MainQuits, MainExits, history
<1>2. HasStarted => HasStarted'
  BY <1>1, StartedStays
<1>3. Fixed /\ UNCHANGED <<revent, starting_up, log>>
  BY <1>1 DEF Fixed, CInv, Types, state
<1>4. log' \in Seq(Events) /\ (starting_up => Silent(log'))
  BY <1>3, Told DEF Events
<1>5. CASE goUpEnd
  <2>1. At("main", "goUp", "notify") /\ SetStack("main", Front(stack["main"]))
    BY <1>5 DEF goUpEnd
  <2>2. Now(Front(stack["main"])) /\ Keeps(stack["main"], Front(stack["main"]))
    BY <1>0, <2>1, AtFacts
  <2>3. QED
    BY <1>0, <1>2, <1>3, <1>4, <2>1, <2>2, StepOn
<1>6. CASE MainQuits
  <2> DEFINE f == Frame("_quit", "check")
  <2>1. stack["main"] = <<>> /\ SetStack("main", <<f>>)
    BY <1>6 DEF MainQuits
  <2>2. f \in FrameT /\ Starts(f) /\ ~IsHandler(f) /\ FrameNow(f)
    BY PlainFrame DEF Frame
  <2> HIDE DEF f
  <2>3. Now(<<f>>) /\ Keeps(stack["main"], <<f>>)
    BY <2>1, <2>2, MainEmpty
  <2>4. QED
    BY <1>0, <1>2, <1>3, <1>4, <2>1, <2>3, StepOn
<1>7. CASE MainExits
  <2>1. SetStack("main", stack["main"])
    BY <1>0, <1>7 DEF MainExits, SetStack, CInv, Stacks, Sound
  <2>2. Now(stack["main"]) /\ Keeps(stack["main"], stack["main"])
    BY <1>0 DEF CInv, Stacks, Sound, Now, Keeps
  <2>3. QED
    BY <1>0, <1>2, <1>3, <1>4, <2>1, <2>2, StepOn
<1>8. QED
  BY <1>5, <1>6, <1>7

-----------------------------------------------------------------------------
(* The registry: components and those who wait for them.                   *)
Single(list) == \A j, k \in DOMAIN list : list[j] = list[k] => j = k

LEMMA TakenFacts ==
  ASSUME NEW S, NEW list \in Seq(S), Single(list), NEW w, NEW m \in DOMAIN list, list[m] = w
  PROVE  /\ Taken(list, w) \in Seq(S) /\ Single(Taken(list, w))
         /\ \A j \in DOMAIN Taken(list, w) :
              Taken(list, w)[j] # w /\ \E k \in DOMAIN list : Taken(list, w)[j] = list[k]
<1> DEFINE n == Len(list)
           i == CHOOSE k \in DOMAIN list : list[k] = w /\ \A j \in 1..k - 1 : list[j] # w
           t == RemoveAt(list, i)
<1>1. n \in Nat \ {0} /\ DOMAIN list = 1..n /\ m \in 1..n
  OBVIOUS
<1>2. \A j \in 1..m - 1 : list[j] # w
  <2>1. \A j \in 1..m - 1 : j \in 1..n /\ j # m
    BY <1>1
  <2>2. QED
    BY <1>1, <2>1 DEF Single
<1>3. i \in DOMAIN list /\ list[i] = w
  BY <1>2
<1> HIDE DEF i
<1>4. i = m
  BY <1>3 DEF Single
<1>5. Taken(list, w) = t
  BY DEF Taken, i
<1>6. t \in Seq(S) /\ Cut(list, m, t)
  BY <1>4, RemoveAtCuts
<1> HIDE DEF t
<1>7. DOMAIN t = 1..n - 1 /\ \A k \in 1..n - 1 : t[k] = IF k < m THEN list[k] ELSE list[k + 1]
  BY <1>6, <1>1 DEF Cut
<1> HIDE DEF n
<1>8. \A k \in 1..n - 1 : k \in 1..n /\ k + 1 \in 1..n /\ k \in Int /\ (k < m => k # m) /\ (~(k < m) => k + 1 # m)
  BY <1>1
<1>9. \A j \in 1..n - 1 : t[j] # w /\ \E k \in 1..n : t[j] = list[k]
  BY <1>1, <1>7, <1>8 DEF Single
<1>10. ASSUME NEW j \in 1..n - 1, NEW k \in 1..n - 1, t[j] = t[k] PROVE j = k
  <2>1. m \in Int
    BY <1>1
  <2>2. CASE j < m /\ k < m
    BY <1>1, <1>7, <1>8, <1>10, <2>2 DEF Single
  <2>3. CASE ~(j < m) /\ ~(k < m)
    <3>1. j + 1 = k + 1
      BY <1>1, <1>7, <1>8, <1>10, <2>3 DEF Single
    <3>2. QED
      BY <1>8, <3>1
  <2>4. CASE j < m /\ ~(k < m)
    <3>1. j = k + 1
      BY <1>1, <1>7, <1>8, <1>10, <2>4 DEF Single
    <3>2. QED
      BY <1>8, <2>1, <2>4, <3>1
  <2>5. CASE ~(j < m) /\ k < m
    <3>1. j + 1 = k
      BY <1>1, <1>7, <1>8, <1>10, <2>5 DEF Single
    <3>2. QED
      BY <1>8, <2>1, <2>5, <3>1
  <2>6. QED
    BY <2>2, <2>3, <2>4, <2>5
<1>11. QED
  BY <1>1, <1>5, <1>6, <1>7, <1>9, <1>10 DEF Single

(* Some _try_waiters will look at v.                                       *)
Seen(stk, v) == \E th \in Threads : \E j \in DOMAIN stk[th] : Looks(stk[th][j], v)

LEMMA SeenKept ==
  ASSUME NEW stk, NEW stk2, KeepsAll(stk, stk2), NEW v, Seen(stk, v)
  PROVE  Seen(stk2, v)
  BY DEF Seen, KeepsAll, Keeps, Looks

(* The frame on top of th changes; what it looked at, its successor does.  *)
LEMMA SeenOn ==
  ASSUME NEW stk, NEW th \in Threads, NEW s, s = stk[th], s \in Seq(FrameT), s # <<>>,
         NEW s2, s2 \in Seq(FrameT), Keeps(Front(s), s2),
         NEW v, Looks(Last(s), v) => \E j \in DOMAIN s2 : Looks(s2[j], v),
         Seen(stk, v), stk \in [Threads -> Seq(FrameT)]
  PROVE  Seen([stk EXCEPT ![th] = s2], v)
<1> DEFINE stk2 == [stk EXCEPT ![th] = s2]
<1>1. stk2[th] = s2 /\ \A t \in Threads : t # th => stk2[t] = stk[t]
  OBVIOUS
<1> HIDE DEF stk2
<1>2. PICK t \in Threads : \E j \in DOMAIN stk[t] : Looks(stk[t][j], v)
  BY DEF Seen
<1>3. PICK j \in DOMAIN stk[t] : Looks(stk[t][j], v)
  BY <1>2
<1>4. CASE t # th
  BY <1>1, <1>3, <1>4 DEF Seen, stk2
<1>5. CASE t = th
  <2>1. /\ Len(Front(s)) = Len(s) - 1 /\ Len(s) \in Nat \ {0} /\ Last(s) = s[Len(s)]
        /\ Front(s) \in Seq(FrameT) /\ \A k \in 1..Len(s) - 1 : Front(s)[k] = s[k]
    BY FrontAndLast
  <2>2. j \in 1..Len(s) /\ Looks(s[j], v)
    BY <1>3, <1>5
  <2>3. CASE j = Len(s)
    BY <1>1, <2>1, <2>2, <2>3 DEF Seen, stk2
  <2>4. CASE j # Len(s)
    <3>1. j \in 1..Len(s) - 1 /\ j \in DOMAIN Front(s) /\ Front(s)[j] = s[j]
      BY <2>1, <2>2, <2>4
    <3>2. j \in DOMAIN s2 /\ s2[j] = s[j]
      BY <2>2, <3>1 DEF Keeps, Looks
    <3>3. QED
      BY <1>1, <2>2, <3>2 DEF Seen, stk2
  <2>5. QED
    BY <2>3, <2>4
<1>6. QED
  BY <1>4, <1>5

LEMMA WatchedSeen == Watched <=> \A k \in DOMAIN waiters : Ready(waiters[k]) => Seen(stack, waiters[k])
  BY DEF Watched, Seen

(* What the steps of the registry leave alone.                             *)
Apart ==
  /\ program' = program /\ left' \subseteq left /\ UNCHANGED <<boot, at, revent, state, skipped>>
LEMMA RegistryStep ==
  ASSUME CInv, Apart, log' \in Seq(Events), starting_up => Silent(log'),
         waiters' \in Seq(DOMAIN Waiters), served' \in [DOMAIN Waiters -> Nat],
         \A w \in DOMAIN Waiters : served[w] = 1 => served'[w] = 1,
         Sound(stack', handlers, served', HasStarted, starting_up), Waiting', Watched'
  PROVE  CInv'
<1>1. Len(order_)' = Len(order_) /\ (HasStarted <=> HasStarted')
  BY OrderFixed DEF Apart, HasStarted
<1>2. Types'
  <2>1. program' \in Programs /\ left' \subseteq program'.ops
    BY DEF CInv, Types, Apart
  <2>2. QED
    BY <1>1, <2>1 DEF CInv, Types, Apart, revent, state
<1>3. Stacks'
  <2>1. handlers' = handlers /\ starting_up' = starting_up
    BY DEF Apart, revent, state
  <2>2. Sound(stack', handlers', served', HasStarted', starting_up')
    BY <1>1, <2>1, SoundMono
  <2>3. QED
    BY <2>2 DEF Stacks
<1>4. Lists'
  <2>1. \A l : Bound(l, served) => Bound(l, served')
    BY SinksAssumption DEF Bound
  <2>2. ListsOK(handlers, next_eid, served')
    BY <2>1 DEF CInv, Lists, ListsOK, ListOK
  <2>3. QED
    BY <2>2 DEF Lists, Apart, revent
<1>5. Phases'
  BY <1>1 DEF CInv, Phases, Apart, state, Silent
<1>6. QED
  BY <1>2, <1>3, <1>4, <1>5 DEF CInv

LEMMA CallbackOK ==
  ASSUME NEW hs, NEW sv, NEW up, NEW su, NEW w \in DOMAIN Waiters, sv[w] = 1
  PROVE  /\ Callback(w) \in FrameT /\ FrameInv(Callback(w), hs, sv, up, su)
         /\ ~IsHandler(Callback(w)) /\ Callback(w) \notin TryT
<1> DEFINE f == Callback(w)
<1>1. CASE w \in DOMAIN Sinks
  <2>1. f = [fn |-> "done", todo |-> Sinks[w]]
    BY <1>1 DEF Callback
  <2>2. Sinks[w] \in Seq(DOMAIN Listeners)
    BY <1>1, SinksAssumption
  <2> HIDE DEF f
  <2>3. f \in DoneT /\ f.fn = "done" /\ f.todo = Sinks[w]
    BY <2>1, <2>2 DEF DoneT
  <2>4. f \in FrameT
    BY <2>3 DEF FrameT
  <2>5. f \notin RaiseT /\ f \notin GoUpT /\ f \notin QuitT /\ f \notin CodeT /\ f \notin TryT
    BY <2>3, <2>4, FrameKinds
  <2>6. ASSUME NEW n \in DOMAIN Sinks[w] PROVE Bound(Sinks[w][n], sv)
    <3>1. Sinks[w][n] \in Range(Sinks[w])
      BY DEF Range
    <3>2. \A v \in DOMAIN Sinks : Sinks[w][n] \in Range(Sinks[v]) => v = w
      BY <1>1, <3>1, SinksAssumption
    <3>3. QED
      BY <3>2 DEF Bound
  <2>7. QED
    BY <2>3, <2>4, <2>5, <2>6 DEF FrameInv, IsHandler, f
<1>2. CASE w \notin DOMAIN Sinks
  <2>1. f = CodeFrame("callback")
    BY <1>2 DEF Callback
  <2>2. f \in FrameT /\ f.fn = "code" /\ ~IsHandler(f)
    BY <2>1, CodeOK DEF CodeFrame
  <2> HIDE DEF f
  <2>3. f \notin RaiseT /\ f \notin DoneT /\ f \notin GoUpT /\ f \notin QuitT /\ f \notin TryT
    BY <2>2, FrameKinds
  <2>4. QED
    BY <2>2, <2>3 DEF FrameInv, f
<1>3. QED
  BY <1>1, <1>2

(* A frame of _try_waiters.                                                *)
LEMMA TryOK ==
  ASSUME NEW f \in TryT
  PROVE  f \in FrameT /\ ~IsHandler(f) /\ f.fn = "_try_waiters" /\ ~Starts(f)
         /\ \A hs, sv, up, su : FrameInv(f, hs, sv, up, su)
<1>1. f \in FrameT
  BY DEF FrameT
<1>2. f.fn = "_try_waiters" /\ f \notin RaiseT /\ f \notin DoneT /\ f \notin GoUpT /\ f \notin QuitT /\ f \notin CodeT
  BY <1>1, FrameKinds
<1>3. QED
  BY <1>1, <1>2 DEF FrameInv, IsHandler, Starts

LEMMA registerKeeps ==
  ASSUME CInv, NEW th \in Threads, NEW o, register(th, o)
  PROVE  CInv'
<1> DEFINE f == [fn |-> "_try_waiters", todo |-> <<>>, changed |-> TRUE]
           s == stack[th]
           s1 == Append(s, f)
           s2 == Raised(s1, "ComponentRegistered", TRUE)
<1>1. /\ MayCall(th, o) /\ components' = components \cup {o.arg} /\ SetStack(th, s2)
      /\ log' \in {log, Append(log, "ComponentRegistered")}
      /\ UNCHANGED <<program, boot, at, waiters, revent, state, launched, served, asked, skipped>>
  BY DEF register
<1>2. Apart /\ UNCHANGED <<waiters, served>>
  BY <1>1 DEF Apart, MayCall
<1>3. log' \in Seq(Events) /\ (starting_up => Silent(log'))
  BY <1>1, Told DEF Events
<1>4. s # <<>> /\ Now(s) /\ s \in Seq(FrameT)
  BY <1>1, TopFrame DEF MayCall, Running, Busy
<1>5. f \in TryT /\ f.changed
  BY DEF TryT
<1> HIDE DEF f
<1>6. f \in FrameT /\ ~IsHandler(f) /\ FrameNow(f)
  BY <1>5, TryOK DEF FrameNow
<1> HIDE DEF s
<1>7. Now(s1) /\ Keeps(s, s1)
  BY <1>4, <1>6, PushNow
<1>8. s1 # <<>> /\ Len(s) + 1 \in DOMAIN s1 /\ s1[Len(s) + 1] = f
  BY <1>4, <1>6
<1> HIDE DEF s1
<1>9. Now(s2) /\ Keeps(s1, s2)
  BY <1>7, <1>8, RaisedNow DEF Events
<1> HIDE DEF s2
<1>10. Len(s) + 1 \in DOMAIN s2 /\ s2[Len(s) + 1] = f
  BY <1>5, <1>8, <1>9 DEF Keeps
<1>11. Keeps(s, s2)
  BY <1>7, <1>9, KeepsOn
<1>12. stack' = [stack EXCEPT ![th] = s2] /\ stack'[th] = s2
  BY <1>1 DEF SetStack, CInv, Stacks, Sound
<1>13. Sound(stack', handlers, served', HasStarted, starting_up)
  BY <1>2, <1>9, <1>11, <1>12, SoundNow DEF s
<1>14. Watched'
  BY <1>5, <1>10, <1>12 DEF Watched, Looks
<1>15. Waiting'
  <2>1. \A w : Ready(w) => Ready(w)'
    BY <1>1 DEF Ready
  <2>2. left' \subseteq left
    BY <1>2 DEF Apart
  <2>3. QED
    BY <1>2, <2>1, <2>2 DEF CInv, Waiting
<1>16. waiters' \in Seq(DOMAIN Waiters) /\ served' \in [DOMAIN Waiters -> Nat]
  BY <1>2 DEF CInv, Types
<1>17. QED
  BY <1>2, <1>3, <1>13, <1>14, <1>15, <1>16, RegistryStep

(* A waiter is taken from the list and called back.                        *)
LEMMA ServeStep ==
  ASSUME CInv, Apart, log' = log, components' = components,
         NEW w \in DOMAIN Waiters, Ready(w), served[w] = 0,
         NEW list \in Seq(DOMAIN Waiters), Single(list), NEW m \in DOMAIN list, list[m] = w,
         \A k \in DOMAIN list : list[k] = w \/ \E j \in DOMAIN waiters : list[k] = waiters[j],
         waiters' = Taken(list, w), served' = [served EXCEPT ![w] = @ + 1],
         \A o \in left' : Enters(o) => o.arg # w,
         Sound(stack', handlers, served', HasStarted, starting_up),
         \A k \in DOMAIN waiters : waiters[k] # w /\ Ready(waiters[k]) => Seen(stack', waiters[k])
  PROVE  CInv'
<1>1. /\ waiters' \in Seq(DOMAIN Waiters) /\ Single(waiters')
      /\ \A j \in DOMAIN waiters' : waiters'[j] # w /\ \E k \in DOMAIN list : waiters'[j] = list[k]
  BY TakenFacts
<1>2. \A j \in DOMAIN waiters' : waiters'[j] # w /\ \E k \in DOMAIN waiters : waiters'[j] = waiters[k]
  BY <1>1
<1>3. /\ served' \in [DOMAIN Waiters -> Nat] /\ served'[w] = 1
      /\ \A v \in DOMAIN Waiters : v # w => served'[v] = served[v]
  BY DEF CInv, Types
<1>4. \A v : Ready(v)' <=> Ready(v)
  BY DEF Ready
<1>5. Waiting'
  <2>1. \A k \in DOMAIN waiters' : served'[waiters'[k]] = 0
    <3> TAKE k \in DOMAIN waiters'
    <3>1. PICK j \in DOMAIN waiters : waiters'[k] = waiters[j]
      BY <1>2
    <3>2. waiters[j] \in DOMAIN Waiters /\ served[waiters[j]] = 0 /\ waiters[j] # w
      BY <1>2, <3>1 DEF CInv, Types, Waiting
    <3>3. QED
      BY <1>3, <3>1, <3>2
  <2>2. \A v \in DOMAIN Waiters : served'[v] \in {0, 1} /\ (served'[v] = 1 => Ready(v)')
    BY <1>3, <1>4 DEF CInv, Waiting
  <2>3. ASSUME NEW o \in left', Enters(o)
        PROVE  served'[o.arg] = 0 /\ \A k \in DOMAIN waiters' : waiters'[k] # o.arg
    <3>1. o \in left /\ o.arg # w /\ o.arg \in DOMAIN Waiters
      BY <2>3, OpsAssumption DEF Apart, CInv, Types
    <3>2. served[o.arg] = 0 /\ \A k \in DOMAIN waiters : waiters[k] # o.arg
      BY <2>3, <3>1 DEF CInv, Waiting
    <3>3. QED
      BY <1>2, <1>3, <3>1, <3>2
  <2>4. QED
    BY <1>1, <2>1, <2>2, <2>3 DEF Waiting, Single
<1>6. Watched'
  <2>1. \A k \in DOMAIN waiters' : Ready(waiters'[k]) => Seen(stack', waiters'[k])
    BY <1>2
  <2>2. ASSUME NEW k \in DOMAIN waiters', Waiters[waiters'[k]] \subseteq components'
        PROVE  \E th \in Threads : \E j \in DOMAIN stack'[th] : Looks(stack'[th][j], waiters'[k])
    <3>1. Waiters[waiters'[k]] \subseteq components
      BY <2>2
    <3>2. Seen(stack', waiters'[k])
      BY <2>1, <3>1 DEF Ready
    <3>3. QED
      BY <3>2 DEF Seen
  <2>3. QED
    BY <2>2 DEF Watched, Ready
<1>7. log' \in Seq(Events) /\ (starting_up => Silent(log'))
  BY Told DEF Events
<1>8. \A v \in DOMAIN Waiters : served[v] = 1 => served'[v] = 1
  BY <1>3
<1>9. QED
  BY <1>1, <1>3, <1>5, <1>6, <1>7, <1>8, RegistryStep

LEMMA SoundOne ==
  ASSUME NEW hs, NEW sv, NEW up, NEW su, NEW stk, Sound(stk, hs, sv, up, su),
         NEW th \in Threads, NEW s, Whole(s, hs, sv, up, su)
  PROVE  Sound([stk EXCEPT ![th] = s], hs, sv, up, su)
<1>1. s \in Seq(FrameT)
  BY DEF Whole
<1>2. QED
  BY <1>1 DEF Sound

(* The times the waiters were served, when w is served once more.          *)
Served(w) == [served EXCEPT ![w] = @ + 1]
LEMMA ServedMore ==
  ASSUME CInv, NEW w \in DOMAIN Waiters, served[w] = 0
  PROVE  /\ Served(w)[w] = 1 /\ \A v \in DOMAIN Sinks : served[v] = 1 => Served(w)[v] = 1
         /\ Sound(stack, handlers, Served(w), HasStarted, starting_up)
<1>1. served \in [DOMAIN Waiters -> Nat]
  BY DEF CInv, Types
<1>2. Served(w)[w] = 1
  BY <1>1 DEF Served
<1>3. \A v \in DOMAIN Sinks : served[v] = 1 => Served(w)[v] = 1
  BY <1>1, SinksAssumption DEF Served
<1>4. QED
  BY <1>2, <1>3, SoundHere, SoundMono

LEMMA EntersFacts ==
  ASSUME CInv, NEW th, NEW o, MayCall(th, o), Enters(o)
  PROVE  /\ o \in left /\ o.arg \in DOMAIN Waiters /\ served[o.arg] = 0
         /\ \A k \in DOMAIN waiters : waiters[k] # o.arg
         /\ \A q \in left' : Enters(q) => q.arg # o.arg
<1>1. o \in left /\ left' = left \ {o} /\ program \in Programs /\ left \subseteq program.ops
  BY DEF MayCall, CInv, Types
<1>2. o.arg \in DOMAIN Waiters /\ \A q \in program.ops : Enters(q) /\ q.arg = o.arg => q = o
  BY <1>1, OpsAssumption
<1>3. served[o.arg] = 0 /\ \A k \in DOMAIN waiters : waiters[k] # o.arg
  BY <1>1 DEF CInv, Waiting
<1>4. QED
  BY <1>1, <1>2, <1>3

LEMMA AppendedOne ==
  ASSUME NEW S, NEW s \in Seq(S), NEW w \in S
  PROVE  /\ Append(s, w) \in Seq(S) /\ Len(s) + 1 \in DOMAIN Append(s, w) /\ Append(s, w)[Len(s) + 1] = w
         /\ \A k \in DOMAIN Append(s, w) : k = Len(s) + 1 \/ (k \in DOMAIN s /\ Append(s, w)[k] = s[k])
  OBVIOUS

LEMMA SingleOn ==
  ASSUME NEW S, NEW s \in Seq(S), NEW w \in S, Single(s), \A k \in DOMAIN s : s[k] # w
  PROVE  Single(Append(s, w))
  BY AppendedOne DEF Single

LEMMA call_when_readyKeeps ==
  ASSUME CInv, NEW th \in Threads, NEW o, call_when_ready(th, o)
  PROVE  CInv'
<1> DEFINE w == o.arg
           list == Append(waiters, w)
<1>1. MayCall(th, o) /\ Enters(o) /\ log' = log /\ components' = components
  BY DEF call_when_ready, Enters, Awaits, listen_to_dependencies
<1>2. Apart
  BY <1>1 DEF call_when_ready, MayCall, Apart
<1>3. /\ w \in DOMAIN Waiters /\ served[w] = 0 /\ (\A k \in DOMAIN waiters : waiters[k] # w)
      /\ \A q \in left' : Enters(q) => q.arg # w
  BY <1>1, EntersFacts
<1>4. waiters \in Seq(DOMAIN Waiters) /\ Single(waiters)
  BY DEF CInv, Types, Waiting, Single
<1>5. /\ list \in Seq(DOMAIN Waiters) /\ Single(list) /\ Len(waiters) + 1 \in DOMAIN list /\ list[Len(waiters) + 1] = w
      /\ \A k \in DOMAIN list : list[k] = w \/ (k \in DOMAIN waiters /\ list[k] = waiters[k])
  BY <1>3, <1>4, AppendedOne, SingleOn
<1>6. stack[th] # <<>> /\ stack \in [Threads -> Seq(FrameT)]
  BY <1>1 DEF MayCall, Running, Busy, CInv, Stacks, Sound
<1>7. CASE Ready(w)
  <2> DEFINE s == Append(stack[th], Callback(w))
  <2>1. waiters' = Taken(list, w) /\ served' = Served(w) /\ stack' = [stack EXCEPT ![th] = s]
    BY <1>7 DEF call_when_ready, _try_waiter, Served
  <2>2. Served(w)[w] = 1 /\ Sound(stack, handlers, Served(w), HasStarted, starting_up)
    BY <1>3, ServedMore
  <2>3. Whole(stack[th], handlers, Served(w), HasStarted, starting_up)
    BY <2>2 DEF Sound
  <2>4. /\ Callback(w) \in FrameT /\ FrameInv(Callback(w), handlers, Served(w), HasStarted, starting_up)
        /\ ~IsHandler(Callback(w))
    BY <1>3, <2>2, CallbackOK
  <2>5. Whole(s, handlers, Served(w), HasStarted, starting_up) /\ Keeps(stack[th], s)
    BY <1>6, <2>3, <2>4, WholePush
  <2> HIDE DEF s
  <2>6. Sound(stack', handlers, Served(w), HasStarted, starting_up) /\ KeepsAll(stack, stack')
    BY <2>1, <2>2, <2>5, OneStack
  <2>7. \A k \in DOMAIN waiters : waiters[k] # w /\ Ready(waiters[k]) => Seen(stack', waiters[k])
    BY <2>6, WatchedSeen, SeenKept DEF CInv
  <2>8. served' = [served EXCEPT ![w] = @ + 1]
    BY <2>1 DEF Served
  <2> HIDE DEF list, w
  <2>9. \A k \in DOMAIN list : list[k] = w \/ \E j \in DOMAIN waiters : list[k] = waiters[j]
    BY <1>5
  <2>10. Sound(stack', handlers, served', HasStarted, starting_up)
    BY <2>1, <2>6
  <2>11. waiters' = Taken(list, w)
    BY <2>1
  <2>12. PICK m \in DOMAIN list : list[m] = w
    BY <1>5
  <2>13. list \in Seq(DOMAIN Waiters) /\ Single(list)
    BY <1>5
  <2>14. QED
    BY <1>1, <1>2, <1>3, <1>7, <2>7, <2>8, <2>9, <2>10, <2>11, <2>12, <2>13, ServeStep
<1>8. CASE ~Ready(w)
  <2>1. waiters' = list /\ UNCHANGED <<stack, served>>
    BY <1>8 DEF call_when_ready
  <2> HIDE DEF list, w
  <2>2. Waiting'
    <3>1. \A v : Ready(v)' <=> Ready(v)
      BY <1>1 DEF Ready
    <3>2. \A k \in DOMAIN waiters' : served[waiters'[k]] = 0
      BY <1>3, <1>5, <2>1 DEF CInv, Waiting
    <3>3. \A q \in left' : Enters(q) => served[q.arg] = 0 /\ \A k \in DOMAIN waiters' : waiters'[k] # q.arg
      BY <1>2, <1>3, <1>5, <2>1 DEF CInv, Waiting, Apart
    <3>4. QED
      BY <1>5, <2>1, <3>1, <3>2, <3>3 DEF CInv, Waiting, Single
  <2>3. Watched'
    <3> SUFFICES ASSUME NEW k \in DOMAIN list, Waiters[list[k]] \subseteq components
                 PROVE  Seen(stack, list[k])
      BY <1>1, <2>1 DEF Watched, Ready, Seen
    <3>1. list[k] # w
      BY <1>8 DEF Ready
    <3>2. k \in DOMAIN waiters /\ list[k] = waiters[k] /\ Ready(waiters[k])
      BY <1>5, <3>1 DEF Ready
    <3>3. QED
      BY <3>2, WatchedSeen DEF CInv
  <2>4. Sound(stack', handlers, served', HasStarted, starting_up)
    BY <2>1, SoundHere
  <2>5. /\ waiters' \in Seq(DOMAIN Waiters) /\ served' \in [DOMAIN Waiters -> Nat]
        /\ \A v \in DOMAIN Waiters : served[v] = 1 => served'[v] = 1
    BY <1>5, <2>1 DEF CInv, Types
  <2>6. log' \in Seq(Events) /\ (starting_up => Silent(log'))
    BY <1>1, Told DEF Events
  <2>7. QED
    BY <1>2, <2>2, <2>3, <2>4, <2>5, <2>6, RegistryStep
<1>9. QED
  BY <1>7, <1>8

(* A step of _try_waiters that serves nobody.                              *)
LEMMA PassStep ==
  ASSUME CInv, UNCHANGED <<program, left, boot, at, registry, revent, state, history>>,
         NEW th \in Threads, NEW s, Now(s), SetStack(th, s),
         \A k \in DOMAIN waiters : Ready(waiters[k]) => Seen(stack', waiters[k])
  PROVE  CInv'
<1>1. Apart /\ UNCHANGED <<components, waiters, served, log>>
  BY DEF Apart, registry, history
<1>2. log' \in Seq(Events) /\ (starting_up => Silent(log'))
  BY <1>1, Told DEF Events
<1>3. stack' = [stack EXCEPT ![th] = s] /\ Whole(s, handlers, served, HasStarted, starting_up)
  BY DEF SetStack, Now
<1>4. Sound(stack', handlers, served', HasStarted, starting_up)
  BY <1>1, <1>3, SoundHere, SoundOne
<1>5. Waiting'
  <2>1. \A v : Ready(v)' <=> Ready(v)
    BY <1>1 DEF Ready
  <2>2. QED
    BY <1>1, <2>1 DEF CInv, Waiting
<1>6. Watched'
  BY <1>1 DEF Watched, Ready, Seen
<1>7. waiters' \in Seq(DOMAIN Waiters) /\ served' \in [DOMAIN Waiters -> Nat]
  BY <1>1 DEF CInv, Types
<1>8. \A v \in DOMAIN Waiters : served[v] = 1 => served'[v] = 1
  BY <1>1
<1>9. QED
  BY <1>1, <1>2, <1>4, <1>5, <1>6, <1>7, <1>8, RegistryStep

(* The frame of _try_waiters on top of th is replaced by f.                *)
LEMMA TryTop ==
  ASSUME CInv, NEW th \in Threads, Running(th, "_try_waiters"), NEW f \in TryT
  PROVE  /\ Now(Append(Front(stack[th]), f)) /\ Append(Front(stack[th]), f) \in Seq(FrameT)
         /\ Keeps(Front(stack[th]), Append(Front(stack[th]), f))
         /\ Len(stack[th]) \in DOMAIN Append(Front(stack[th]), f)
         /\ Append(Front(stack[th]), f)[Len(stack[th])] = f
<1> DEFINE s == stack[th]
<1>1. s # <<>> /\ Top(th).fn = "_try_waiters"
  BY DEF Running, Busy
<1>2. Now(s) /\ s \in Seq(FrameT) /\ Top(th) = Last(s) /\ Front(s) \in Seq(FrameT)
  BY <1>1, TopFrame
<1>3. f \in FrameT /\ ~IsHandler(f) /\ f.fn = "_try_waiters" /\ FrameNow(f)
  BY TryOK DEF FrameNow
<1>4. Now(Append(Front(s), f))
  BY <1>1, <1>2, <1>3, TopNow
<1>5. Len(Front(s)) = Len(s) - 1 /\ Len(s) \in Nat \ {0}
  BY <1>1, <1>2, FrontAndLast
<1> HIDE DEF s
<1>6. Append(Front(s), f) \in Seq(FrameT) /\ Len(Front(s)) + 1 = Len(s)
  BY <1>2, <1>3, <1>5
<1>7. Keeps(Front(s), Append(Front(s), f))
  BY <1>2, <1>3 DEF Keeps
<1>8. Len(s) \in DOMAIN Append(Front(s), f) /\ Append(Front(s), f)[Len(s)] = f
  BY <1>2, <1>3, <1>6
<1>9. QED
  BY <1>4, <1>6, <1>7, <1>8 DEF s

LEMMA TopTries ==
  ASSUME CInv, NEW th \in Threads, Running(th, "_try_waiters")
  PROVE  /\ Top(th) \in TryT /\ Top(th).todo \in Seq(DOMAIN Waiters) /\ Top(th).changed \in BOOLEAN
         /\ stack \in [Threads -> Seq(FrameT)] /\ stack[th] # <<>> /\ stack[th] \in Seq(FrameT)
         /\ Top(th) = Last(stack[th]) /\ Now(Front(stack[th])) /\ Front(stack[th]) \in Seq(FrameT)
<1>1. stack[th] # <<>> /\ Top(th).fn = "_try_waiters"
  BY DEF Running, Busy
<1>2. /\ Top(th) \in FrameT /\ Top(th) = Last(stack[th]) /\ Now(Front(stack[th]))
      /\ Front(stack[th]) \in Seq(FrameT) /\ stack[th] \in Seq(FrameT)
  BY <1>1, TopFrame
<1>3. Top(th) \in TryT
  BY <1>1, <1>2, FrameKinds
<1>4. Top(th).todo \in Seq(DOMAIN Waiters) /\ Top(th).changed \in BOOLEAN
  BY <1>3 DEF TryT
<1>5. stack \in [Threads -> Seq(FrameT)]
  BY DEF CInv, Stacks, Sound
<1>6. QED
  BY <1>1, <1>2, <1>3, <1>4, <1>5

LEMMA WaitersPassKeeps ==
  ASSUME CInv, NEW th \in Threads, WaitersPass(th)
  PROVE  CInv'
<1>1. /\ Running(th, "_try_waiters") /\ Top(th).todo = <<>>
      /\ UNCHANGED <<program, left, boot, at, registry, revent, state, history>>
  BY DEF WaitersPass
<1>2. /\ Top(th) \in TryT /\ stack \in [Threads -> Seq(FrameT)] /\ stack[th] # <<>>
      /\ stack[th] \in Seq(FrameT) /\ Top(th) = Last(stack[th])
      /\ Now(Front(stack[th])) /\ Front(stack[th]) \in Seq(FrameT)
  BY <1>1, TopTries
<1>3. waiters \in Seq(DOMAIN Waiters)
  BY DEF CInv, Types
<1>4. CASE Top(th).changed
  <2> DEFINE f == [Top(th) EXCEPT !.todo = waiters, !.changed = FALSE]
             s == Append(Front(stack[th]), f)
  <2>1. SetStack(th, s)
    BY <1>4 DEF WaitersPass
  <2>2. f \in TryT /\ f.todo = waiters
    BY <1>2, <1>3 DEF TryT
  <2> HIDE DEF f
  <2>3. Now(s) /\ s \in Seq(FrameT) /\ Len(stack[th]) \in DOMAIN s /\ s[Len(stack[th])] = f
    BY <1>1, <2>2, TryTop
  <2> HIDE DEF s
  <2>4. stack'[th] = s
    BY <1>2, <2>1 DEF SetStack
  <2>5. \A k \in DOMAIN waiters : Looks(f, waiters[k])
    BY <2>2 DEF Looks
  <2>6. \A k \in DOMAIN waiters : Ready(waiters[k]) => Seen(stack', waiters[k])
    BY <2>3, <2>4, <2>5 DEF Seen
  <2>7. QED
    BY <1>1, <2>1, <2>3, <2>6, PassStep
<1>5. CASE ~Top(th).changed
  <2> DEFINE s == Front(stack[th])
  <2>1. SetStack(th, s)
    BY <1>5 DEF WaitersPass
  <2>2. \A v : ~Looks(Last(stack[th]), v)
    BY <1>1, <1>2, <1>5 DEF Looks
  <2>3. Now(s) /\ s \in Seq(FrameT) /\ Keeps(s, s)
    BY <1>2 DEF Keeps
  <2>4. ASSUME NEW v, Seen(stack, v) PROVE Seen([stack EXCEPT ![th] = s], v)
    BY <1>2, <2>2, <2>3, <2>4, SeenOn
  <2>5. \A k \in DOMAIN waiters : Ready(waiters[k]) => Seen(stack', waiters[k])
    BY <2>1, <2>4, WatchedSeen DEF CInv, SetStack
  <2> HIDE DEF s
  <2>6. QED
    BY <1>1, <2>1, <2>3, <2>5, PassStep
<1>6. QED
  BY <1>4, <1>5

LEMMA WaitersNextKeeps ==
  ASSUME CInv, NEW th \in Threads, WaitersNext(th)
  PROVE  CInv'
<1> DEFINE f == Top(th)
           w == Head(f.todo)
           f1 == [f EXCEPT !.todo = Rest(f)]
           f2 == [f EXCEPT !.todo = Rest(f), !.changed = TRUE]
           under == Front(stack[th])
<1>1. Running(th, "_try_waiters") /\ f.todo # <<>>
  BY DEF WaitersNext
<1>2. /\ f \in TryT /\ f.todo \in Seq(DOMAIN Waiters) /\ stack \in [Threads -> Seq(FrameT)]
      /\ stack[th] # <<>> /\ stack[th] \in Seq(FrameT) /\ f = Last(stack[th])
  BY <1>1, TopTries
<1>3. waiters \in Seq(DOMAIN Waiters) /\ Single(waiters)
  BY DEF CInv, Types, Waiting, Single
<1>4. /\ Tail(f.todo) \in Seq(DOMAIN Waiters) /\ w = f.todo[1] /\ w \in DOMAIN Waiters
      /\ \A n \in DOMAIN f.todo : n = 1 \/ (n - 1 \in DOMAIN Tail(f.todo) /\ Tail(f.todo)[n - 1] = f.todo[n])
  <2>1. \A s \in Seq(DOMAIN Waiters) : s # <<>> => Head(s) = s[1] /\ s[1] \in DOMAIN Waiters
    OBVIOUS
  <2> HIDE DEF f
  <2>2. QED
    BY <1>1, <1>2, <2>1, TailFacts
<1>5. f1 \in TryT /\ f2 \in TryT /\ f1.todo = Tail(f.todo) /\ f1.changed = f.changed /\ f2.changed
  BY <1>2, <1>4 DEF TryT, Rest
<1>6. CASE Contains(waiters, w) /\ Ready(w)
  <2> DEFINE s2 == Append(under, f2)
             s3 == Append(s2, Callback(w))
  <2>1. /\ waiters' = Taken(waiters, w) /\ served' = [served EXCEPT ![w] = @ + 1]
        /\ stack' = [stack EXCEPT ![th] = s3] /\ log' = log /\ components' = components
    BY <1>6 DEF WaitersNext, _try_waiter
  <2>2. Apart
    BY DEF WaitersNext, Apart
  <2> HIDE DEF f2, f1, w
  <2>3. /\ Now(s2) /\ s2 \in Seq(FrameT) /\ Keeps(under, s2)
        /\ Len(stack[th]) \in DOMAIN s2 /\ s2[Len(stack[th])] = f2
    BY <1>1, <1>5, TryTop
  <2>4. PICK m \in DOMAIN waiters : waiters[m] = w
    <3>1. Contains(waiters, w)
      BY <1>6
    <3>2. \E m \in DOMAIN waiters : waiters[m] = w
      BY <3>1, <1>3 DEF Contains
    <3>3. QED
      BY <3>2
  <2>5. served[w] = 0 /\ \A q \in left : Enters(q) => q.arg # w
    BY <2>4 DEF CInv, Waiting
  <2>6. Served(w)[w] = 1 /\ Sound(stack, handlers, Served(w), HasStarted, starting_up)
        /\ \A v \in DOMAIN Sinks : served[v] = 1 => Served(w)[v] = 1
    BY <1>4, <2>5, ServedMore
  <2>7. /\ Callback(w) \in FrameT /\ FrameInv(Callback(w), handlers, Served(w), HasStarted, starting_up)
        /\ ~IsHandler(Callback(w))
    BY <1>4, <2>6, CallbackOK
  <2> HIDE DEF s2
  <2>8. Whole(s2, handlers, Served(w), HasStarted, starting_up)
    <3>1. Whole(s2, handlers, served, HasStarted, starting_up)
      BY <2>3 DEF Now
    <3>2. QED
      BY <3>1, <2>6, WholeMono
  <2>9. s2 # <<>>
    BY <2>3
  <2>10. Whole(s3, handlers, Served(w), HasStarted, starting_up) /\ Keeps(s2, s3)
    BY <2>7, <2>8, <2>9, WholePush
  <2>11. Keeps(under, s3) /\ s3 \in Seq(FrameT)
    BY <2>3, <2>7, <2>10, KeepsOn
  <2> HIDE DEF s3
  <2>12. Len(stack[th]) \in DOMAIN s3 /\ s3[Len(stack[th])] = f2
    BY <1>5, <2>3, <2>10 DEF Keeps
  <2>13. \A v : Looks(f2, v)
    BY <1>5 DEF Looks
  <2>14. Sound(stack', handlers, served', HasStarted, starting_up)
    BY <2>1, <2>6, <2>10, SoundOne DEF Served
  <2>15. \A v : Seen(stack', v)
    <3>1. stack'[th] = s3
      BY <1>2, <2>1
    <3>2. QED
      BY <3>1, <2>12, <2>13 DEF Seen
  <2>16. \A o \in left' : Enters(o) => o.arg # w
    BY <2>2, <2>5 DEF Apart
  <2>17. w \in DOMAIN Waiters /\ Ready(w)
    BY <1>4, <1>6
  <2>18. \A k \in DOMAIN waiters : waiters[k] = w \/ \E j \in DOMAIN waiters : waiters[k] = waiters[j]
    OBVIOUS
  <2>19. \A k \in DOMAIN waiters : waiters[k] # w /\ Ready(waiters[k]) => Seen(stack', waiters[k])
    BY <2>15
  <2>20. served' = [served EXCEPT ![w] = @ + 1] /\ waiters' = Taken(waiters, w) /\ log' = log /\ components' = components
    BY <2>1
  <2>21. QED
    BY <1>3, <2>2, <2>4, <2>5, <2>14, <2>16, <2>17, <2>18, <2>19, <2>20, ServeStep
<1>7. CASE ~(Contains(waiters, w) /\ Ready(w))
  <2> DEFINE s2 == Append(under, f1)
  <2>1. /\ SetStack(th, s2)
        /\ UNCHANGED <<program, left, boot, at, registry, revent, state, history>>
    BY <1>7 DEF WaitersNext, registry, history
  <2> HIDE DEF f2, f1, w
  <2>2. /\ Now(s2) /\ s2 \in Seq(FrameT) /\ Keeps(under, s2)
        /\ Len(stack[th]) \in DOMAIN s2 /\ s2[Len(stack[th])] = f1
    BY <1>1, <1>5, TryTop
  <2> HIDE DEF s2
  <2>3. ASSUME NEW k \in DOMAIN waiters, Ready(waiters[k]), Looks(f, waiters[k])
        PROVE  Looks(f1, waiters[k])
    <3>1. waiters[k] # w
      <4>1. Contains(waiters, waiters[k])
        BY <1>3 DEF Contains
      <4>2. QED
        BY <1>7, <2>3, <4>1
    <3>2. QED
      BY <1>4, <1>5, <2>3, <3>1 DEF Looks
  <2> HIDE DEF f
  <2>4. ASSUME NEW k \in DOMAIN waiters, Ready(waiters[k]) PROVE Seen(stack', waiters[k])
    <3>1. Seen(stack, waiters[k])
      BY <2>4, WatchedSeen DEF CInv
    <3>2. Looks(Last(stack[th]), waiters[k]) => \E j \in DOMAIN s2 : Looks(s2[j], waiters[k])
      BY <1>2, <2>2, <2>3, <2>4
    <3>3. Seen([stack EXCEPT ![th] = s2], waiters[k])
      BY <1>2, <2>2, <3>1, <3>2, SeenOn
    <3>4. QED
      BY <2>1, <3>3 DEF SetStack
  <2>5. QED
    BY <2>1, <2>2, <2>4, PassStep
<1>8. QED
  BY <1>6, <1>7

-----------------------------------------------------------------------------
(* Places can be put in order.                                             *)
Ordered(f, S) ==
  /\ f \in [1..Cardinality(S) -> S]
  /\ \A i \in S : \E k \in DOMAIN f : f[k] = i
  /\ \A j, k \in DOMAIN f : j < k => f[j] < f[k]

LEMMA OrderStep ==
  ASSUME NEW k \in Nat, NEW S \in SUBSET (1..(k + 1)), k + 1 \in S,
         NEW f, Ordered(f, S \ {k + 1})
  PROVE  \E g : Ordered(g, S)
<1> DEFINE R == S \ {k + 1}
<1> DEFINE c == Cardinality(R)
<1>0. IsFiniteSet(1..(k + 1))
  BY FS_Interval
<1>1. IsFiniteSet(S) /\ R \in SUBSET (1..k)
  <2>1. R \in SUBSET (1..k)
    OBVIOUS
  <2>2. IsFiniteSet(S)
    BY <1>0, FS_Subset
  <2>3. QED
    BY <2>1, <2>2
<1>2. IsFiniteSet(R)
  BY <1>1, FS_Subset
<1>3. c \in Nat /\ Cardinality(S) \in Nat
  BY <1>1, <1>2, FS_CardinalityType
<1>4. Cardinality(R) = Cardinality(S) - 1
  BY <1>1, FS_RemoveElement
<1>5. Cardinality(S) = c + 1
  BY <1>3, <1>4
<1> DEFINE g == [x \in 1..(c + 1) |-> IF x = c + 1 THEN k + 1 ELSE f[x]]
<1>6. f \in [1..c -> R] /\ (\A i \in R : \E x \in 1..c : f[x] = i)
      /\ (\A i, j \in 1..c : i < j => f[i] < f[j])
  BY DEF Ordered
<1> HIDE DEF c, R
<1>7. \A x \in 1..(c + 1) : x # c + 1 => x \in 1..c
  BY <1>3
<1>8. R \subseteq S /\ \A i \in S : i = k + 1 \/ i \in R
  BY DEF R
<1>9. g \in [1..(c + 1) -> S]
  BY <1>6, <1>7, <1>8
<1>10. \A i \in S : \E x \in 1..(c + 1) : g[x] = i
  <2> TAKE i \in S
  <2>1. CASE i = k + 1
    BY <2>1, <1>3
  <2>2. CASE i \in R
    <3>1. PICK x \in 1..c : f[x] = i
      BY <2>2, <1>6
    <3>2. x \in 1..(c + 1) /\ x # c + 1
      BY <1>3
    <3>3. QED
      BY <3>1, <3>2
  <2>3. QED
    BY <2>1, <2>2, <1>8
<1>11. ASSUME NEW i \in 1..(c + 1), NEW j \in 1..(c + 1), i < j
       PROVE  g[i] < g[j]
  <2>1. i \in 1..c
    BY <1>3, <1>11
  <2>2. f[i] \in 1..k
    BY <2>1, <1>6, <1>1
  <2>3. CASE j = c + 1
    BY <2>1, <2>2, <2>3, <1>11
  <2>4. CASE j \in 1..c
    BY <2>1, <2>4, <1>6, <1>3, <1>11
  <2>5. QED
    BY <2>3, <2>4, <1>7
<1>12. DOMAIN g = 1..(c + 1)
  OBVIOUS
<1> HIDE DEF g
<1>13. Ordered(g, S)
  BY <1>9, <1>10, <1>11, <1>12, <1>5 DEF Ordered
<1>14. QED
  BY <1>13

LEMMA OrderExists ==
  ASSUME NEW n \in Nat, NEW S \in SUBSET (1..n)
  PROVE  \E f : Ordered(f, S)
<1> DEFINE Good(k) == \A T \in SUBSET (1..k) : \E f : Ordered(f, T)
<1> DEFINE Bad == {k \in Nat : ~Good(k)}
<1>1. SUFFICES Bad = {}
  <2>1. Good(n)
    BY <1>1
  <2>2. QED
    BY <2>1
<1>2. SUFFICES ASSUME Bad # {}
      PROVE  FALSE
  OBVIOUS
<1>3. Bad \subseteq Nat
  OBVIOUS
<1>4. PICK k \in Bad : \A y \in Bad : k <= y
  BY <1>2, <1>3, FirstPlace
<1>5. Good(0)
  <2> SUFFICES ASSUME NEW T \in SUBSET (1..0)
               PROVE  \E f : Ordered(f, T)
    OBVIOUS
  <2>1. T = {}
    OBVIOUS
  <2>2. Cardinality(T) = 0
    BY <2>1, FS_EmptySet
  <2> DEFINE f == [x \in 1..0 |-> x]
  <2>3. f \in [1..0 -> {}] /\ DOMAIN f = 1..0 /\ 1..0 = {}
    OBVIOUS
  <2> HIDE DEF f
  <2>4. Ordered(f, T)
    BY <2>1, <2>2, <2>3 DEF Ordered
  <2>5. QED
    BY <2>4
<1>6. k \in Nat /\ ~Good(k)
  OBVIOUS
<1>7. k # 0
  BY <1>5, <1>6
<1>8. k - 1 \in Nat /\ (k - 1) + 1 = k /\ ~(k <= k - 1)
  BY <1>6, <1>7
<1>9. Good(k - 1)
  BY <1>4, <1>8
<1>10. PICK T \in SUBSET (1..k) : ~\E f : Ordered(f, T)
  BY <1>6
<1> HIDE DEF Bad
<1>11. CASE k \in T
  <2>1. T \ {k} \in SUBSET (1..(k - 1))
    BY <1>6, <1>7
  <2>2. PICK f : Ordered(f, T \ {k})
    BY <2>1, <1>9
  <2>3. T \in SUBSET (1..((k - 1) + 1)) /\ (k - 1) + 1 \in T /\ Ordered(f, T \ {(k - 1) + 1})
    BY <1>8, <1>11, <2>2
  <2>4. QED
    BY <2>3, <1>8, <1>10, OrderStep
<1>12. CASE k \notin T
  <2>1. T \in SUBSET (1..(k - 1))
    BY <1>6, <1>7, <1>12
  <2>2. QED
    BY <2>1, <1>9, <1>10
<1>13. QED
  BY <1>11, <1>12
(* As many places as a one-to-one map reaches.                             *)
LEMMA SameCount ==
  ASSUME NEW A, NEW B, IsFiniteSet(A), NEW f \in [A -> B],
         \A x, y \in A : f[x] = f[y] => x = y, \A b \in B : \E x \in A : f[x] = b
  PROVE  IsFiniteSet(B) /\ Cardinality(B) = Cardinality(A)
<1>1. f \in Bijection(A, B)
  BY DEF Bijection, Injection, Surjection, IsInjective
<1>2. ExistsBijection(A, B)
  BY <1>1 DEF ExistsBijection
<1>3. QED
  BY <1>2, FS_Bijection

LEMMA CountUpTo == ASSUME NEW n \in Nat PROVE IsFiniteSet(1..n) /\ Cardinality(1..n) = n
  BY FS_Interval

LEMMA OrderedFacts ==
  ASSUME NEW n \in Nat, NEW S \in SUBSET (1..n), NEW f, Ordered(f, S)
  PROVE  /\ Cardinality(S) \in Nat /\ IsFiniteSet(S) /\ DOMAIN f = 1..Cardinality(S)
         /\ f \in [1..Cardinality(S) -> S]
         /\ \A j, k \in DOMAIN f : (f[j] = f[k] => j = k) /\ (f[j] < f[k] <=> j < k)
                                   /\ (f[j] <= f[k] <=> j <= k)
<1>1. IsFiniteSet(1..n)
  BY FS_Interval
<1>2. IsFiniteSet(S)
  BY <1>1, FS_Subset
<1>3. Cardinality(S) \in Nat
  BY <1>2, FS_CardinalityType
<1>4. f \in [1..Cardinality(S) -> S] /\ DOMAIN f = 1..Cardinality(S)
      /\ \A j, k \in DOMAIN f : j < k => f[j] < f[k]
  BY DEF Ordered
<1>5. ASSUME NEW j \in DOMAIN f, NEW k \in DOMAIN f
      PROVE  (f[j] = f[k] => j = k) /\ (f[j] < f[k] <=> j < k) /\ (f[j] <= f[k] <=> j <= k)
  <2>1. j \in Nat /\ k \in Nat /\ f[j] \in Nat /\ f[k] \in Nat
    <3>1. j \in 1..Cardinality(S) /\ k \in 1..Cardinality(S)
      BY <1>4, <1>5
    <3>2. f[j] \in S /\ f[k] \in S
      BY <3>1, <1>4
    <3>3. \A x \in S : x \in Nat
      OBVIOUS
    <3>4. j \in Nat /\ k \in Nat
      BY <3>1
    <3>5. QED
      BY <3>2, <3>3, <3>4
  <2>2. (j < k => f[j] < f[k]) /\ (k < j => f[k] < f[j]) /\ (j = k => f[j] = f[k])
    BY <1>4, <1>5
  <2>3. QED
    BY <2>1, <2>2
<1>6. QED
  BY <1>2, <1>3, <1>4, <1>5

(* The k-th place has k places up to it.                                   *)
UpTo(S, x) == {j \in S : j <= x}
Below(S, x) == {j \in S : j < x}

LEMMA Rank ==
  ASSUME NEW n \in Nat, NEW S \in SUBSET (1..n), NEW f, Ordered(f, S), NEW k \in DOMAIN f
  PROVE  Cardinality(UpTo(S, f[k])) = k
<1>1. /\ Cardinality(S) \in Nat /\ DOMAIN f = 1..Cardinality(S) /\ f \in [1..Cardinality(S) -> S]
      /\ \A i, j \in DOMAIN f : (f[i] = f[j] => i = j) /\ (f[i] < f[j] <=> i < j) /\ (f[i] <= f[j] <=> i <= j)
  BY OrderedFacts
<1>2. \A i \in S : \E j \in DOMAIN f : f[j] = i
  BY DEF Ordered
<1>3. k \in Nat /\ k - 1 \in Nat /\ \A j \in 1..k : j \in DOMAIN f /\ j <= k
  BY <1>1
<1>5. Cardinality(UpTo(S, f[k])) = k
  <2> DEFINE T == UpTo(S, f[k])
  <2> USE DEF UpTo
  <2> DEFINE g == [j \in 1..k |-> f[j]]
  <2>1. g \in [1..k -> T]
    BY <1>1, <1>3
  <2>2. \A x, y \in 1..k : g[x] = g[y] => x = y
    BY <1>1, <1>3
  <2>3. \A b \in T : \E x \in 1..k : g[x] = b
    <3> TAKE b \in T
    <3>1. PICK x \in DOMAIN f : f[x] = b
      BY <1>2
    <3>2. x <= k
      BY <3>1, <1>1
    <3>3. x \in 1..k
      BY <3>2, <1>1, <1>3
    <3>4. QED
      BY <3>1, <3>3
  <2>4. IsFiniteSet(1..k) /\ Cardinality(1..k) = k
    BY <1>3, CountUpTo
  <2> HIDE DEF T, g, UpTo
  <2>5. Cardinality(T) = k
    BY <2>1, <2>2, <2>3, <2>4, SameCount
  <2>6. QED
    BY <2>5 DEF T
<1>7. QED
  BY <1>5

LEMMA RankBelow ==
  ASSUME NEW n \in Nat, NEW S \in SUBSET (1..n), NEW f, Ordered(f, S), NEW k \in 1..Cardinality(S)
  PROVE  Cardinality(Below(S, f[k])) = k - 1
<1>1. /\ Cardinality(S) \in Nat /\ DOMAIN f = 1..Cardinality(S) /\ f \in [1..Cardinality(S) -> S]
      /\ \A i, j \in DOMAIN f : (f[i] = f[j] => i = j) /\ (f[i] < f[j] <=> i < j) /\ (f[i] <= f[j] <=> i <= j)
  BY OrderedFacts
<1>2. \A i \in S : \E j \in DOMAIN f : f[j] = i
  BY DEF Ordered
<1>3. k \in Nat /\ k - 1 \in Nat /\ \A j \in 1..k : j \in DOMAIN f /\ j <= k
  BY <1>1
<1>4. \A j \in 1..(k - 1) : j \in DOMAIN f /\ j < k
  BY <1>1
<1>6. Cardinality(Below(S, f[k])) = k - 1
  <2> DEFINE T == Below(S, f[k])
  <2> USE DEF Below
  <2> DEFINE g == [j \in 1..(k - 1) |-> f[j]]
  <2>1. g \in [1..(k - 1) -> T]
    BY <1>1, <1>4
  <2>2. \A x, y \in 1..(k - 1) : g[x] = g[y] => x = y
    BY <1>1, <1>4
  <2>3. \A b \in T : \E x \in 1..(k - 1) : g[x] = b
    <3> TAKE b \in T
    <3>1. PICK x \in DOMAIN f : f[x] = b
      BY <1>2
    <3>2. x < k
      BY <3>1, <1>1
    <3>3. x \in 1..(k - 1)
      BY <3>2, <1>1, <1>3
    <3>4. QED
      BY <3>1, <3>3
  <2> DEFINE m == k - 1
  <2>4. IsFiniteSet(1..m) /\ Cardinality(1..m) = m
    BY <1>3, CountUpTo
  <2>7. g \in [1..m -> T] /\ (\A x, y \in 1..m : g[x] = g[y] => x = y)
        /\ \A b \in T : \E x \in 1..m : g[x] = b
    BY <2>1, <2>2, <2>3
  <2> HIDE DEF T, g, m, Below
  <2>5. Cardinality(T) = m
    BY <2>7, <2>4, SameCount
  <2>6. QED
    BY <2>5 DEF T, m
<1>7. QED
  BY <1>6

in_order(S) == [k \in 1..Cardinality(S) |-> nth(S, k)]

LEMMA InOrder ==
  ASSUME NEW n \in Nat, NEW S \in SUBSET (1..n)
  PROVE  Ordered(in_order(S), S)
<1>1. PICK f : Ordered(f, S)
  BY OrderExists
<1>2. /\ DOMAIN f = 1..Cardinality(S) /\ f \in [1..Cardinality(S) -> S]
      /\ \A j \in S : \E k \in DOMAIN f : f[k] = j
  BY <1>1, OrderedFacts DEF Ordered
<1>3. ASSUME NEW k \in DOMAIN f
      PROVE  in_order(S)[k] = f[k]
  <2> DEFINE P(i) == Cardinality(UpTo(S, i)) = k
  <2>0. ASSUME NEW m \in DOMAIN f PROVE Cardinality(UpTo(S, f[m])) = m
    BY <1>1, <2>0, Rank
  <2>1. f[k] \in S /\ P(f[k])
    BY <2>0, <1>2
  <2>2. ASSUME NEW i \in S, P(i) PROVE i = f[k]
    <3>1. PICK m \in DOMAIN f : f[m] = i
      BY <1>2
    <3>2. Cardinality(UpTo(S, f[m])) = m
      BY <2>0
    <3>3. QED
      BY <3>1, <3>2, <2>2
  <2>3. in_order(S)[k] = CHOOSE i \in S : P(i)
    BY <1>2 DEF in_order, nth, UpTo
  <2> HIDE DEF P
  <2>4. QED
    BY <2>1, <2>2, <2>3
<1>4. in_order(S) = f
  <2> DEFINE c == Cardinality(S)
  <2>0. in_order(S) = [k \in 1..c |-> nth(S, k)]
    BY DEF in_order
  <2>4. DOMAIN f = 1..c
    BY <1>2
  <2> HIDE DEF c
  <2>1. in_order(S) = [k \in DOMAIN f |-> in_order(S)[k]]
    BY <2>0, <2>4
  <2>2. f = [k \in DOMAIN f |-> f[k]]
    BY <1>2
  <2>3. QED
    BY <2>1, <2>2, <1>3
<1>5. QED
  BY <1>1, <1>4

-----------------------------------------------------------------------------
(* What a component is launched with                                       *)

components_at(argv) == in_order(names_in(argv))
Places(argv, w) == {i \in DOMAIN argv : argv[i] = w}
Earlier(argv, n) == {k \in 1..n - 1 : component_order(argv)[k] = component_order(argv)[n]}
Following(argv, i) ==
  {argv[k].option : k \in {j \in i + 1..Len(argv) : \A m \in i + 1..j : ~IsName(argv[m])}}

LEMMA OrderFacts ==
  ASSUME NEW argv \in Seq(Word)
  PROVE  /\ Ordered(components_at(argv), names_in(argv)) /\ names_in(argv) \in SUBSET (1..Len(argv))
         /\ component_order(argv) \in Seq(Word)
         /\ DOMAIN component_order(argv) = 1..Len(component_order(argv))
         /\ DOMAIN components_at(argv) = 1..Len(component_order(argv))
         /\ Len(components_at(argv)) = Len(component_order(argv))
         /\ Len(component_order(argv)) = Cardinality(names_in(argv))
         /\ Len(component_order(argv)) \in Nat
         /\ \A n \in 1..Len(component_order(argv)) :
              /\ components_at(argv)[n] \in 1..Len(argv) /\ IsName(argv[components_at(argv)[n]])
              /\ component_order(argv)[n] = argv[components_at(argv)[n]]
<1> DEFINE p == components_at(argv)
<1> DEFINE c == Cardinality(names_in(argv))
<1> DEFINE o == component_order(argv)
<1>1. DOMAIN argv = 1..Len(argv) /\ Len(argv) \in Nat
  OBVIOUS
<1>2. names_in(argv) \in SUBSET (1..Len(argv))
  BY <1>1 DEF names_in
<1>3. p = in_order(names_in(argv))
  BY DEF components_at
<1>4. Ordered(p, names_in(argv))
  BY <1>1, <1>2, <1>3, InOrder
<1>5. c \in Nat /\ DOMAIN p = 1..c /\ p \in [1..c -> names_in(argv)]
  BY <1>1, <1>2, <1>4, OrderedFacts
<1>6. o = [n \in DOMAIN p |-> argv[p[n]]]
  BY <1>3 DEF component_order, in_order
<1>7. ASSUME NEW n \in 1..c PROVE p[n] \in 1..Len(argv) /\ IsName(argv[p[n]])
  BY <1>5, <1>1 DEF names_in
<1> HIDE DEF p, c, o
<1>8. o = [n \in 1..c |-> argv[p[n]]] /\ \A n \in 1..c : argv[p[n]] \in Word
  BY <1>5, <1>6, <1>7, <1>1
<1>9. o \in Seq(Word) /\ Len(o) = c
  BY <1>8, <1>5
<1>10. p \in Seq(1..Len(argv)) /\ Len(p) = c
  BY <1>5, <1>7
<1>11. DOMAIN o = 1..c /\ \A n \in 1..c : o[n] = argv[p[n]]
  BY <1>8
<1>12. QED
  BY <1>2, <1>4, <1>5, <1>7, <1>9, <1>10, <1>11 DEF p, c, o

(* The components of a word before the n-th are its places before the      *)
(* place of the n-th.                                                      *)
LEMMA PlacesCounted ==
  ASSUME NEW argv \in Seq(Word), NEW n \in 1..Len(component_order(argv))
  PROVE  LET w == component_order(argv)[n]
             i == components_at(argv)[n]
         IN /\ i \in Places(argv, w)
            /\ Places(argv, w) = {j \in names_in(argv) : argv[j] = w}
            /\ Cardinality(Earlier(argv, n)) = Cardinality(Below(Places(argv, w), i))
<1> DEFINE p == components_at(argv)
<1> DEFINE o == component_order(argv)
<1> DEFINE w == o[n]
<1>0. n \in 1..Len(o) /\ Len(argv) \in Nat
  OBVIOUS
<1>1. /\ Ordered(p, names_in(argv)) /\ names_in(argv) \in SUBSET (1..Len(argv))
      /\ DOMAIN p = 1..Len(o) /\ DOMAIN o = 1..Len(o) /\ Len(o) \in Nat
      /\ \A k \in 1..Len(o) : p[k] \in 1..Len(argv) /\ IsName(argv[p[k]]) /\ o[k] = argv[p[k]]
  BY OrderFacts
<1>2. \A j, k \in 1..Len(o) : (p[j] = p[k] => j = k) /\ (p[j] < p[k] <=> j < k)
  BY <1>0, <1>1, OrderedFacts
<1>3. \A i \in names_in(argv) : \E k \in 1..Len(o) : p[k] = i
  BY <1>1 DEF Ordered
<1>4. DOMAIN argv = 1..Len(argv)
  OBVIOUS
<1> HIDE DEF p, o
<1>5. \A i \in Places(argv, w) : i \in 1..Len(argv) /\ argv[i] = w
  BY <1>4 DEF Places
<1>6. \A i \in Places(argv, w) : \E k \in 1..Len(o) : p[k] = i /\ o[k] = w
  <2> TAKE i \in Places(argv, w)
  <2>1. i \in 1..Len(argv) /\ argv[i] = w /\ IsName(w)
    BY <1>0, <1>5, <1>1
  <2>2. i \in names_in(argv)
    BY <2>1, <1>4 DEF names_in
  <2>3. PICK k \in 1..Len(o) : p[k] = i
    BY <2>2, <1>3
  <2>4. QED
    BY <2>1, <2>3, <1>1
<1>7. \A k \in 1..Len(o) : o[k] = w => p[k] \in Places(argv, w)
  BY <1>1, <1>4 DEF Places
<1>8. IsFiniteSet(1..Len(o)) /\ IsFiniteSet(1..Len(argv))
  BY <1>0, <1>1, FS_Interval
<1> DEFINE B == {k \in 1..n - 1 : o[k] = w}
<1> DEFINE C == Below(Places(argv, w), p[n])
<1>11. Cardinality(B) = Cardinality(C)
  <2> DEFINE f == [k \in B |-> p[k]]
  <2>0. \A k \in B : k \in 1..Len(o) /\ k < n /\ o[k] = w
    BY <1>0, <1>1
  <2>1. IsFiniteSet(B)
    <3>1. B \subseteq 1..Len(o)
      BY <2>0
    <3> HIDE DEF B
    <3>2. QED
      BY <3>1, <1>8, FS_Subset
  <2>2. f \in [B -> C]
    <3>1. ASSUME NEW k \in B PROVE p[k] \in C
      <4>1. p[k] \in Places(argv, w)
        BY <2>0, <1>7
      <4>2. p[k] < p[n]
        BY <1>0, <2>0, <1>2
      <4>3. QED
        BY <4>1, <4>2 DEF Below
    <3> HIDE DEF B, C
    <3>2. QED
      BY <3>1
  <2>3. \A x, y \in B : f[x] = f[y] => x = y
    BY <2>0, <1>2
  <2>4. \A b \in C : \E x \in B : f[x] = b
    <3> TAKE b \in C
    <3>1. b \in Places(argv, w) /\ b < p[n]
      BY DEF Below
    <3>2. PICK k \in 1..Len(o) : p[k] = b /\ o[k] = w
      BY <3>1, <1>6
    <3>3. k < n
      BY <1>0, <3>1, <3>2, <1>2
    <3>4. k \in B
      BY <1>0, <3>2, <3>3, <1>1
    <3>5. QED
      BY <3>2, <3>4
  <2> HIDE DEF f, B, C
  <2>5. QED
    BY <2>1, <2>2, <2>3, <2>4, SameCount
<1>12. p[n] \in Places(argv, w)
  BY <1>0, <1>7
<1>13. B = Earlier(argv, n)
  BY DEF Earlier, o
<1>14. Places(argv, w) = {j \in names_in(argv) : argv[j] = w}
  <2>1. IsName(w)
    BY <1>0, <1>1
  <2>2. QED
    BY <2>1 DEF Places, names_in
<1>15. QED
  BY <1>11, <1>12, <1>13, <1>14 DEF p, o

(* The options up to the next component are those before any other name.   *)
LEMMA OptionsFollow ==
  ASSUME NEW argv \in Seq(Word), NEW i \in 1..Len(argv)
  PROVE  curargs(argv, i) = Following(argv, i)
<1> DEFINE later == {j \in names_in(argv) : j > i}
<1> DEFINE e == IF later = {} THEN Len(argv) ELSE nth(later, 1) - 1
<1>0. Len(argv) \in Nat /\ DOMAIN argv = 1..Len(argv)
  OBVIOUS
<1>1. \A j : j \in later <=> j \in 1..Len(argv) /\ IsName(argv[j]) /\ j > i
  BY <1>0 DEF names_in
<1>2. curargs(argv, i) = {argv[k].option : k \in i + 1..e}
  BY DEF curargs
<1> HIDE DEF later
<1>3. ASSUME later # {}
      PROVE  nth(later, 1) \in later /\ \A j \in later : nth(later, 1) <= j
  <2>1. later \in SUBSET (1..Len(argv))
    BY <1>1
  <2> DEFINE f == in_order(later)
  <2> DEFINE c == Cardinality(later)
  <2>2. Ordered(f, later)
    BY <1>0, <2>1, InOrder
  <2>3. c \in Nat /\ DOMAIN f = 1..c /\ f \in [1..c -> later]
        /\ \A j, k \in DOMAIN f : f[j] <= f[k] <=> j <= k
    BY <1>0, <2>1, <2>2, OrderedFacts
  <2>4. \A j \in later : \E k \in 1..c : f[k] = j
    BY <2>2, <2>3 DEF Ordered
  <2>5. f = [k \in 1..c |-> nth(later, k)]
    BY DEF in_order
  <2> HIDE DEF f, c
  <2>6. PICK j \in later : TRUE
    BY <1>3
  <2>7. 1 \in 1..c
    BY <2>3, <2>4, <2>6
  <2>8. f[1] = nth(later, 1)
    BY <2>5, <2>7
  <2>9. f[1] \in later
    BY <2>3, <2>7
  <2>10. \A k \in 1..c : f[1] <= f[k]
    BY <2>3, <2>7
  <2>11. QED
    BY <2>4, <2>8, <2>9, <2>10
<1>4. e \in i..Len(argv)
  <2>1. CASE later = {}
    BY <2>1, <1>0
  <2>2. CASE later # {}
    <3>1. nth(later, 1) \in 1..Len(argv) /\ nth(later, 1) > i
      BY <2>2, <1>1, <1>3
    <3>2. e = nth(later, 1) - 1
      BY <2>2
    <3>3. QED
      BY <3>1, <3>2, <1>0
  <2>3. QED
    BY <2>1, <2>2
<1>5. ASSUME NEW m \in i + 1..e
      PROVE  ~IsName(argv[m])
  <2> SUFFICES ASSUME IsName(argv[m])
               PROVE  FALSE
    OBVIOUS
  <2>1. m \in 1..Len(argv) /\ m > i /\ m <= e
    BY <1>0, <1>4
  <2>2. m \in later
    BY <2>1, <1>1
  <2>3. nth(later, 1) <= m /\ nth(later, 1) \in 1..Len(argv) /\ e = nth(later, 1) - 1
    BY <2>2, <1>1, <1>3
  <2> HIDE DEF e
  <2>4. QED
    BY <2>1, <2>3
<1>6. ASSUME NEW m \in 1..Len(argv), e < m
      PROVE  e + 1 \in i + 1..m /\ IsName(argv[e + 1])
  <2>1. later # {} /\ e = nth(later, 1) - 1
    BY <1>6, <1>0
  <2>2. nth(later, 1) \in 1..Len(argv) /\ IsName(argv[nth(later, 1)])
    BY <2>1, <1>1, <1>3
  <2> HIDE DEF e
  <2>3. e + 1 = nth(later, 1)
    BY <2>1, <2>2
  <2>4. QED
    BY <2>2, <2>3, <1>4, <1>6
<1> HIDE DEF e
<1> DEFINE F == {j \in i + 1..Len(argv) : \A m \in i + 1..j : ~IsName(argv[m])}
<1>10. i + 1..e = F
  <2>1. ASSUME NEW j \in i + 1..e PROVE j \in F
    <3>1. j \in i + 1..Len(argv) /\ \A m \in i + 1..j : m \in i + 1..e
      BY <1>0, <1>4, <2>1
    <3>2. QED
      BY <3>1, <1>5
  <2>2. ASSUME NEW j \in F PROVE j \in i + 1..e
    <3>1. j \in i + 1..Len(argv) /\ \A m \in i + 1..j : ~IsName(argv[m])
      OBVIOUS
    <3>2. j \in 1..Len(argv)
      BY <3>1, <1>0
    <3>3. ~(e < j)
      BY <3>1, <3>2, <1>6
    <3>4. QED
      BY <3>1, <3>2, <3>3, <1>0, <1>4
  <2> HIDE DEF F
  <2>3. QED
    BY <2>1, <2>2
<1>11. Following(argv, i) = {argv[k].option : k \in F}
  BY DEF Following
<1> HIDE DEF F
<1>12. QED
  BY <1>2, <1>10, <1>11

(* The n-th component is launched as its place in the command line asks.   *)
LEMMA InstanceAsked ==
  ASSUME NEW argv \in Seq(Word), NEW n \in 1..Len(component_order(argv)),
         NEW x, x = instance(argv, n)
  PROVE  /\ x.word = component_order(argv)[n] /\ x.number = Cardinality(Earlier(argv, n))
         /\ x.total = Cardinality(Places(argv, x.word))
         /\ x.params = Following(argv, components_at(argv)[n])
         /\ components_at(argv)[n] \in Places(argv, x.word)
         /\ Cardinality(Below(Places(argv, x.word), components_at(argv)[n])) = x.number
<1> DEFINE o == component_order(argv)
<1> DEFINE w == o[n]
<1> DEFINE i == components_at(argv)[n]
<1> DEFINE num == Cardinality(Earlier(argv, n))
<1> DEFINE S == Places(argv, w)
<1> DEFINE c == Cardinality(S)
<1>0. Len(argv) \in Nat /\ DOMAIN argv = 1..Len(argv) /\ i \in 1..Len(argv)
  BY OrderFacts
<1>1. i \in S /\ S = {j \in names_in(argv) : argv[j] = w} /\ num = Cardinality(Below(S, i))
  BY PlacesCounted
<1>2. S \in SUBSET (1..Len(argv))
  BY <1>0 DEF Places
<1>3. instances(argv, w) = [k \in 1..c |-> curargs(argv, nth(S, k))]
  BY <1>1 DEF instances
<1>4. curargs(argv, i) = Following(argv, i)
  BY <1>0, OptionsFollow
<1>5. x = [word |-> w, number |-> num, total |-> Len(instances(argv, w)), params |-> instances(argv, w)[num + 1]]
  BY DEF instance, Earlier
<1> DEFINE f == in_order(S)
<1> HIDE DEF S, w, num, i
<1>6. Ordered(f, S)
  BY <1>0, <1>2, InOrder
<1>7. c \in Nat /\ DOMAIN f = 1..c
  BY <1>0, <1>2, <1>6, OrderedFacts
<1>8. PICK k \in 1..c : f[k] = i
  BY <1>1, <1>6, <1>7 DEF Ordered
<1>9. Cardinality(Below(S, f[k])) = k - 1
  BY <1>0, <1>2, <1>6, RankBelow
<1>10. num + 1 = k
  <2>1. num = k - 1
    BY <1>1, <1>8, <1>9
  <2>2. QED
    BY <2>1, <1>7
<1>11. nth(S, k) = i
  BY <1>8 DEF in_order
<1>12. instances(argv, w)[num + 1] = Following(argv, i)
  BY <1>3, <1>4, <1>8, <1>10, <1>11
<1> HIDE DEF c
<1>13. Len(instances(argv, w)) = c
  BY <1>3, <1>7
<1>14. x.word = w /\ x.number = num /\ x.total = c /\ x.params = Following(argv, i)
  BY <1>5, <1>12, <1>13
<1>15. QED
  BY <1>1, <1>14 DEF w, num, i, S, c

(* In a set of places, the number of places before one tells it.           *)
LEMMA OnePlaceOfRank ==
  ASSUME NEW n \in Nat, NEW S \in SUBSET (1..n), NEW i \in S, NEW j \in S,
         Cardinality(Below(S, i)) = Cardinality(Below(S, j))
  PROVE  i = j
<1>1. PICK f : Ordered(f, S)
  BY OrderExists
<1>2. DOMAIN f = 1..Cardinality(S) /\ Cardinality(S) \in Nat
  BY <1>1, OrderedFacts
<1>3. PICK a \in 1..Cardinality(S) : f[a] = i
  BY <1>1, <1>2 DEF Ordered
<1>4. PICK b \in 1..Cardinality(S) : f[b] = j
  BY <1>1, <1>2 DEF Ordered
<1>5. Cardinality(Below(S, f[a])) = a - 1
  BY <1>1, RankBelow
<1>6. Cardinality(Below(S, f[b])) = b - 1
  BY <1>1, RankBelow
<1>7. a = b
  <2>1. a - 1 = b - 1
    BY <1>3, <1>4, <1>5, <1>6
  <2>2. a \in Nat /\ b \in Nat
    BY <1>2, <1>3, <1>4
  <2>3. QED
    BY <2>1, <2>2
<1>8. QED
  BY <1>3, <1>4, <1>7

(* boot(): what it makes of the command line is a list of words again.     *)
LEMMA PreparedWords ==
  ASSUME NEW argv \in Seq(Word)
  PROVE  Prepared(argv) \in Seq(Word)
<1>1. Leading(argv) \in 0..Len(argv)
  <2> DEFINE T == {i \in DOMAIN argv : IsName(argv[i])}
  <2>1. CASE T = {}
    BY <2>1 DEF Leading
  <2>2. CASE T # {}
    <3>1. T \subseteq 1..Len(argv) /\ T \subseteq Nat
      OBVIOUS
    <3>2. PICK x \in T : \A y \in T : x <= y
      <4> HIDE DEF T
      <4>1. QED
        BY <2>2, <3>1, FirstPlace
    <3> DEFINE c == CHOOSE i \in T : \A j \in T : i <= j
    <3>3. c \in T
      BY <3>2
    <3>4. Leading(argv) = c - 1
      BY <2>2 DEF Leading
    <3> HIDE DEF c, T
    <3>5. QED
      BY <3>1, <3>3, <3>4
  <2>3. QED
    BY <2>1, <2>2
<1>2. SubSeq(argv, 1, Leading(argv)) \in Seq(Word)
  BY <1>1
<1>3. SubSeq(argv, Leading(argv) + 1, Len(argv)) \in Seq(Word)
  BY <1>1
<1>4. <<Name("py", "launch"), Option("disable")>> \in Seq(Word)
  <2> DEFINE a == Name("py", "launch")
  <2> DEFINE b == Option("disable")
  <2>1. a \in Word /\ b \in Word
    BY DEF Word
  <2> HIDE DEF a, b
  <2>2. <<a, b>> \in Seq(Word)
    BY <2>1
  <2>3. QED
    BY <2>2 DEF a, b
<1>5. QED
  BY <1>2, <1>3, <1>4 DEF Prepared

LEMMA LineHolds ==
  ASSUME program \in Programs
  PROVE  argv_ \in Seq(Word) /\ Len(order_) \in Nat
<1>1. program.argv \in Seq(Word)
  BY ArgvAssumption
<1>2. argv_ \in Seq(Word)
  BY <1>1, PreparedWords DEF argv_, Argv
<1>3. Len(order_) \in Nat
  BY <1>2, OrderFacts DEF order_
<1>4. QED
  BY <1>2, <1>3

-----------------------------------------------------------------------------
(* POX from its start.                                                     *)
LEMMA InitInv ==
  ASSUME Init
  PROVE  CInv
<1>1. Len(order_) \in Nat
  BY LineHolds DEF Init
<1>2. Types
  BY <1>1 DEF Init, Types
<1>3. Stacks
  BY DEF Init, Stacks, Sound, Whole
<1>4. Lists
  BY DEF Init, Lists, ListsOK, ListOK, Sorted
<1>5. Waiting
  <2>1. waiters = <<>> /\ served = [w \in DOMAIN Waiters |-> 0]
        /\ program \in Programs /\ left = program.ops
    BY DEF Init
  <2>2. \A o \in left : Enters(o) => o.arg \in DOMAIN Waiters
    BY <2>1, OpsAssumption
  <2>3. \A k : k \notin DOMAIN waiters
    BY <2>1
  <2>4. QED
    BY <2>1, <2>2, <2>3 DEF Waiting
<1>6. Watched
  BY DEF Init, Watched
<1>7. Phases
  BY DEF Init, Phases
<1>8. QED
  BY <1>2, <1>3, <1>4, <1>5, <1>6, <1>7 DEF CInv

LEMMA MainKeeps ==
  ASSUME CInv, Main
  PROVE  CInv'
  BY LaunchNextKeeps, GoUpKeeps, goUpStartKeeps, goUpRaiseKeeps, MainEndsKeeps DEF Main

LEMMA CallsKeeps ==
  ASSUME CInv, NEW th \in Threads, Calls(th)
  PROVE  CInv'
<1>1. PICK o \in left : \/ addListener(th, o) \/ removeListener(th, o) \/ register(th, o)
                        \/ call_when_ready(th, o) \/ quit(th, o)
  BY DEF Calls
<1>2. QED
  BY <1>1, addListenerKeeps, removeListenerKeeps, registerKeeps, call_when_readyKeeps, quitKeeps

LEMMA ThreadKeeps ==
  ASSUME CInv, NEW th \in Threads, Thread(th)
  PROVE  CInv'
<1>1. CASE Invoke(th)
  BY <1>1, InvokeKeeps
<1>2. CASE Delivered(th)
  BY <1>2, DeliveredKeeps
<1>3. CASE WaitersPass(th)
  BY <1>3, WaitersPassKeeps
<1>4. CASE WaitersNext(th)
  BY <1>4, WaitersNextKeeps
<1>5. CASE Quit(th)
  BY <1>5, QuitKeeps
<1>6. CASE Bind(th)
  BY <1>6, BindKeeps
<1>7. CASE Calls(th)
  BY <1>7, CallsKeeps
<1>8. CASE Throws(th)
  BY <1>8, ThrowsKeeps
<1>9. CASE \E r \in program.returns : HandlerReturns(th, r)
  BY <1>9, HandlerReturnsKeeps
<1>10. CASE \E rv \in {"None", "False"} : CodeReturns(th, rv)
  BY <1>10, CodeReturnsKeeps
<1>11. QED
  BY <1>1, <1>2, <1>3, <1>4, <1>5, <1>6, <1>7, <1>8, <1>9, <1>10 DEF Thread

LEMMA StutterKeeps ==
  ASSUME CInv, UNCHANGED vars
  PROVE  CInv'
<1>1. /\ UNCHANGED <<program, left, boot, at, registry, revent, state, history>> /\ stack' = stack
      /\ "main" \in Threads
  BY DEF vars, Threads
<1>2. SetStack("main", stack["main"])
  BY <1>1 DEF SetStack, CInv, Stacks, Sound
<1>3. Now(stack["main"]) /\ Keeps(stack["main"], stack["main"])
  BY <1>1 DEF CInv, Stacks, Sound, Now, Keeps
<1>4. Fixed /\ UNCHANGED <<log, revent, starting_up, boot, at>>
  BY <1>1, QuietFixed
<1>5. QED
  BY <1>1, <1>2, <1>3, <1>4, OneNow

(* The invariant of the core object holds from the start and in every step *)
(* of POX, for every program, whatever its components and their listeners. *)
THEOREM CoreInvariant == Spec => []CInv
<1>1. Init => CInv
  BY InitInv
<1>2. CInv /\ [Next]_vars => CInv'
  <2> SUFFICES ASSUME CInv, [Next]_vars PROVE CInv'
    OBVIOUS
  <2>1. CASE Main
    BY <2>1, MainKeeps
  <2>2. CASE SchedRuns \/ SchedQuits
    BY <2>2, SchedKeeps
  <2>3. CASE \E th \in Threads : Thread(th)
    BY <2>3, ThreadKeeps
  <2>4. CASE UNCHANGED vars
    BY <2>4, StutterKeeps
  <2>5. QED
    BY <2>1, <2>2, <2>3, <2>4 DEF Next
<1>3. QED
  BY <1>1, <1>2, PTL DEF Spec

LEMMA ContainsPlace ==
  ASSUME NEW S, NEW s \in Seq(S), NEW e
  PROVE  Contains(s, e) <=> \E k \in DOMAIN s : s[k] = e
  BY DEF Contains

LEMMA TypesHold == ASSUME CInv PROVE TypeOK
<1>1. Range(waiters) \subseteq DOMAIN Waiters
  BY DEF CInv, Types, Range
<1>2. \A th \in Threads : stack[th] = <<>> \/ stack[th][1].fn \in {"code", "goUp", "_quit"}
  BY DEF CInv, Stacks, Sound, Whole, Starts
<1>3. \A e \in Events : \A k \in DOMAIN handlers[e] : handlers[e][k].eid \in 1..next_eid - 1
  BY DEF CInv, Lists, ListsOK, ListOK
<1>4. QED
  BY <1>1, <1>2, <1>3 DEF CInv, Types, TypeOK

LEMMA OnceHolds == ASSUME CInv PROVE ServedOnce
<1>1. waiters \in Seq(DOMAIN Waiters)
  BY DEF CInv, Types
<1>2. ASSUME NEW w \in DOMAIN Waiters
      PROVE  served[w] <= 1 /\ (served[w] = 1 => Ready(w) /\ ~Contains(waiters, w))
  <2>1. served[w] \in {0, 1} /\ (served[w] = 1 => Ready(w))
        /\ \A k \in DOMAIN waiters : served[waiters[k]] = 0
    BY DEF CInv, Waiting
  <2>2. served[w] = 1 => ~Contains(waiters, w)
    BY <1>1, <2>1, ContainsPlace
  <2>3. QED
    BY <2>1, <2>2
<1>3. ASSUME NEW w \in DOMAIN Sinks, NEW e \in Events, NEW k \in DOMAIN handlers[e],
             Contains(Sinks[w], handlers[e][k].handler)
      PROVE  served[w] = 1
  <2>1. Sinks[w] \in Seq(DOMAIN Listeners)
    BY SinksAssumption
  <2>2. \E n \in DOMAIN Sinks[w] : Sinks[w][n] = handlers[e][k].handler
    BY <1>3, <2>1, ContainsPlace
  <2>3. handlers[e][k].handler \in Range(Sinks[w])
    BY <2>2 DEF Range
  <2>4. Bound(handlers[e][k].handler, served)
    BY DEF CInv, Lists, ListsOK, ListOK
  <2>5. QED
    BY <2>3, <2>4 DEF Bound
<1>4. QED
  BY <1>2, <1>3 DEF ServedOnce

(* Nobody who waits for components is forgotten, called twice or called    *)
(* before they are there, however register, call_when_ready, handlers and  *)
(* callbacks nest and whatever they raise (_try_waiters, _try_waiter).     *)
THEOREM WaitersAreServed == Spec => []WaitersServed
<1>1. CInv => WaitersServed
  <2> SUFFICES ASSUME CInv PROVE WaitersServed
    OBVIOUS
  <2>1. NothingReadyWaits
    <3> SUFFICES ASSUME \A th \in Threads : \A k \in DOMAIN stack[th] : stack[th][k].fn # "_try_waiters",
                        NEW k \in DOMAIN waiters, Ready(waiters[k])
                 PROVE  FALSE
      BY DEF NothingReadyWaits
    <3>1. PICK th \in Threads : \E j \in DOMAIN stack[th] : Looks(stack[th][j], waiters[k])
      BY DEF CInv, Watched
    <3>2. PICK j \in DOMAIN stack[th] : stack[th][j] \in TryT
      BY <3>1 DEF Looks
    <3>3. stack[th][j].fn = "_try_waiters"
      BY <3>2 DEF TryT
    <3>4. QED
      BY <3>2, <3>3
  <2>2. QED
    BY <2>1, TypesHold, OnceHolds DEF WaitersServed
<1>2. QED
  BY <1>1, CoreInvariant, PTL

(* Listeners are kept by priority, and a dispatch that is not cut short    *)
(* passes over none that the event had when it was raised, although        *)
(* handlers add and remove listeners while it runs (raiseEvent,            *)
(* removeListener).  That none is called twice is not claimed: CalledOnce. *)
THEOREM ListenersAreCalled == Spec => []ListenersCalled
<1>1. CInv => ListenersCalled
  BY DEF CInv, Types, Lists, ListsOK, ListOK, ListenersCalled, NoneSkipped, InPriorityOrder
<1>2. QED
  BY <1>1, CoreInvariant, PTL

(* A quit that is asked for while POX starts tells nobody that it goes     *)
(* down before every component has been launched (_quit, goUp).            *)
THEOREM StartsBeforeItStops == Spec => []StartedBeforeStopped
<1>1. CInv => StartedBeforeStopped
  <2> SUFFICES ASSUME CInv, Contains(log, "GoingDown") PROVE at = Len(order_) /\ boot # "launch"
    BY DEF StartedBeforeStopped
  <2>1. log \in Seq(Events)
    BY DEF CInv, Types
  <2>2. \E k \in DOMAIN log : log[k] = "GoingDown"
    BY <2>1, ContainsPlace
  <2>3. QED
    BY <2>2 DEF CInv, Phases, HasStarted
<1>2. QED
  BY <1>1, CoreInvariant, PTL

-----------------------------------------------------------------------------
(* What is launched                                                        *)

(* f says which component of the command line was launched as the m-th:    *)
(* they are launched in order, and of one word none is left out before     *)
(* another is launched.  While boot goes on, only those are left out that  *)
(* have nothing to launch.                                                 *)
Launches(w) == w.fn \in Modules[w.name].launches
Turns(f) ==
  /\ f \in [DOMAIN launched -> 1..at]
  /\ \A m, n \in DOMAIN launched : m < n => f[m] < f[n]
  /\ \A m \in DOMAIN launched : launched[m] = instance(argv_, f[m])
  /\ \A m \in DOMAIN launched : \A k \in 1..f[m] - 1 :
       order_[k] = order_[f[m]] => \E j \in DOMAIN launched : f[j] = k
  /\ boot = "launch" => \A k \in 1..at : Launches(order_[k]) => \E j \in DOMAIN launched : f[j] = k
LInv ==
  /\ launched \in Seq({instance(argv_, k) : k \in 1..Len(order_)})
  /\ \E f : Turns(f)

LEMMA ArgvHolds ==
  ASSUME CInv
  PROVE  argv_ \in Seq(Word) /\ at \in 0..Len(order_) /\ Len(order_) \in Nat
<1>1. program \in Programs /\ at \in 0..Len(order_)
  BY DEF CInv, Types
<1>2. QED
  BY <1>1, LineHolds

LEMMA LaunchedHolds ==
  ASSUME CInv, LInv
  PROVE  LaunchedAsAsked
<1> DEFINE argv == argv_
<1>0. argv \in Seq(Word) /\ at \in 0..Len(order_) /\ Len(order_) \in Nat /\ order_ = component_order(argv)
  BY ArgvHolds DEF order_
<1>1. PICK f : Turns(f)
  BY DEF LInv
<1>2. DOMAIN launched = 1..Len(launched) /\ Len(launched) \in Nat
  BY DEF LInv
<1> SUFFICES ASSUME NEW n \in DOMAIN launched
             PROVE  LET x == launched[n]
                        places == {i \in DOMAIN argv : argv[i] = x.word}
                        own == CHOOSE i \in places : Cardinality({j \in places : j < i}) = x.number
                    IN /\ x.total = Cardinality(places)
                       /\ x.number = Cardinality({m \in 1..n - 1 : launched[m].word = x.word})
                       /\ x.params = {argv[i].option : i \in {j \in own + 1..Len(argv) :
                                                                 \A k \in own + 1..j : ~IsName(argv[k])}}
  BY DEF LaunchedAsAsked
<1> DEFINE x == launched[n]
<1> DEFINE S == Places(argv, x.word)
<1> DEFINE i == components_at(argv)[f[n]]
<1>3. \A m \in DOMAIN launched : f[m] \in 1..Len(order_) /\ launched[m] = instance(argv, f[m])
  BY <1>0, <1>1 DEF Turns
<1>4. /\ x.word = order_[f[n]] /\ x.number = Cardinality(Earlier(argv, f[n]))
      /\ x.total = Cardinality(S) /\ x.params = Following(argv, i)
      /\ i \in S /\ Cardinality(Below(S, i)) = x.number
  BY <1>0, <1>3, InstanceAsked
<1>5. ASSUME NEW m \in DOMAIN launched PROVE launched[m].word = order_[f[m]]
  BY <1>0, <1>3, <1>5, InstanceAsked
<1> DEFINE own == CHOOSE j \in S : Cardinality(Below(S, j)) = x.number
<1>6. own = i
  <2>1. S \in SUBSET (1..Len(argv)) /\ Len(argv) \in Nat
    BY <1>0 DEF Places
  <2> HIDE DEF S, i, x, argv
  <2>2. own \in S /\ Cardinality(Below(S, own)) = x.number
    BY <1>4
  <2>3. Cardinality(Below(S, own)) = Cardinality(Below(S, i))
    BY <2>2, <1>4
  <2> HIDE DEF own
  <2>4. QED
    BY <2>1, <2>2, <2>3, <1>4, OnePlaceOfRank
<1> DEFINE A == {m \in 1..n - 1 : launched[m].word = x.word}
<1>7. Cardinality(A) = x.number
  <2> DEFINE B == Earlier(argv, f[n])
  <2> DEFINE g == [m \in A |-> f[m]]
  <2>0. \A m \in A : m \in DOMAIN launched /\ m < n /\ order_[f[m]] = order_[f[n]]
    BY <1>2, <1>4, <1>5
  <2>1. IsFiniteSet(A)
    <3>1. IsFiniteSet(1..Len(launched))
      BY <1>2, FS_Interval
    <3>2. A \subseteq 1..Len(launched)
      BY <2>0, <1>2
    <3> HIDE DEF A
    <3>3. QED
      BY <3>1, <3>2, FS_Subset
  <2>2. \A m \in DOMAIN launched : m < n => f[m] < f[n]
    BY <1>1 DEF Turns
  <2>3. ASSUME NEW m \in A PROVE f[m] \in B
    <3>1. f[m] < f[n] /\ f[m] \in 1..Len(order_) /\ f[n] \in 1..Len(order_)
      BY <2>0, <2>2, <1>3
    <3>2. f[m] \in 1..f[n] - 1
      BY <3>1, <1>0
    <3>3. QED
      BY <3>2, <2>0, <1>0 DEF Earlier
  <2>4. g \in [A -> B]
    <3> HIDE DEF A, B
    <3>1. QED
      BY <2>3
  <2>5. ASSUME NEW y \in A, NEW z \in A, g[y] = g[z] PROVE y = z
    <3>1. y \in DOMAIN launched /\ z \in DOMAIN launched /\ f[y] = f[z]
      BY <2>0, <2>5
    <3>2. y \in Nat /\ z \in Nat /\ f[y] \in Nat /\ f[z] \in Nat
      BY <3>1, <1>2, <1>3, <1>0
    <3>3. (y < z => f[y] < f[z]) /\ (z < y => f[z] < f[y])
      BY <3>1, <1>1 DEF Turns
    <3>4. QED
      BY <3>1, <3>2, <3>3
  <2>6. \A b \in B : \E y \in A : g[y] = b
    <3> TAKE b \in B
    <3>1. b \in 1..f[n] - 1 /\ order_[b] = order_[f[n]]
      BY <1>0 DEF Earlier
    <3>2. PICK j \in DOMAIN launched : f[j] = b
      BY <3>1, <1>1 DEF Turns
    <3>3. f[j] < f[n]
      BY <3>1, <3>2, <1>3, <1>0
    <3>4. f[n] \in Nat /\ f[j] \in Nat /\ n \in Nat /\ j \in Nat
      BY <1>2, <1>3, <1>0
    <3>5. n < j => f[n] < f[j]
      BY <1>1 DEF Turns
    <3>6. j # n
      BY <3>3, <3>4
    <3>7. j < n
      BY <3>3, <3>4, <3>5, <3>6
    <3>8. launched[j].word = x.word
      BY <3>1, <3>2, <1>4, <1>5
    <3>9. j \in 1..n - 1
      BY <3>7, <3>4, <1>2
    <3>10. j \in A
      BY <3>8, <3>9
    <3>11. QED
      BY <3>2, <3>10
  <2> HIDE DEF A, B, g
  <2>7. Cardinality(B) = Cardinality(A)
    BY <2>1, <2>4, <2>5, <2>6, SameCount
  <2>8. QED
    BY <2>7, <1>4 DEF B
<1>8. S = {j \in DOMAIN argv : argv[j] = x.word} /\ \A y : Below(S, y) = {j \in S : j < y}
  BY DEF Places, Below
<1>9. Following(argv, own) = {argv[y].option : y \in {j \in own + 1..Len(argv) :
                                                        \A k \in own + 1..j : ~IsName(argv[k])}}
  BY DEF Following
<1>10. own = CHOOSE j \in S : Cardinality({y \in S : y < j}) = x.number
  BY DEF Below
<1> HIDE DEF own
<1>11. x.total = Cardinality(S) /\ x.number = Cardinality(A) /\ x.params = Following(argv, own)
  BY <1>4, <1>6, <1>7
<1>12. QED
  BY <1>9, <1>10, <1>11 DEF Places

LEMMA LaunchInit == ASSUME Init PROVE LInv
<1>1. launched = <<>> /\ at = 0 /\ DOMAIN launched = {}
  BY DEF Init
<1> DEFINE f == [m \in {} |-> 0]
<1>2. f \in [{} -> 1..at]
  OBVIOUS
<1> HIDE DEF f
<1>3. Turns(f)
  BY <1>1, <1>2 DEF Turns
<1>4. QED
  BY <1>1, <1>3 DEF LInv

LEMMA LaunchFrame ==
  ASSUME LInv, UNCHANGED <<launched, at, program>>, boot' = "launch" => boot = "launch"
  PROVE  LInv'
<1>1. launched' = launched /\ at' = at /\ argv_' = argv_ /\ order_' = order_
  BY DEF order_, argv_
<1>2. \A f : Turns(f) => Turns(f)'
  BY <1>1 DEF Turns
<1>3. QED
  BY <1>1, <1>2 DEF LInv

LEMMA LaunchStep ==
  ASSUME CInv, LInv, LaunchNext
  PROVE  LInv'
<1> DEFINE x == instance(argv_, at + 1)
<1> DEFINE v == IF at = 0 /\ ~(process_options(argv_) /\ _do_imports(argv_)) THEN "refused" ELSE verdict(x)
<1>1. /\ boot = "launch" /\ at < Len(order_) /\ at' = at + 1 /\ program' = program
      /\ boot' = (IF v = "refused" THEN "exited" ELSE boot)
      /\ launched' = (IF v = "called" THEN Append(launched, x) ELSE launched)
  BY DEF LaunchNext
<1>2. argv_ \in Seq(Word) /\ at \in 0..Len(order_) /\ Len(order_) \in Nat /\ order_ = component_order(argv_)
  BY ArgvHolds DEF order_
<1>3. argv_' = argv_ /\ order_' = order_
  BY <1>1 DEF order_, argv_
<1>4. at + 1 \in 1..Len(order_) /\ at \in Nat
  BY <1>1, <1>2
<1>5. x.word = order_[at + 1]
  BY <1>2, <1>4, InstanceAsked
<1>6. (v = "called" => Launches(order_[at + 1])) /\ (v = "refused" \/ v = "called" \/ ~Launches(order_[at + 1]))
  BY <1>5 DEF verdict, Launches
<1> HIDE DEF v, x
<1>7. PICK f : Turns(f)
  BY DEF LInv
<1> DEFINE T == {instance(argv_, k) : k \in 1..Len(order_)}
<1>8. launched \in Seq(T) /\ x \in T
  BY <1>4 DEF LInv, x
<1>9. DOMAIN launched = 1..Len(launched) /\ Len(launched) \in Nat
  BY <1>8
<1>10. /\ f \in [DOMAIN launched -> 1..at]
       /\ \A m, n \in DOMAIN launched : m < n => f[m] < f[n]
       /\ \A m \in DOMAIN launched : launched[m] = instance(argv_, f[m])
       /\ \A m \in DOMAIN launched : \A k \in 1..f[m] - 1 :
            order_[k] = order_[f[m]] => \E j \in DOMAIN launched : f[j] = k
       /\ \A k \in 1..at : Launches(order_[k]) => \E j \in DOMAIN launched : f[j] = k
  BY <1>7, <1>1 DEF Turns
<1> HIDE DEF T
<1>11. T' = T
  BY <1>3 DEF T
<1>12. CASE v # "called"
  <2>1. launched' = launched
    BY <1>1, <1>12
  <2>2. f \in [DOMAIN launched -> 1..(at + 1)]
    BY <1>10, <1>4
  <2>3. ASSUME boot' = "launch", NEW k \in 1..(at + 1), Launches(order_[k])
        PROVE  \E j \in DOMAIN launched : f[j] = k
    <3>1. v # "refused"
      BY <1>1, <2>3
    <3>2. ~Launches(order_[at + 1])
      BY <3>1, <1>6, <1>12
    <3>3. k \in 1..at
      BY <3>2, <2>3, <1>4
    <3>4. QED
      BY <3>3, <2>3, <1>10
  <2>4. Turns(f)'
    BY <2>1, <2>2, <2>3, <1>1, <1>3, <1>10 DEF Turns, Launches
  <2>5. QED
    BY <2>1, <2>4, <1>8, <1>11 DEF LInv, T
<1>13. CASE v = "called"
  <2> DEFINE L == Len(launched)
  <2>0. PICK g : g = [m \in 1..(L + 1) |-> IF m = L + 1 THEN at + 1 ELSE f[m]]
    OBVIOUS
  <2>1. launched' = Append(launched, x)
    BY <1>1, <1>13
  <2>2. launched' \in Seq(T) /\ DOMAIN launched' = 1..(L + 1) /\ launched'[L + 1] = x
        /\ \A m \in 1..L : launched'[m] = launched[m]
    BY <2>1, <1>8
  <2>3. L \in Nat /\ DOMAIN launched = 1..L
    BY <1>9
  <2> HIDE DEF L
  <2>4. \A m \in 1..(L + 1) : m # L + 1 => m \in 1..L
    BY <2>3
  <2>5. \A m \in 1..L : g[m] = f[m] /\ f[m] \in 1..at /\ m \in 1..(L + 1)
    BY <2>0, <2>3, <1>10
  <2>6. g[L + 1] = at + 1 /\ L + 1 \in 1..(L + 1)
    BY <2>0, <2>3
  <2>7. g \in [1..(L + 1) -> 1..(at + 1)]
    BY <2>0, <2>4, <1>10, <2>3, <1>4
  <2>8. ASSUME NEW m \in 1..(L + 1), NEW n \in 1..(L + 1), m < n
        PROVE  g[m] < g[n]
    <3>1. m \in 1..L
      BY <2>8, <2>3
    <3>2. CASE n = L + 1
      BY <3>1, <3>2, <2>5, <2>6, <1>4
    <3>3. CASE n \in 1..L
      BY <3>1, <3>3, <2>5, <2>8, <2>3, <1>10
    <3>4. QED
      BY <3>2, <3>3, <2>4
  <2>9. \A m \in 1..(L + 1) : launched'[m] = instance(argv_, g[m])
    <3>1. ASSUME NEW m \in 1..L PROVE launched'[m] = instance(argv_, g[m])
      BY <2>2, <2>3, <2>5, <1>10
    <3>2. launched'[L + 1] = instance(argv_, g[L + 1])
      BY <2>2, <2>6 DEF x
    <3>3. QED
      BY <3>1, <3>2, <2>4
  <2>10. ASSUME NEW k \in 1..at, Launches(order_[k]) PROVE \E j \in 1..(L + 1) : g[j] = k
    <3>1. PICK j \in 1..L : f[j] = k
      BY <2>10, <2>3, <1>10
    <3>2. QED
      BY <3>1, <2>5
  <2>11. ASSUME NEW m \in 1..(L + 1), NEW k \in 1..g[m] - 1, order_[k] = order_[g[m]]
         PROVE  \E j \in 1..(L + 1) : g[j] = k
    <3>1. CASE m = L + 1
      <4>1. k \in 1..at /\ Launches(order_[k])
        BY <3>1, <2>6, <2>11, <1>4, <1>6, <1>13
      <4>2. QED
        BY <4>1, <2>10
    <3>2. CASE m \in 1..L
      <4>1. PICK j \in 1..L : f[j] = k
        BY <3>2, <2>3, <2>5, <2>11, <1>10
      <4>2. QED
        BY <4>1, <2>5
    <3>3. QED
      BY <3>1, <3>2, <2>4
  <2>12. ASSUME NEW k \in 1..(at + 1), Launches(order_[k]) PROVE \E j \in 1..(L + 1) : g[j] = k
    <3>1. CASE k = at + 1
      BY <3>1, <2>6
    <3>2. CASE k \in 1..at
      BY <3>2, <2>10, <2>12
    <3>3. QED
      BY <3>1, <3>2, <1>4
  <2>13. Turns(g)'
    <3>1. g \in [DOMAIN launched' -> 1..at']
      BY <2>2, <2>7, <1>1
    <3>2. \A m, n \in DOMAIN launched' : m < n => g[m] < g[n]
      BY <2>2, <2>8
    <3>3. \A m \in DOMAIN launched' : launched'[m] = instance(argv_', g[m])
      BY <2>2, <2>9, <1>3
    <3>4. \A m \in DOMAIN launched' : \A k \in 1..g[m] - 1 :
            order_'[k] = order_'[g[m]] => \E j \in DOMAIN launched' : g[j] = k
      BY <2>2, <2>11, <1>3
    <3>5. \A k \in 1..at' : Launches(order_'[k]) => \E j \in DOMAIN launched' : g[j] = k
      BY <2>2, <2>12, <1>1, <1>3
    <3>6. QED
      BY <3>1, <3>2, <3>3, <3>4, <3>5 DEF Turns, Launches
  <2>14. QED
    BY <2>2, <2>13, <1>11 DEF LInv, T
<1>14. QED
  BY <1>12, <1>13

LEMMA LaunchKeeps ==
  ASSUME CInv, LInv, [Next]_vars
  PROVE  LInv'
<1> DEFINE Quietly == UNCHANGED <<launched, at, program>> /\ (boot' = "launch" => boot = "launch")
<1>1. CASE Main
  <2>1. CASE LaunchNext
    BY <2>1, LaunchStep
  <2>2. CASE GoUp \/ goUpStart \/ goUpEnd \/ MainQuits \/ MainExits
    <3>1. Quietly
      BY <2>2 DEF GoUp, goUpStart, goUpEnd, MainQuits, MainExits, history
    <3>2. QED
      BY <3>1, LaunchFrame
  <2>3. CASE goUpRaise("goingup", "GoingUp", "up") \/ goUpRaise("up", "Up", "notify")
    <3>1. Quietly
      BY <2>3 DEF goUpRaise
    <3>2. QED
      BY <3>1, LaunchFrame
  <2>4. QED
    BY <1>1, <2>1, <2>2, <2>3 DEF Main
<1>2. CASE SchedRuns \/ SchedQuits
  <2>1. Quietly
    BY <1>2 DEF SchedRuns, SchedQuits, history
  <2>2. QED
    BY <2>1, LaunchFrame
<1>3. ASSUME NEW th \in Threads, Thread(th) PROVE LInv'
  <2>1. CASE Quit(th)
    <3>1. Quietly
      BY <2>1 DEF Quit, QuitReturns, QuitGoes, QuitStops, QuitDefers, QuitDown, QuitEnds, history
    <3>2. QED
      BY <3>1, LaunchFrame
  <2>2. CASE Calls(th)
    <3>1. Quietly
      BY <2>2 DEF Calls, addListener, removeListener, register, call_when_ready, quit, history
    <3>2. QED
      BY <3>1, LaunchFrame
  <2>3. CASE Invoke(th) \/ Delivered(th) \/ WaitersPass(th) \/ WaitersNext(th) \/ Bind(th)
    <3>1. Quietly
      BY <2>3 DEF Invoke, Delivered, WaitersPass, WaitersNext, Bind, history
    <3>2. QED
      BY <3>1, LaunchFrame
  <2>4. CASE Throws(th) \/ (\E rv \in {"None", "False"} : CodeReturns(th, rv)) \/ \E r \in program.returns : HandlerReturns(th, r)
    <3>1. Quietly
      BY <2>4 DEF Throws, CodeReturns, HandlerReturns, history
    <3>2. QED
      BY <3>1, LaunchFrame
  <2>5. QED
    BY <1>3, <2>1, <2>2, <2>3, <2>4 DEF Thread
<1>4. CASE UNCHANGED vars
  <2>1. Quietly
    BY <1>4 DEF vars, history
  <2>2. QED
    BY <2>1, LaunchFrame
<1>5. QED
  BY <1>1, <1>2, <1>3, <1>4 DEF Next

(* Whatever the applications do, every launch function is called with the  *)
(* options that follow its place in the command line and with the number   *)
(* and count of its instances (_do_launch), and a quit that is asked for   *)
(* meanwhile tells nobody that POX goes down before all are launched       *)
(* (_quit, goUp).                                                          *)
THEOREM StartsAsTheCommandLineAsks == Spec => []StartsAsAsked
<1>1. Init => LInv
  BY LaunchInit
<1>2. CInv /\ LInv /\ [Next]_vars => LInv'
  BY LaunchKeeps
<1>3. CInv /\ LInv => LaunchedAsAsked
  BY LaunchedHolds
<1>4. Spec => []LaunchedAsAsked
  BY <1>1, <1>2, <1>3, CoreInvariant, PTL DEF Spec
<1>5. LaunchedAsAsked /\ StartedBeforeStopped => StartsAsAsked
  BY DEF StartsAsAsked
<1>6. QED
  BY <1>4, <1>5, StartsBeforeItStops, PTL
=============================================================================
