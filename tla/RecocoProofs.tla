---------------------------- MODULE RecocoProofs ----------------------------
(***************************************************************************)
(* The scheduler of POX never loses a task, never has it in two places,    *)
(* and never runs a Timer early or after it was cancelled: for any tasks,  *)
(* threads and programs.                                                   *)
(***************************************************************************)
EXTENDS Recoco, FiniteSetTheorems, TLAPS

-----------------------------------------------------------------------------
Item == [task: Tasks, wrapped: BOOLEAN]
Wait == [task: Tasks, fd: BOOLEAN, tto: Nat]
Life == {"new", "started", "waiting", "done"}
State == [life: Life, rv: BOOLEAN, next: Nat, cancelled: BOOLEAN]
Sched == [pc: {"loop", "wait", "clear", "cycle", "calls", "put", "ping", "ended"},
          task: Tasks, fd: BOOLEAN, tto: Nat]
Hub == [pc: {"scan", "expire", "select", "timeout", "pong", "drain", "return", "ended"},
        watch: SUBSET Tasks, out: SUBSET Tasks]

(* The variables of the two threads.                                       *)
Types ==
  /\ DOMAIN program = {"tasks", "calls", "input", "until"}
  /\ program.until \in 0..MaxTime /\ now \in 0..program.until
  /\ ready \in Seq(Item) /\ unset \subseteq Signallers
  /\ sched \in Sched /\ hub \in Hub
  /\ DOMAIN registered \subseteq Tasks
  /\ \A t \in DOMAIN registered : registered[t] \in [fd: BOOLEAN, tto: Nat]
  /\ incoming \in Seq(Wait) /\ task \in [Tasks -> State]
  /\ readable \subseteq {t \in Tasks : HasFd(t)} /\ blocked \subseteq Blockers
  /\ fired \in [Timers -> Nat]

(* The hub works on tasks that it has.                                     *)
Watched ==
  /\ hub.pc \notin {"scan", "ended"} => hub.out \subseteq DOMAIN registered
  /\ hub.pc \in {"expire", "select"} => hub.watch \subseteq DOMAIN registered
  /\ hub.pc = "expire" => hub.watch \cap hub.out = {}

(* A Timer that sleeps is registered for its time, until that has come.    *)
Timed(t) ==
  task[t].life = "waiting" =>
    /\ \A i \in DOMAIN ready : ready[i].task = t => task[t].next <= now
    /\ \A i \in DOMAIN incoming :
         incoming[i].task = t => incoming[i].tto = task[t].next /\ ~incoming[i].fd
    /\ sched.pc = "put" /\ sched.task = t => sched.tto = task[t].next /\ ~sched.fd
    /\ t \in DOMAIN registered => registered[t].tto = task[t].next /\ ~registered[t].fd

(* What the hub returns is due, or is a task that waits for its socket.    *)
Chosen ==
  /\ hub.pc \in {"expire", "timeout"} => \A t \in hub.out : registered[t].tto <= now
  /\ hub.pc \in {"return", "pong", "drain"} => \A t \in hub.out : registered[t].fd

Base == Types /\ Watched /\ OnePlace
OnTime == Chosen /\ \A t \in Timers : Timed(t)
RInv == Base /\ OnTime

-----------------------------------------------------------------------------
(* How often a task is in a queue.                                         *)
At(s, t) == {i \in DOMAIN s : s[i].task = t}
Count(s, t) == Cardinality(At(s, t))

LEMMA CountType ==
  ASSUME NEW S, NEW s \in Seq(S), NEW t
  PROVE  /\ IsFiniteSet(At(s, t)) /\ Count(s, t) \in Nat
         /\ Count(s, t) = 0 <=> \A i \in DOMAIN s : s[i].task # t
<1>1. DOMAIN s = 1..Len(s) /\ Len(s) \in Nat
  OBVIOUS
<1>2. IsFiniteSet(1..Len(s)) /\ At(s, t) \in SUBSET (1..Len(s))
  BY <1>1, FS_Interval DEF At
<1>3. IsFiniteSet(At(s, t))
  BY <1>2, FS_Subset
<1>4. Count(s, t) = 0 <=> At(s, t) = {}
  BY <1>3, FS_EmptySet DEF Count
<1>5. At(s, t) = {} <=> \A i \in DOMAIN s : s[i].task # t
  BY DEF At
<1> QED
  BY <1>3, <1>4, <1>5, FS_CardinalityType DEF Count

LEMMA CountAppend ==
  ASSUME NEW S, NEW s \in Seq(S), NEW m \in S, NEW t
  PROVE  Count(Append(s, m), t) = Count(s, t) + (IF m.task = t THEN 1 ELSE 0)
<1> DEFINE z == Append(s, m)
           n == Len(s)
<1>1. /\ n \in Nat /\ DOMAIN s = 1..n /\ DOMAIN z = 1..(n + 1) /\ z[n + 1] = m
      /\ \A i \in 1..n : z[i] = s[i]
  OBVIOUS
<1> HIDE DEF z, n
<1>2. At(z, t) = IF m.task = t THEN At(s, t) \cup {n + 1} ELSE At(s, t)
  BY <1>1 DEF At
<1>3. n + 1 \notin At(s, t)
  BY <1>1 DEF At
<1>4. IsFiniteSet(At(s, t)) /\ Count(s, t) \in Nat
  BY CountType
<1>5. Cardinality(At(s, t) \cup {n + 1}) = Cardinality(At(s, t)) + 1
  BY <1>3, <1>4, FS_AddElement
<1> QED
  BY <1>2, <1>4, <1>5 DEF Count, z

LEMMA CountTail ==
  ASSUME NEW S, NEW s \in Seq(S), s # <<>>, NEW t
  PROVE  Count(s, t) = Count(Tail(s), t) + (IF Head(s).task = t THEN 1 ELSE 0)
<1> DEFINE z == Tail(s)
           n == Len(s)
           A == At(s, t) \ {1}
           f == [i \in At(z, t) |-> i + 1]
<1>0. z \in Seq(S)
  OBVIOUS
<1>1. /\ n \in Nat /\ n > 0 /\ DOMAIN s = 1..n /\ DOMAIN z = 1..(n - 1) /\ Head(s) = s[1]
      /\ \A i \in 1..(n - 1) : z[i] = s[i + 1]
  OBVIOUS
<1> HIDE DEF z, n
<1>2. \A i \in At(z, t) : i \in Nat /\ i + 1 \in A
  BY <1>1 DEF At
<1>3. \A j \in A : j - 1 \in At(z, t) /\ (j - 1) + 1 = j
  <2> TAKE j \in A
  <2>1. j \in 1..n /\ j # 1 /\ s[j].task = t
    BY <1>1 DEF At
  <2>2. j - 1 \in 1..(n - 1) /\ (j - 1) + 1 = j
    BY <1>1, <2>1
  <2> QED
    BY <1>1, <2>1, <2>2 DEF At
<1>4. f \in Bijection(At(z, t), A)
  <2>1. f \in [At(z, t) -> A]
    BY <1>2
  <2>2. \A i, j \in At(z, t) : f[i] = f[j] => i = j
    BY <1>2
  <2>3. \A j \in A : \E i \in At(z, t) : f[i] = j
    BY <1>3
  <2> QED
    BY <2>1, <2>2, <2>3 DEF Bijection, Injection, Surjection, IsInjective
<1>5. ExistsBijection(At(z, t), A)
  BY <1>4 DEF ExistsBijection
<1>6. IsFiniteSet(At(z, t)) /\ IsFiniteSet(At(s, t)) /\ Count(z, t) \in Nat /\ Count(s, t) \in Nat
  BY <1>0, CountType
<1>7. Cardinality(A) = Count(z, t)
  BY <1>5, <1>6, FS_Bijection DEF Count
<1>8. Cardinality(A) = IF 1 \in At(s, t) THEN Count(s, t) - 1 ELSE Count(s, t)
  BY <1>6, FS_RemoveElement DEF Count
<1>9. 1 \in At(s, t) <=> Head(s).task = t
  BY <1>1 DEF At
<1> QED
  BY <1>6, <1>7, <1>8, <1>9 DEF z

(* The places of a task, counted.                                          *)
Moving(t) == IF (sched.pc = "put" /\ sched.task = t) \/ (sched.pc = "calls" /\ t = later) THEN 1 ELSE 0
InHub(t) == IF t \in DOMAIN registered THEN 1 ELSE 0
InThread(t) == IF t \in blocked THEN 1 ELSE 0
Due1(t) == IF task[t].life \in {"new", "done"} THEN 0 ELSE 1
Placed(t) == Count(ready, t) + Count(incoming, t) + Moving(t) + InHub(t) + InThread(t) = Due1(t)

LEMMA Places == OnePlace <=> \A t \in Tasks : Placed(t)
  BY DEF OnePlace, Times, Placed, Count, At, Moving, InHub, InThread, Due1

(* The pieces of the sum are numbers, so each is at most the whole.        *)
LEMMA PlaceTypes ==
  ASSUME Types, NEW t
  PROVE  /\ Count(ready, t) \in Nat /\ Count(incoming, t) \in Nat
         /\ Moving(t) \in 0..1 /\ InHub(t) \in 0..1 /\ InThread(t) \in 0..1 /\ Due1(t) \in 0..1
  BY CountType DEF Types, Moving, InHub, InThread, Due1

-----------------------------------------------------------------------------
(* The scheduler takes task t from the queue: it was there once, and       *)
(* nowhere else.                                                           *)
Taken(t) ==
  /\ ready # <<>> /\ Head(ready).task = t /\ Tail(ready) \in Seq(Item)
  /\ \A u \in Tasks : Count(ready, u) = Count(Tail(ready), u) + (IF u = t THEN 1 ELSE 0)
  /\ Count(Tail(ready), t) = 0 /\ Count(incoming, t) = 0
  /\ t \notin DOMAIN registered /\ t \notin blocked
  /\ task[t].life \in {"started", "waiting"}
  /\ sched.pc \in {"loop", "cycle"}

LEMMA TakesHead ==
  ASSUME Base, NEW t \in Tasks, Cycles, Head(ready).task = t
  PROVE  Taken(t)
<1>0. Types /\ Placed(t) /\ ready \in Seq(Item) /\ ready # <<>>
  BY Places DEF Base, Cycles, Types
<1>1. \A u \in Tasks : Count(ready, u) = Count(Tail(ready), u) + (IF u = t THEN 1 ELSE 0)
  <2> TAKE u \in Tasks
  <2>1. Count(ready, u) = Count(Tail(ready), u) + (IF Head(ready).task = u THEN 1 ELSE 0)
    BY <1>0, CountTail
  <2> QED
    BY <2>1
<1>2. Tail(ready) \in Seq(Item)
  BY <1>0
<1>3. Count(Tail(ready), t) \in Nat
  BY <1>2, CountType
<1>4. task[t].life \in Life
  BY <1>0 DEF Types, State
<1>5. /\ Count(ready, t) \in Nat /\ Count(incoming, t) \in Nat
      /\ Moving(t) \in 0..1 /\ InHub(t) \in 0..1 /\ InThread(t) \in 0..1 /\ Due1(t) \in 0..1
  BY <1>0, PlaceTypes
<1>6. Count(ready, t) = Count(Tail(ready), t) + 1
  BY <1>1
<1>7. /\ Due1(t) = 1 /\ Count(Tail(ready), t) = 0 /\ Count(incoming, t) = 0
      /\ InHub(t) = 0 /\ InThread(t) = 0
  BY <1>0, <1>3, <1>5, <1>6 DEF Placed
<1>8. sched.pc \in {"loop", "cycle"}
  BY DEF Cycles
<1> QED
  BY <1>0, <1>1, <1>2, <1>4, <1>7, <1>8 DEF Taken, Due1, InHub, InThread, Life

(* Nothing is moved.                                                       *)
LEMMA Still ==
  ASSUME OnePlace, UNCHANGED <<ready, incoming, blocked>>,
         DOMAIN registered' = DOMAIN registered,
         \A u \in Tasks : task'[u].life = task[u].life,
         \/ sched' = sched
         \/ sched.pc \notin {"put", "calls"} /\ sched'.pc \notin {"put", "calls"}
  PROVE  OnePlace'
<1> SUFFICES ASSUME NEW u \in Tasks
             PROVE  Placed(u)'
  BY DEF OnePlace, Times, Placed, Count, At, Moving, InHub, InThread, Due1
<1>1. Placed(u)
  BY Places
<1>2. Moving(u)' = Moving(u) /\ InHub(u)' = InHub(u) /\ InThread(u)' = InThread(u)
      /\ Due1(u)' = Due1(u)
  BY DEF Moving, InHub, InThread, Due1
<1> QED
  BY <1>1, <1>2 DEF Placed

(* A task is put into the queue by a thread that had it.                   *)
LEMMA Queued ==
  ASSUME Base, NEW item \in Item, ready' = Append(ready, item), incoming' = incoming,
         sched' = sched, task'[item.task].life \notin {"new", "done"},
         \A u \in Tasks \ {item.task} :
           /\ task'[u].life = task[u].life
           /\ u \in DOMAIN registered' <=> u \in DOMAIN registered
           /\ u \in blocked' <=> u \in blocked,
         item.task \notin DOMAIN registered' /\ item.task \notin blocked',
         \/ task[item.task].life = "new"
         \/ item.task \in DOMAIN registered
         \/ item.task \in blocked
  PROVE  OnePlace'
<1> DEFINE t == item.task
<1>0. Types /\ t \in Tasks /\ ready \in Seq(Item)
  BY DEF Base, Types, Item
<1> HIDE DEF t
<1> SUFFICES ASSUME NEW u \in Tasks
             PROVE  Placed(u)'
  BY DEF OnePlace, Times, Placed, Count, At, Moving, InHub, InThread, Due1
<1>1. Placed(u)
  BY Places DEF Base
<1>2. /\ Count(ready, u) \in Nat /\ Count(incoming, u) \in Nat
      /\ Moving(u) \in 0..1 /\ InHub(u) \in 0..1 /\ InThread(u) \in 0..1 /\ Due1(u) \in 0..1
  BY <1>0, PlaceTypes
<1>3. Count(ready', u) = Count(ready, u) + (IF t = u THEN 1 ELSE 0)
  BY <1>0, CountAppend DEF t
<1>4. Count(incoming', u) = Count(incoming, u) /\ Moving(u)' = Moving(u)
  BY DEF Moving
<1>5. CASE u = t
  <2>1. InHub(u)' = 0 /\ InThread(u)' = 0 /\ Due1(u)' = 1
    BY <1>5 DEF InHub, InThread, Due1, t
  <2>2. Due1(u) = 0 \/ InHub(u) = 1 \/ InThread(u) = 1
    BY <1>5 DEF InHub, InThread, Due1, t
  <2>3. Count(ready, u) = 0 /\ Count(incoming, u) = 0 /\ Moving(u) = 0
    BY <1>1, <1>2, <2>2 DEF Placed
  <2> QED
    BY <1>3, <1>4, <1>5, <2>1, <2>3 DEF Placed
<1>6. CASE u # t
  <2>1. InHub(u)' = InHub(u) /\ InThread(u)' = InThread(u) /\ Due1(u)' = Due1(u)
    BY <1>6 DEF InHub, InThread, Due1, t
  <2> QED
    BY <1>1, <1>2, <1>3, <1>4, <1>6, <2>1 DEF Placed
<1> QED
  BY <1>5, <1>6

(* A task that was taken ends, is queued again, is about to be registered  *)
(* with the hub, makes the calls, or has a thread of its own.              *)
LEMMA Executed ==
  ASSUME Base, NEW t \in Tasks, Taken(t), incoming' = incoming, registered' = registered,
         \A u \in Tasks \ {t} : task'[u].life = task[u].life /\ (u \in blocked' <=> u \in blocked),
         \/ /\ ready' = Tail(ready) /\ task'[t].life = "done" /\ t \notin blocked'
            /\ sched'.pc \notin {"put", "calls"}
         \/ /\ \E i \in Item : i.task = t /\ ready' = Append(Tail(ready), i)
            /\ task'[t].life \notin {"new", "done"}
            /\ t \notin blocked' /\ sched'.pc \notin {"put", "calls"}
         \/ /\ ready' = Tail(ready) /\ task'[t].life \notin {"new", "done"} /\ t \notin blocked'
            /\ sched'.pc = "put" /\ sched'.task = t
         \/ /\ ready' = Tail(ready) /\ task'[t].life \notin {"new", "done"} /\ t \notin blocked'
            /\ sched'.pc = "calls" /\ t = later
         \/ /\ ready' = Tail(ready) /\ task'[t].life \notin {"new", "done"} /\ t \in blocked'
            /\ sched'.pc \notin {"put", "calls"}
  PROVE  OnePlace'
<1>0. Types /\ ready \in Seq(Item) /\ Tail(ready) \in Seq(Item)
  BY DEF Base, Types, Taken
<1> SUFFICES ASSUME NEW u \in Tasks
             PROVE  Placed(u)'
  BY DEF OnePlace, Times, Placed, Count, At, Moving, InHub, InThread, Due1
<1>1. Placed(u)
  BY Places DEF Base
<1>2. /\ Count(ready, u) \in Nat /\ Count(incoming, u) \in Nat /\ Count(Tail(ready), u) \in Nat
      /\ Moving(u) = 0 /\ InHub(u) \in 0..1 /\ InThread(u) \in 0..1 /\ Due1(u) \in 0..1
  BY <1>0, PlaceTypes, CountType DEF Taken, Moving
<1>3. Count(ready, u) = Count(Tail(ready), u) + (IF u = t THEN 1 ELSE 0)
  BY DEF Taken
<1>4. Count(incoming', u) = Count(incoming, u) /\ InHub(u)' = InHub(u)
  BY DEF InHub
<1> DEFINE z == Tail(ready)
<1>5. \/ ready' = z /\ Moving(t)' + InThread(t)' = Due1(t)'
      \/ /\ Count(ready', u) = Count(z, u) + (IF u = t THEN 1 ELSE 0)
         /\ Moving(t)' = 0 /\ InThread(t)' = 0 /\ Due1(t)' = 1
  <2>1. ASSUME NEW i \in Item, i.task = t, ready' = Append(z, i)
        PROVE  Count(ready', u) = Count(z, u) + (IF u = t THEN 1 ELSE 0)
    <3>0. z \in Seq(Item)
      BY <1>0
    <3> HIDE DEF z
    <3>1. Count(Append(z, i), u) = Count(z, u) + (IF i.task = u THEN 1 ELSE 0)
      BY <3>0, CountAppend
    <3> QED
      BY <2>1, <3>1
  <2> HIDE DEF z
  <2>2. CASE /\ ready' = z /\ task'[t].life = "done" /\ t \notin blocked'
             /\ sched'.pc \notin {"put", "calls"}
    BY <2>2 DEF Moving, InThread, Due1
  <2>3. CASE /\ \E i \in Item : i.task = t /\ ready' = Append(z, i)
             /\ task'[t].life \notin {"new", "done"}
             /\ t \notin blocked' /\ sched'.pc \notin {"put", "calls"}
    BY <2>1, <2>3 DEF Moving, InThread, Due1
  <2>4. CASE /\ ready' = z /\ task'[t].life \notin {"new", "done"} /\ t \notin blocked'
             /\ sched'.pc = "put" /\ sched'.task = t
    BY <2>4 DEF Moving, InThread, Due1
  <2>5. CASE /\ ready' = z /\ task'[t].life \notin {"new", "done"} /\ t \notin blocked'
             /\ sched'.pc = "calls" /\ t = later
    BY <2>5 DEF Moving, InThread, Due1
  <2>6. CASE /\ ready' = z /\ task'[t].life \notin {"new", "done"} /\ t \in blocked'
             /\ sched'.pc \notin {"put", "calls"}
    BY <2>6 DEF Moving, InThread, Due1
  <2> QED
    BY <2>2, <2>3, <2>4, <2>5, <2>6 DEF z
<1>8. /\ Count(z, u) \in Nat /\ Count(ready, u) = Count(z, u) + (IF u = t THEN 1 ELSE 0)
      /\ u = t => Count(z, u) = 0 /\ Count(incoming, u) = 0 /\ InHub(u) = 0
  BY <1>2, <1>3 DEF Taken, InHub
<1> HIDE DEF z
<1>6. CASE u = t
  <2>1. Count(ready', u) + Moving(u)' + InThread(u)' = Due1(u)'
    <3>1. Moving(u)' \in 0..1 /\ InThread(u)' \in 0..1 /\ Due1(u)' \in 0..1
      BY DEF Moving, InThread, Due1
    <3>2. CASE ready' = z /\ Moving(u)' + InThread(u)' = Due1(u)'
      BY <1>6, <1>8, <3>1, <3>2
    <3>3. CASE Count(ready', u) = Count(z, u) + 1 /\ Moving(u)' = 0 /\ InThread(u)' = 0 /\ Due1(u)' = 1
      BY <1>6, <1>8, <3>3
    <3> QED
      BY <1>5, <1>6, <3>2, <3>3
  <2>2. Count(ready', u) \in Nat /\ Moving(u)' \in 0..1 /\ InThread(u)' \in 0..1
    BY <1>5, <1>6, <1>8 DEF Moving, InThread
  <2> QED
    BY <1>4, <1>6, <1>8, <2>1, <2>2 DEF Placed
<1>7. CASE u # t
  <2>1. InThread(u)' = InThread(u) /\ Due1(u)' = Due1(u) /\ Moving(u)' = 0
    BY <1>7 DEF InThread, Due1, Moving
  <2>2. Count(ready', u) = Count(ready, u)
    BY <1>5, <1>7, <1>8
  <2> QED
    BY <1>1, <1>2, <1>4, <2>1, <2>2 DEF Placed
<1> QED
  BY <1>6, <1>7

-----------------------------------------------------------------------------
(* Types and Watched, action by action.                                    *)
Typed == Types /\ Watched

LEMMA NeverIsLate == Never \in Nat /\ Delay \in Nat /\ SelectTimeout \in Nat /\ MaxTime \in Nat
  BY DelayAssumption DEF Never

LEMMA TypedQuiet ==
  ASSUME Typed,
         \/ SchedLoop \/ SchedWake \/ SchedWakeLate \/ SchedClear \/ SchedIdle \/ MakeCall
         \/ CallsDone \/ RegisterSelect \/ Tick
         \/ (\E t \in Tasks : Input(t))
         \/ (\E th \in Threads : DeferCall(th) \/ QuitFails(th))
         \/ (\E th \in Signallers : SetEvent(th))
  PROVE  Typed'
<1> USE DEF Typed, Goto, clock, queue, ends, sched_vars, hub_vars, others, history
<1>0. later \in Tasks
  BY DEF Tasks
<1>1. CASE SchedLoop
  BY <1>1 DEF SchedLoop, Types, Watched, Sched
<1>2. CASE SchedWake \/ SchedWakeLate
  BY <1>2 DEF SchedWake, SchedWakeLate, Types, Watched, Sched
<1>3. CASE SchedClear
  BY <1>3 DEF SchedClear, Types, Watched, Sched
<1>4. CASE SchedIdle
  BY <1>4 DEF SchedIdle, Types, Watched, Sched
<1>5. CASE MakeCall
  <2> DEFINE f == program.calls[Head(calls)]
  <2>1. f \in Timers => f \in Tasks
    BY DEF Tasks
  <2>2. task' = IF f \in Timers THEN [task EXCEPT ![f].cancelled = TRUE] ELSE task
    BY <1>5 DEF MakeCall
  <2> HIDE DEF f
  <2>3. task' \in [Tasks -> State]
    BY <2>1, <2>2 DEF Types, State
  <2> QED
    BY <1>5, <2>3 DEF MakeCall, Types, Watched
<1>6. CASE CallsDone
  BY <1>0, <1>6, NeverIsLate DEF CallsDone, Register, Types, Watched, Sched
<1>7. CASE RegisterSelect
  <2>1. [task |-> sched.task, fd |-> sched.fd, tto |-> sched.tto] \in Wait
    BY DEF Types, Sched, Wait
  <2> DEFINE w == [task |-> sched.task, fd |-> sched.fd, tto |-> sched.tto]
  <2>2. incoming' = incoming \/ incoming' = Append(incoming, w)
    BY <1>7 DEF RegisterSelect
  <2>3. w \in Wait
    BY <2>1
  <2> HIDE DEF w
  <2>t. incoming \in Seq(Wait)
    BY DEF Types
  <2>a. Append(incoming, w) \in Seq(Wait)
    BY <2>3, <2>t
  <2>4. incoming' \in Seq(Wait)
    BY <2>2, <2>t, <2>a
  <2>5. sched' \in Sched
    BY <1>7 DEF RegisterSelect, Types, Sched
  <2> QED
    BY <1>7, <2>4, <2>5 DEF RegisterSelect, Types, Watched
<1>8. CASE Tick
  BY <1>8, NeverIsLate DEF Tick, Types, Watched
<1>9. ASSUME NEW t \in Tasks, Input(t)
      PROVE  Typed'
  BY <1>9 DEF Input, Types, Watched, HasFd
<1>10. ASSUME NEW th \in Threads, DeferCall(th) \/ QuitFails(th)
       PROVE  Typed'
  <2>1. CASE DeferCall(th)
    BY <1>0, <2>1 DEF DeferCall, Types, Watched, HasFd
  <2>2. CASE QuitFails(th)
    BY <2>2 DEF QuitFails, Types, Watched
  <2> QED
    BY <1>10, <2>1, <2>2
<1>11. ASSUME NEW th \in Signallers, SetEvent(th)
       PROVE  Typed'
  BY <1>11 DEF SetEvent, Types, Watched
<1> QED
  BY <1>1, <1>2, <1>3, <1>4, <1>5, <1>6, <1>7, <1>8, <1>9, <1>10, <1>11

LEMMA TypedHub ==
  ASSUME Typed, HubThread
  PROVE  Typed'
<1> USE DEF Typed, HubRuns, HubGoto, clock, queue, ends, sched_vars, others, history
<1>1. CASE HubScan
  <2>1. Expired \subseteq DOMAIN registered /\ DOMAIN registered \subseteq Tasks
    BY DEF Expired, Types
  <2>2. hub' \in Hub
    BY <1>1, <2>1 DEF HubScan, Types, Hub
  <2>3. Watched'
    <3>1. CASE hasQuit
      BY <1>1, <3>1 DEF HubScan, Types, Hub, Watched
    <3>2. CASE ~hasQuit
      BY <1>1, <2>1, <3>2 DEF HubScan, Watched
    <3> QED
      BY <3>1, <3>2
  <2> QED
    BY <1>1, <2>2, <2>3 DEF HubScan, Types
<1>2. CASE HubReturns
  <2>1. PICK t \in hub.out :
          /\ Deregister(t) /\ task' = [task EXCEPT ![t].rv = (hub.pc = "return")]
          /\ fast_schedule("hub", Plain(t))
          /\ hub' = [hub EXCEPT !.out = @ \ {t},
                                !.pc = IF hub.out # {t} THEN @ ELSE AfterReturn(@)]
    BY <1>2 DEF HubReturns
  <2>2. t \in DOMAIN registered /\ t \in Tasks
    BY <1>2, <2>1 DEF HubReturns, Watched, Types
  <2>3. task' \in [Tasks -> State]
    <3> DEFINE r == hub.pc = "return"
    <3>1. r \in BOOLEAN /\ task' = [task EXCEPT ![t].rv = r]
      BY <2>1
    <3> HIDE DEF r
    <3> QED
      BY <2>2, <3>1 DEF Types, State
  <2>4. ready' \in Seq(Item)
    <3>1. Plain(t) \in Item
      BY <2>2 DEF Plain, Item
    <3> QED
      BY <2>1, <3>1 DEF fast_schedule, Types
  <2>5. unset' \subseteq Signallers
    BY <2>1 DEF fast_schedule, Types, Signallers
  <2>6. /\ DOMAIN registered' = DOMAIN registered \ {t}
        /\ \A u \in DOMAIN registered' : registered'[u] = registered[u]
    BY <2>1 DEF Deregister, Restricted
  <2>7. hub' \in Hub /\ hub'.out = hub.out \ {t} /\ hub'.watch = hub.watch
        /\ hub'.pc = IF hub.out # {t} THEN hub.pc ELSE AfterReturn(hub.pc)
    BY <2>1 DEF Types, Hub, AfterReturn
  <2>8. Watched'
    BY <1>2, <2>1, <2>6, <2>7 DEF HubReturns, Watched, AfterReturn
  <2> QED
    BY <1>2, <2>3, <2>4, <2>5, <2>6, <2>7, <2>8 DEF HubReturns, Types
<1>3. CASE HubSelect
  <2>1. Selected \subseteq hub.watch /\ hub.watch \subseteq DOMAIN registered /\ hub.watch \subseteq Tasks
    BY <1>3 DEF HubSelect, Selected, Watched, Types
  <2>2. PICK pc \in {"pong", "return", "timeout"}, out \in SUBSET hub.watch :
          hub' = [hub EXCEPT !.pc = pc, !.out = out]
    BY <1>3, <2>1 DEF HubSelect
  <2>3. hub' \in Hub /\ hub'.pc = pc /\ hub'.out = out
    BY <2>1, <2>2 DEF Types, Hub
  <2>4. Watched'
    BY <1>3, <2>1, <2>2, <2>3 DEF HubSelect, Watched
  <2> QED
    BY <1>3, <2>3, <2>4 DEF HubSelect, Types
<1>4. CASE HubPong
  <2>1. hub' \in Hub /\ hub'.pc = "drain" /\ hub'.out = hub.out
    BY <1>4 DEF HubPong, Types, Hub
  <2>2. Watched'
    BY <1>4, <2>1 DEF HubPong, Watched
  <2> QED
    BY <1>4, <2>1, <2>2 DEF HubPong, Types
<1>5. CASE HubDrain
  <2> DEFINE arrived == {incoming[i].task : i \in DOMAIN incoming}
             new(t) == CHOOSE i \in DOMAIN incoming : incoming[i].task = t
  <2>1. \A i \in DOMAIN incoming : incoming[i] \in Wait
    BY DEF Types
  <2>2. arrived \subseteq Tasks
    BY <2>1 DEF Wait
  <2>3. \A t \in arrived : new(t) \in DOMAIN incoming
    OBVIOUS
  <2>4. /\ incoming' = <<>>
        /\ registered' = [t \in arrived \cup DOMAIN registered |->
                            IF t \in arrived
                            THEN [fd |-> incoming[new(t)].fd, tto |-> incoming[new(t)].tto]
                            ELSE registered[t]]
    BY <1>5 DEF HubDrain
  <2>5. \A t \in arrived : [fd |-> incoming[new(t)].fd, tto |-> incoming[new(t)].tto] \in [fd: BOOLEAN, tto: Nat]
    BY <2>1, <2>3 DEF Wait
  <2> HIDE DEF arrived, new
  <2>6. /\ DOMAIN registered' = arrived \cup DOMAIN registered
        /\ \A t \in DOMAIN registered' : registered'[t] \in [fd: BOOLEAN, tto: Nat]
    BY <2>4, <2>5 DEF Types
  <2>7. hub' \in Hub /\ hub'.pc = (IF hub.out = {} THEN "scan" ELSE "return") /\ hub'.out = hub.out
    BY <1>5 DEF HubDrain, Types, Hub
  <2>8. Watched'
    BY <1>5, <2>6, <2>7 DEF HubDrain, Watched
  <2>9. incoming' \in Seq(Wait) /\ DOMAIN registered' \subseteq Tasks
    BY <2>2, <2>4, <2>6 DEF Types
  <2> QED
    BY <1>5, <2>6, <2>7, <2>8, <2>9 DEF HubDrain, Types
<1> QED
  BY <1>1, <1>2, <1>3, <1>4, <1>5 DEF HubThread

LEMMA TypedExecutes ==
  ASSUME Typed, NEW t \in Tasks, Executes(t)
  PROVE  Tail(ready) \in Seq(Item) /\ Plain(t) \in Item /\ ready \in Seq(Item) /\ Append(Tail(ready), Plain(t)) \in Seq(Item)
<1>1. ready \in Seq(Item) /\ ready # <<>> /\ Plain(t) \in Item
  BY DEF Typed, Types, Executes, Cycles, Plain, Item
<1>2. Tail(ready) \in Seq(Item)
  BY <1>1
<1> QED
  BY <1>1, <1>2

LEMMA Lives == {"new", "started", "waiting", "done"} = Life
  BY DEF Life

(* A task of which the life and some of the rest change.                   *)
LEMMA TaskTyped ==
  ASSUME task \in [Tasks -> State], NEW t \in Tasks, NEW l \in Life,
         NEW n \in Nat, NEW r \in BOOLEAN,
         \/ task' = [task EXCEPT ![t].life = l]
         \/ task' = [task EXCEPT ![t].life = l, ![t].next = n]
         \/ task' = [task EXCEPT ![t].life = l, ![t].rv = r]
  PROVE  task' \in [Tasks -> State]
<1>1. task[t] \in State
  OBVIOUS
<1>2. CASE task' = [task EXCEPT ![t].life = l]
  BY <1>1, <1>2 DEF State
<1>3. CASE task' = [task EXCEPT ![t].life = l, ![t].next = n]
  BY <1>1, <1>3 DEF State
<1>4. CASE task' = [task EXCEPT ![t].life = l, ![t].rv = r]
  BY <1>1, <1>4 DEF State
<1> QED
  BY <1>2, <1>3, <1>4

(* The scheduler goes on, or registers a task.                             *)
LEMMA SchedTyped ==
  ASSUME sched \in Sched, NEW t \in Tasks, NEW b \in BOOLEAN, NEW n \in Nat,
         \/ sched' = [sched EXCEPT !.pc = "loop"]
         \/ sched' = [sched EXCEPT !.pc = "calls"]
         \/ sched' = [pc |-> "put", task |-> t, fd |-> b, tto |-> n]
  PROVE  sched' \in Sched
<1>1. CASE sched' = [sched EXCEPT !.pc = "loop"]
  BY <1>1 DEF Sched
<1>2. CASE sched' = [sched EXCEPT !.pc = "calls"]
  BY <1>2 DEF Sched
<1>3. CASE sched' = [pc |-> "put", task |-> t, fd |-> b, tto |-> n]
  BY <1>3 DEF Sched
<1> QED
  BY <1>1, <1>2, <1>3

LEMMA TypedTimer ==
  ASSUME Typed, NEW t \in Timers, ExecTimer(t)
  PROVE  Typed'
<1> USE DEF Typed, Goto, clock, ends, hub_vars, others
<1> DEFINE wakes == IF Sleeping(t) THEN now + Delay ELSE task[t].next
<1>1. t \in Tasks /\ wakes \in Nat /\ now \in Nat
  BY NeverIsLate DEF Tasks, Types, State
<1>2. Executes(t)
  BY DEF ExecTimer
<1>3. Tail(ready) \in Seq(Item) /\ Append(Tail(ready), Plain(t)) \in Seq(Item)
  BY <1>1, <1>2, TypedExecutes
<1>4. fired' \in [Timers -> Nat]
  <2>1. fired \in [Timers -> Nat] /\ fired[t] + 1 \in Nat
    BY DEF Types
  <2>2. fired' = fired \/ fired' = [fired EXCEPT ![t] = fired[t] + 1]
    BY DEF ExecTimer
  <2> QED
    BY <2>1, <2>2
<1>5. ready' \in Seq(Item)
  BY <1>3 DEF ExecTimer
<1>6. sched' \in Sched
  <2>1. \/ sched' = [sched EXCEPT !.pc = "loop"]
        \/ sched' = [pc |-> "put", task |-> t, fd |-> FALSE, tto |-> wakes]
    BY DEF ExecTimer, Register
  <2> HIDE DEF wakes
  <2> QED
    BY <1>1, <2>1, SchedTyped DEF Types
<1>7. task' \in [Tasks -> State]
  <2>1. \/ task' = [task EXCEPT ![t].life = "done"]
        \/ task' = [task EXCEPT ![t].life = "waiting", ![t].next = wakes]
    BY DEF ExecTimer
  <2> HIDE DEF wakes
  <2> QED
    BY <1>1, <2>1, Lives, TaskTyped DEF Types
<1> QED
  BY <1>4, <1>5, <1>6, <1>7 DEF ExecTimer, Types, Watched

LEMMA TypedExec ==
  ASSUME Typed,
         \/ ExecSchedule \/ ExecLater
         \/ (\E t \in Readers : ExecReader(t) \/ ExecRaises(t)) \/ (\E t \in Blockers : ExecBlocker(t))
  PROVE  Typed'
<1> USE DEF Typed, Goto, clock, ends, hub_vars, history, others
<1>1. CASE ExecSchedule
  <2>1. ready \in Seq(Item) /\ ready # <<>> /\ Head(ready) \in Item /\ Tail(ready) \in Seq(Item)
    BY <1>1 DEF ExecSchedule, Cycles, Types
  <2>2. Plain(Head(ready).task) \in Item
    BY <2>1 DEF Plain, Item
  <2>3. <<Plain(Head(ready).task)>> \o Tail(ready) \in Seq(Item)
    BY <2>1, <2>2
  <2>4. ready' \in Seq(Item)
    BY <1>1, <2>1, <2>3 DEF ExecSchedule
  <2>5. sched' \in Sched
    BY <1>1 DEF ExecSchedule, Types, Sched
  <2> QED
    BY <1>1, <2>4, <2>5 DEF ExecSchedule, Types, Watched
<1>2. CASE ExecLater
  <2>1. later \in Tasks /\ Executes(later)
    BY <1>2 DEF Tasks, ExecLater
  <2>2. ready' \in Seq(Item)
    BY <1>2, <2>1, TypedExecutes DEF ExecLater
  <2>3. sched' \in Sched
    <3>1. \/ sched' = [sched EXCEPT !.pc = "calls"]
          \/ sched' = [pc |-> "put", task |-> later, fd |-> TRUE, tto |-> Never]
      BY <1>2 DEF ExecLater, Register
    <3> QED
      BY <2>1, <3>1, NeverIsLate, SchedTyped DEF Types
  <2>4. task' \in [Tasks -> State]
    BY <1>2, <2>1, Lives, TaskTyped DEF ExecLater, Types
  <2>5. readable' \subseteq readable
    BY <1>2 DEF ExecLater
  <2> QED
    BY <1>2, <2>2, <2>3, <2>4, <2>5 DEF ExecLater, Types, Watched
<1>3. ASSUME NEW t \in Readers, ExecReader(t)
      PROVE  Typed'
  <2>1. t \in Tasks /\ Executes(t)
    BY <1>3 DEF Tasks, ExecReader
  <2>2. ready' \in Seq(Item)
    BY <1>3, <2>1, TypedExecutes DEF ExecReader
  <2>3. sched' \in Sched
    <3>1. now + SelectTimeout \in Nat
      BY NeverIsLate DEF Types
    <3> QED
      BY <1>3, <2>1, <3>1 DEF ExecReader, Register, Sched
  <2>4. task' \in [Tasks -> State]
    <3>1. task' = [task EXCEPT ![t].life = "waiting", ![t].rv = FALSE]
      BY <1>3 DEF ExecReader
    <3> QED
      BY <2>1, <3>1, Lives, TaskTyped DEF Types
  <2>5. readable' \subseteq readable
    BY <1>3 DEF ExecReader
  <2> QED
    BY <1>3, <2>2, <2>3, <2>4, <2>5 DEF ExecReader, Types, Watched
<1>4. ASSUME NEW t \in Blockers, ExecBlocker(t)
      PROVE  Typed'
  <2>1. t \in Tasks /\ Executes(t)
    BY <1>4 DEF Tasks, ExecBlocker
  <2>2. ready' \in Seq(Item)
    BY <1>4, <2>1, TypedExecutes DEF ExecBlocker
  <2>3. sched' \in Sched
    BY <1>4 DEF ExecBlocker, Types, Sched
  <2>4. task' \in [Tasks -> State]
    <3>1. task' = [task EXCEPT ![t].life = "waiting"] \/ task' = [task EXCEPT ![t].life = "done"]
      BY <1>4 DEF ExecBlocker
    <3> QED
      BY <2>1, <3>1, Lives, TaskTyped DEF Types
  <2>5. blocked' \subseteq Blockers
    BY <1>4 DEF ExecBlocker, Types
  <2> QED
    BY <1>4, <2>2, <2>3, <2>4, <2>5 DEF ExecBlocker, Types, Watched
<1>5. ASSUME NEW t \in Readers, ExecRaises(t)
      PROVE  Typed'
  <2>1. t \in Tasks /\ Executes(t)
    BY <1>5 DEF Tasks, ExecRaises
  <2>2. ready' \in Seq(Item)
    BY <1>5, <2>1, TypedExecutes DEF ExecRaises
  <2>3. sched' \in Sched
    BY <1>5 DEF ExecRaises, Types, Sched
  <2>4. task' \in [Tasks -> State]
    BY <1>5, <2>1, Lives, TaskTyped DEF ExecRaises, Types
  <2> QED
    BY <1>5, <2>2, <2>3, <2>4 DEF ExecRaises, Types, Watched
<1> QED
  BY <1>1, <1>2, <1>3, <1>4, <1>5

LEMMA TypedStart ==
  ASSUME Typed,
         \/ \E t \in Tasks : Start(t) \/ BlockingReturns(t)
         \/ \E th \in Threads : CallLater(th)
  PROVE  Typed'
<1> USE DEF Typed, fast_schedule, ends, hub_vars, history, clock, others
<1>1. ASSUME NEW t \in Tasks, Start(t)
      PROVE  Typed'
  <2>1. Wrap(t) \in Item /\ now + Delay \in Nat
    BY NeverIsLate DEF Wrap, Item, Types
  <2>2. ready' \in Seq(Item) /\ unset' \subseteq Signallers
    BY <1>1, <2>1 DEF Start, Types, Signallers
  <2>3. task' \in [Tasks -> State]
    <3>1. task' = [task EXCEPT ![t].life = "started", ![t].next = now + Delay]
      BY <1>1 DEF Start
    <3> DEFINE n == now + Delay
    <3>2. n \in Nat /\ task' = [task EXCEPT ![t].life = "started", ![t].next = n]
      BY <2>1, <3>1
    <3> HIDE DEF n
    <3> QED
      BY <3>2, Lives, TaskTyped DEF Types
  <2> QED
    BY <1>1, <2>2, <2>3 DEF Start, Types, Watched
<1>2. ASSUME NEW t \in Tasks, BlockingReturns(t)
      PROVE  Typed'
  <2>1. Plain(t) \in Item /\ t \in Signallers
    BY <1>2 DEF Plain, Item, Types, BlockingReturns, Signallers
  <2>2. ready' \in Seq(Item) /\ unset' \subseteq Signallers
    BY <1>2, <2>1 DEF BlockingReturns, Types
  <2>3. task' \in [Tasks -> State]
    BY <1>2 DEF BlockingReturns, Types, State
  <2>4. blocked' \subseteq Blockers
    BY <1>2 DEF BlockingReturns, Types
  <2> QED
    BY <1>2, <2>2, <2>3, <2>4 DEF BlockingReturns, Types, Watched
<1>3. ASSUME NEW th \in Threads, CallLater(th)
      PROVE  Typed'
  <2>1. later \in Tasks /\ Wrap(later) \in Item
    BY DEF Tasks, Wrap, Item
  <2>2. ready' \in Seq(Item) /\ unset' \subseteq Signallers
    <3>1. \/ UNCHANGED <<ready, unset>>
          \/ ready' = Append(ready, Wrap(later)) /\ unset' = unset \cup {th}
      BY <1>3 DEF CallLater
    <3>2. th \in Signallers /\ ready \in Seq(Item) /\ unset \subseteq Signallers
      BY DEF Types, Signallers
    <3> QED
      BY <2>1, <3>1, <3>2
  <2>3. task' \in [Tasks -> State]
    <3>1. task' = task \/ task' = [task EXCEPT ![later].life = "started"]
      BY <1>3 DEF CallLater
    <3> QED
      BY <2>1, <3>1, Lives, TaskTyped DEF Types
  <2> QED
    BY <1>3, <2>2, <2>3 DEF CallLater, Types, Watched
<1> QED
  BY <1>1, <1>2, <1>3

-----------------------------------------------------------------------------
(* OnePlace, action by action.                                             *)
LEMMA PlaceStill ==
  ASSUME Base,
         \/ SchedLoop \/ SchedWake \/ SchedWakeLate \/ SchedClear \/ SchedIdle \/ MakeCall
         \/ HubScan \/ HubSelect \/ HubPong \/ Tick
         \/ (\E t \in Tasks : Input(t))
         \/ (\E th \in Threads : DeferCall(th) \/ QuitFails(th))
         \/ (\E th \in Signallers : SetEvent(th))
         \/ (sched.pc = "ping" /\ RegisterSelect)
  PROVE  OnePlace'
<1> USE DEF Base, Goto, clock, queue, ends, sched_vars, hub_vars, others, history
<1>0. sched \in Sched /\ task \in [Tasks -> State]
  BY DEF Types
<1>1. CASE SchedLoop
  BY <1>0, <1>1, Still DEF SchedLoop, Sched
<1>2. CASE SchedWake \/ SchedWakeLate
  BY <1>0, <1>2, Still DEF SchedWake, SchedWakeLate, Sched
<1>3. CASE SchedClear
  BY <1>0, <1>3, Still DEF SchedClear, Sched
<1>4. CASE SchedIdle
  BY <1>0, <1>4, Still DEF SchedIdle, Sched
<1>5. CASE MakeCall
  <2> DEFINE f == program.calls[Head(calls)]
  <2>1. task' = IF f \in Timers THEN [task EXCEPT ![f].cancelled = TRUE] ELSE task
    BY <1>5 DEF MakeCall
  <2> HIDE DEF f
  <2>2. \A u \in Tasks : task'[u].life = task[u].life
    BY <1>0, <2>1 DEF State
  <2> QED
    BY <1>5, <2>2, Still DEF MakeCall
<1>6. CASE HubScan \/ HubSelect \/ HubPong
  BY <1>6, Still DEF HubScan, HubSelect, HubPong
<1>7. CASE Tick \/ (\E t \in Tasks : Input(t)) \/ (\E th \in Threads : DeferCall(th) \/ QuitFails(th))
           \/ (\E th \in Signallers : SetEvent(th))
  BY <1>7, Still DEF Tick, Input, DeferCall, QuitFails, SetEvent
<1>8. CASE sched.pc = "ping" /\ RegisterSelect
  BY <1>0, <1>8, Still DEF RegisterSelect, Sched
<1> QED
  BY <1>1, <1>2, <1>3, <1>4, <1>5, <1>6, <1>7, <1>8

LEMMA PlaceQueued ==
  ASSUME Base,
         \/ \E t \in Tasks : Start(t) \/ BlockingReturns(t)
         \/ \E th \in Threads : CallLater(th)
         \/ HubReturns
  PROVE  OnePlace'
<1> USE DEF Base, fast_schedule, ends, hub_vars, history, clock, others
<1>0. task \in [Tasks -> State]
  BY DEF Types
<1>1. ASSUME NEW t \in Tasks, Start(t)
      PROVE  OnePlace'
  <2>1. Wrap(t) \in Item /\ Wrap(t).task = t
    BY DEF Wrap, Item
  <2>2. /\ ready' = Append(ready, Wrap(t)) /\ UNCHANGED <<incoming, sched, registered, blocked>>
        /\ task[t].life = "new"
        /\ task' = [task EXCEPT ![t].life = "started", ![t].next = now + Delay]
    BY <1>1 DEF Start
  <2>3. task'[t].life = "started" /\ \A u \in Tasks \ {t} : task'[u].life = task[u].life
    BY <1>0, <2>2 DEF State
  <2>4. t \notin DOMAIN registered /\ t \notin blocked
    <3>1. Placed(t) /\ Due1(t) = 0
      BY <2>2, Places DEF Due1
    <3>2. /\ Count(ready, t) \in Nat /\ Count(incoming, t) \in Nat
          /\ Moving(t) \in 0..1 /\ InHub(t) \in 0..1 /\ InThread(t) \in 0..1
      BY PlaceTypes
    <3>3. InHub(t) = 0 /\ InThread(t) = 0
      BY <3>1, <3>2 DEF Placed
    <3> QED
      BY <3>3 DEF InHub, InThread
  <2> DEFINE item == Wrap(t)
  <2> HIDE DEF item
  <2> QED
    BY <2>1, <2>2, <2>3, <2>4, Queued
<1>2. ASSUME NEW t \in Tasks, BlockingReturns(t)
      PROVE  OnePlace'
  <2>1. Plain(t) \in Item /\ Plain(t).task = t
    BY DEF Plain, Item
  <2>2. /\ ready' = Append(ready, Plain(t)) /\ UNCHANGED <<incoming, sched, registered>>
        /\ t \in blocked /\ blocked' = blocked \ {t}
        /\ task' = [task EXCEPT ![t].rv = TRUE]
    BY <1>2 DEF BlockingReturns
  <2>3. \A u \in Tasks : task'[u].life = task[u].life
    BY <1>0, <2>2 DEF State
  <2>4. t \notin DOMAIN registered /\ task[t].life \notin {"new", "done"}
    <3>1. Placed(t) /\ InThread(t) = 1
      BY <2>2, Places DEF InThread
    <3>2. /\ Count(ready, t) \in Nat /\ Count(incoming, t) \in Nat
          /\ Moving(t) \in 0..1 /\ InHub(t) \in 0..1 /\ Due1(t) \in 0..1
      BY PlaceTypes
    <3>3. InHub(t) = 0 /\ Due1(t) = 1
      BY <3>1, <3>2 DEF Placed
    <3> QED
      BY <3>3 DEF InHub, Due1
  <2> QED
    BY <2>1, <2>2, <2>3, <2>4, Queued
<1>3. ASSUME NEW th \in Threads, CallLater(th)
      PROVE  OnePlace'
  <2>0. UNCHANGED <<incoming, sched, registered, blocked>> /\ later \in Tasks
    BY <1>3 DEF CallLater, Tasks
  <2>1. CASE task[later].life # "new"
    BY <1>3, <2>0, <2>1, Still DEF CallLater
  <2>2. CASE task[later].life = "new"
    <3>1. Wrap(later) \in Item /\ Wrap(later).task = later
      BY <2>0 DEF Wrap, Item
    <3>2. /\ ready' = Append(ready, Wrap(later))
          /\ task' = [task EXCEPT ![later].life = "started"]
      BY <1>3, <2>2 DEF CallLater
    <3>3. task'[later].life = "started" /\ \A u \in Tasks \ {later} : task'[u].life = task[u].life
      BY <1>0, <2>0, <3>2 DEF State
    <3>4. later \notin DOMAIN registered /\ later \notin blocked
      <4>1. Placed(later) /\ Due1(later) = 0
        BY <2>0, <2>2, Places DEF Due1
      <4>2. /\ Count(ready, later) \in Nat /\ Count(incoming, later) \in Nat
            /\ Moving(later) \in 0..1 /\ InHub(later) \in 0..1 /\ InThread(later) \in 0..1
        BY PlaceTypes
      <4>3. InHub(later) = 0 /\ InThread(later) = 0
        BY <4>1, <4>2 DEF Placed
      <4> QED
        BY <4>3 DEF InHub, InThread
    <3> QED
      BY <2>0, <2>2, <3>1, <3>2, <3>3, <3>4, Queued
  <2> QED
    BY <2>1, <2>2
<1>4. CASE HubReturns
  <2>1. PICK t \in hub.out :
          /\ Deregister(t) /\ task' = [task EXCEPT ![t].rv = (hub.pc = "return")]
          /\ ready' = Append(ready, Plain(t))
    BY <1>4 DEF HubReturns
  <2>2. t \in DOMAIN registered /\ t \in Tasks
    BY <1>4, <2>1 DEF HubReturns, Watched, Types
  <2>3. Plain(t) \in Item /\ Plain(t).task = t
    BY <2>2 DEF Plain, Item
  <2>4. \A u \in Tasks : task'[u].life = task[u].life
    BY <1>0, <2>1 DEF State
  <2>5. UNCHANGED <<incoming, sched, blocked>>
    BY <1>4 DEF HubReturns
  <2>6. DOMAIN registered' = DOMAIN registered \ {t}
    BY <2>1 DEF Deregister, Restricted
  <2>7. t \notin blocked /\ task[t].life \notin {"new", "done"}
    <3>1. Placed(t) /\ InHub(t) = 1
      BY <2>2, Places DEF InHub
    <3>2. /\ Count(ready, t) \in Nat /\ Count(incoming, t) \in Nat
          /\ Moving(t) \in 0..1 /\ InThread(t) \in 0..1 /\ Due1(t) \in 0..1
      BY PlaceTypes
    <3>3. InThread(t) = 0 /\ Due1(t) = 1
      BY <3>1, <3>2 DEF Placed
    <3> QED
      BY <3>3 DEF InThread, Due1
  <2> QED
    BY <2>1, <2>2, <2>3, <2>4, <2>5, <2>6, <2>7, Queued
<1> QED
  BY <1>1, <1>2, <1>3, <1>4

LEMMA PlaceExecuted ==
  ASSUME Base,
         \/ ExecLater \/ (\E t \in Timers : ExecTimer(t))
         \/ (\E t \in Readers : ExecReader(t) \/ ExecRaises(t)) \/ (\E t \in Blockers : ExecBlocker(t))
  PROVE  OnePlace'
<1> USE DEF Goto, ends, hub_vars, history, clock, others
<1>0. task \in [Tasks -> State] /\ sched \in Sched /\ blocked \subseteq Blockers
  BY DEF Base, Types
<1>h. ASSUME NEW t \in Tasks, Executes(t)
      PROVE  Taken(t)
  BY <1>h, TakesHead DEF Executes, Plain
<1>1. CASE ExecLater
  <2>1. later \in Tasks /\ Taken(later)
    BY <1>1, <1>h DEF Tasks, ExecLater
  <2>2. /\ UNCHANGED <<incoming, registered, blocked>> /\ ready' = Tail(ready)
        /\ task' = [task EXCEPT ![later].life = "waiting"]
    BY <1>1 DEF ExecLater
  <2>3. task'[later].life = "waiting" /\ \A u \in Tasks \ {later} : task'[u].life = task[u].life
    BY <1>0, <2>1, <2>2 DEF State
  <2>4. \/ sched'.pc = "put" /\ sched'.task = later
        \/ sched'.pc = "calls"
    BY <1>0, <1>1 DEF ExecLater, Register, Sched
  <2>5. later \notin blocked
    BY <2>1 DEF Taken
  <2> QED
    BY <2>1, <2>2, <2>3, <2>4, <2>5, Executed
<1>2. ASSUME NEW t \in Timers, ExecTimer(t)
      PROVE  OnePlace'
  <2>1. t \in Tasks /\ Taken(t) /\ Plain(t) \in Item /\ Plain(t).task = t
    BY <1>2, <1>h DEF Tasks, ExecTimer, Plain, Item
  <2>2. UNCHANGED <<incoming, registered, blocked>>
    BY <1>2 DEF ExecTimer
  <2>3. t \notin blocked
    BY <2>1 DEF Taken
  <2> DEFINE wakes == IF Sleeping(t) THEN now + Delay ELSE task[t].next
             Ends == /\ ready' = Tail(ready) /\ task' = [task EXCEPT ![t].life = "done"]
                     /\ sched' = [sched EXCEPT !.pc = "loop"]
             Sleeps ==
               /\ task' = [task EXCEPT ![t].life = "waiting", ![t].next = wakes]
               /\ \/ sched' = [sched EXCEPT !.pc = "loop"] /\ ready' = Append(Tail(ready), Plain(t))
                  \/ sched' = [pc |-> "put", task |-> t, fd |-> FALSE, tto |-> wakes] /\ ready' = Tail(ready)
  <2>c. Ends \/ Sleeps
    BY <1>2 DEF ExecTimer, Register
  <2> HIDE DEF wakes
  <2>4. CASE Ends
    <3>1. ready' = Tail(ready) /\ task' = [task EXCEPT ![t].life = "done"]
          /\ sched' = [sched EXCEPT !.pc = "loop"]
      BY <2>4
    <3>2. task'[t].life = "done" /\ \A u \in Tasks \ {t} : task'[u].life = task[u].life
      BY <1>0, <2>1, <3>1 DEF State
    <3>3. sched'.pc \notin {"put", "calls"}
      BY <1>0, <3>1 DEF Sched
    <3> QED
      BY <2>1, <2>2, <2>3, <3>1, <3>2, <3>3, Executed
  <2>5. CASE Sleeps
    <3>1. /\ task' = [task EXCEPT ![t].life = "waiting", ![t].next = wakes]
          /\ \/ sched' = [sched EXCEPT !.pc = "loop"] /\ ready' = Append(Tail(ready), Plain(t))
             \/ sched' = [pc |-> "put", task |-> t, fd |-> FALSE, tto |-> wakes] /\ ready' = Tail(ready)
      BY <2>5
    <3>2. task'[t].life = "waiting" /\ \A u \in Tasks \ {t} : task'[u].life = task[u].life
      BY <1>0, <2>1, <3>1 DEF State
    <3>3. \/ sched'.pc \notin {"put", "calls"} /\ ready' = Append(Tail(ready), Plain(t))
          \/ sched'.pc = "put" /\ sched'.task = t /\ ready' = Tail(ready)
      BY <1>0, <3>1 DEF Sched
    <3> QED
      BY <2>1, <2>2, <2>3, <3>2, <3>3, Executed
  <2> QED
    BY <2>c, <2>4, <2>5
<1>3. ASSUME NEW t \in Readers, ExecReader(t)
      PROVE  OnePlace'
  <2>1. t \in Tasks /\ Taken(t)
    BY <1>3, <1>h DEF Tasks, ExecReader
  <2>2. /\ UNCHANGED <<incoming, registered, blocked>> /\ ready' = Tail(ready)
        /\ task' = [task EXCEPT ![t].life = "waiting", ![t].rv = FALSE]
        /\ sched' = [pc |-> "put", task |-> t, fd |-> TRUE, tto |-> now + SelectTimeout]
    BY <1>3 DEF ExecReader, Register
  <2>3. task'[t].life = "waiting" /\ \A u \in Tasks \ {t} : task'[u].life = task[u].life
    BY <1>0, <2>1, <2>2 DEF State
  <2>4. sched'.pc = "put" /\ sched'.task = t
    BY <2>2
  <2>5. t \notin blocked
    BY <2>1 DEF Taken
  <2> QED
    BY <2>1, <2>2, <2>3, <2>4, <2>5, Executed
<1>4. ASSUME NEW t \in Blockers, ExecBlocker(t)
      PROVE  OnePlace'
  <2>1. t \in Tasks /\ Taken(t)
    BY <1>4, <1>h DEF Tasks, ExecBlocker
  <2>2. /\ UNCHANGED <<incoming, registered>> /\ ready' = Tail(ready)
        /\ sched' = [sched EXCEPT !.pc = "loop"]
        /\ \/ task' = [task EXCEPT ![t].life = "waiting"] /\ blocked' = blocked \cup {t}
           \/ task' = [task EXCEPT ![t].life = "done"] /\ blocked' = blocked
    BY <1>4 DEF ExecBlocker
  <2>3. /\ \/ task'[t].life = "waiting" /\ t \in blocked'
           \/ task'[t].life = "done" /\ blocked' = blocked
        /\ \A u \in Tasks \ {t} : task'[u].life = task[u].life /\ (u \in blocked' <=> u \in blocked)
    BY <1>0, <2>1, <2>2 DEF State
  <2>4. sched'.pc \notin {"put", "calls"}
    BY <1>0, <2>2 DEF Sched
  <2>5. t \notin blocked
    BY <2>1 DEF Taken
  <2> QED
    BY <2>1, <2>2, <2>3, <2>4, <2>5, Executed
<1>5. ASSUME NEW t \in Readers, ExecRaises(t)
      PROVE  OnePlace'
  <2>1. t \in Tasks /\ Taken(t)
    BY <1>5, <1>h DEF Tasks, ExecRaises
  <2>2. /\ UNCHANGED <<incoming, registered, blocked>> /\ ready' = Tail(ready)
        /\ sched' = [sched EXCEPT !.pc = "loop"] /\ task' = [task EXCEPT ![t].life = "done"]
    BY <1>5 DEF ExecRaises
  <2>3. task'[t].life = "done" /\ \A u \in Tasks \ {t} : task'[u].life = task[u].life
    BY <1>0, <2>1, <2>2 DEF State
  <2>4. sched'.pc \notin {"put", "calls"}
    BY <1>0, <2>2 DEF Sched
  <2>5. t \notin blocked
    BY <2>1 DEF Taken
  <2> QED
    BY <2>1, <2>2, <2>3, <2>4, <2>5, Executed
<1> QED
  BY <1>1, <1>2, <1>3, <1>4, <1>5

(* ScheduleTask finds no other entry of its task, and puts the task where  *)
(* it was itself.                                                          *)
LEMMA ScheduleReplaces ==
  ASSUME Base, ExecSchedule
  PROVE  /\ Head(ready).task \in Tasks /\ Len(ready') = Len(ready) /\ ready' \in Seq(Item)
         /\ \A i \in DOMAIN ready : ready'[i].task = ready[i].task
<1> DEFINE t == Head(ready).task
           z == Tail(ready)
           n == Len(ready)
<1>0. ready \in Seq(Item) /\ ready # <<>> /\ Head(ready).wrapped /\ Cycles
  BY DEF Base, Types, ExecSchedule, Cycles
<1>1. /\ ready \in Seq(Item) /\ ready # <<>> /\ Head(ready) \in Item /\ t \in Tasks
      /\ Head(ready).wrapped /\ Cycles
  <2>1. Head(ready) \in Item
    BY <1>0
  <2> QED
    BY <1>0, <2>1 DEF Item
<1>2. Taken(t)
  BY <1>1, TakesHead
<1>3. z \in Seq(Item) /\ Count(z, t) = 0
  BY <1>2 DEF Taken
<1>4. \A i \in DOMAIN z : z[i].task # t
  <2> HIDE DEF z, t
  <2> QED
    BY <1>3, CountType
<1>5. /\ n \in Nat /\ DOMAIN ready = 1..n /\ n > 0 /\ Len(z) = n - 1 /\ DOMAIN z = 1..(n - 1)
      /\ ready[1] = Head(ready) /\ \A i \in 1..(n - 1) : z[i] = ready[i + 1]
  BY <1>1
<1>6. Plain(t) \in Item /\ Plain(t).task = t /\ Plain(t).wrapped = FALSE
  BY <1>1 DEF Plain, Item
<1>7. Plain(t) \notin {ready[i] : i \in DOMAIN ready}
  <2> SUFFICES ASSUME NEW i \in 1..n, ready[i] = Plain(t)
               PROVE  FALSE
    BY <1>5
  <2>1. i # 1
    BY <1>1, <1>5, <1>6
  <2>2. i - 1 \in 1..(n - 1) /\ (i - 1) + 1 = i
    BY <1>5, <2>1
  <2>3. z[i - 1] = ready[i]
    BY <1>5, <2>2
  <2> QED
    BY <1>4, <1>5, <1>6, <2>2, <2>3
<1>8. ready' = <<Plain(t)>> \o z
  BY <1>7 DEF ExecSchedule
<1> DEFINE p == Plain(t)
<1> HIDE DEF z, p
<1>9. ready' = <<p>> \o z /\ p \in Item /\ p.task = t
  BY <1>6, <1>8 DEF p
<1>10. /\ Len(ready') = Len(z) + 1 /\ ready'[1] = p /\ ready' \in Seq(Item)
       /\ \A i \in 2..(Len(z) + 1) : ready'[i] = z[i - 1]
  BY <1>3, <1>9
<1>11. ASSUME NEW i \in 1..n
       PROVE  ready'[i].task = ready[i].task
  <2>1. CASE i = 1
    BY <1>5, <1>9, <1>10, <2>1
  <2>2. CASE i # 1
    <3>1. i - 1 \in 1..(n - 1) /\ (i - 1) + 1 = i /\ i \in 2..(Len(z) + 1)
      BY <1>5, <2>2
    <3> QED
      BY <1>5, <1>10, <3>1
  <2> QED
    BY <2>1, <2>2
<1> QED
  BY <1>1, <1>5, <1>10, <1>11

LEMMA PlaceMoved ==
  ASSUME Base,
         ExecSchedule \/ CallsDone \/ (sched.pc = "put" /\ RegisterSelect) \/ HubDrain
  PROVE  OnePlace'
<1> USE DEF Goto, ends, hub_vars, history, clock, others, queue, sched_vars
<1>0. Types /\ sched \in Sched /\ incoming \in Seq(Wait) /\ ready \in Seq(Item)
  BY DEF Base, Types
<1> SUFFICES ASSUME NEW u \in Tasks
             PROVE  Placed(u)'
  BY DEF OnePlace, Times, Placed, Count, At, Moving, InHub, InThread, Due1
<1>p. Placed(u)
  BY Places DEF Base
<1>t. /\ Count(ready, u) \in Nat /\ Count(incoming, u) \in Nat
      /\ Moving(u) \in 0..1 /\ InHub(u) \in 0..1 /\ InThread(u) \in 0..1 /\ Due1(u) \in 0..1
  BY <1>0, PlaceTypes
<1>1. CASE ExecSchedule
  <2>1. At(ready', u) = At(ready, u)
    <3>1. DOMAIN ready' = DOMAIN ready
      BY <1>0, <1>1, ScheduleReplaces
    <3>2. \A i \in DOMAIN ready : ready'[i].task = ready[i].task
      BY <1>1, ScheduleReplaces
    <3> QED
      BY <3>1, <3>2 DEF At
  <2>2. UNCHANGED <<incoming, registered, blocked, task>> /\ sched' = [sched EXCEPT !.pc = "loop"]
        /\ sched.pc \in {"cycle", "loop"}
    BY <1>1 DEF ExecSchedule, Cycles
  <2>3. Moving(u)' = Moving(u)
    BY <1>0, <2>2 DEF Moving, Sched
  <2>4. InHub(u)' = InHub(u) /\ InThread(u)' = InThread(u) /\ Due1(u)' = Due1(u)
        /\ Count(incoming', u) = Count(incoming, u) /\ Count(ready', u) = Count(ready, u)
    BY <2>1, <2>2 DEF InHub, InThread, Due1, Count
  <2> QED
    BY <1>p, <2>3, <2>4 DEF Placed
<1>2. CASE CallsDone
  <2>1. UNCHANGED <<ready, incoming, registered, blocked, task>> /\ sched.pc = "calls"
        /\ sched' = [pc |-> "put", task |-> later, fd |-> TRUE, tto |-> Never]
    BY <1>2 DEF CallsDone, Register
  <2>2. Moving(u)' = Moving(u)
    BY <2>1 DEF Moving
  <2> QED
    BY <1>p, <2>1, <2>2 DEF Placed, InHub, InThread, Due1
<1>3. CASE sched.pc = "put" /\ RegisterSelect
  <2> DEFINE w == [task |-> sched.task, fd |-> sched.fd, tto |-> sched.tto]
  <2>1. UNCHANGED <<ready, registered, blocked, task>> /\ incoming' = Append(incoming, w)
        /\ sched' = [sched EXCEPT !.pc = "ping"]
    BY <1>3 DEF RegisterSelect
  <2>2. w \in Wait /\ w.task = sched.task
    BY <1>0 DEF Wait, Sched
  <2> HIDE DEF w
  <2>3. Count(incoming', u) = Count(incoming, u) + (IF w.task = u THEN 1 ELSE 0)
    BY <1>0, <2>1, <2>2, CountAppend
  <2>4. Moving(u)' = 0 /\ Moving(u) = IF w.task = u THEN 1 ELSE 0
    BY <1>0, <1>3, <2>1, <2>2 DEF Moving, Sched
  <2>5. InHub(u)' = InHub(u) /\ InThread(u)' = InThread(u) /\ Due1(u)' = Due1(u)
        /\ Count(ready', u) = Count(ready, u)
    BY <2>1 DEF InHub, InThread, Due1
  <2> QED
    BY <1>p, <1>t, <2>3, <2>4, <2>5 DEF Placed
<1>4. CASE HubDrain
  <2> DEFINE arrived == {incoming[i].task : i \in DOMAIN incoming}
  <2>1. UNCHANGED <<ready, blocked, task, sched>> /\ incoming' = <<>>
        /\ DOMAIN registered' = arrived \cup DOMAIN registered
    BY <1>4 DEF HubDrain
  <2>2. u \in arrived <=> Count(incoming, u) # 0
    BY <1>0, CountType
  <2>3. Count(incoming', u) = 0
    <3>1. incoming' \in Seq(Wait) /\ DOMAIN incoming' = {}
      BY <2>1
    <3> QED
      BY <3>1, CountType
  <2> HIDE DEF arrived
  <2>4. Moving(u)' = Moving(u) /\ InThread(u)' = InThread(u) /\ Due1(u)' = Due1(u)
        /\ Count(ready', u) = Count(ready, u)
    BY <2>1 DEF InThread, Due1, Moving
  <2>5. InHub(u)' = IF Count(incoming, u) # 0 THEN 1 ELSE InHub(u)
    BY <2>1, <2>2 DEF InHub
  <2> QED
    BY <1>p, <1>t, <2>3, <2>4, <2>5 DEF Placed
<1> QED
  BY <1>1, <1>2, <1>3, <1>4

(* Base is inductive.                                                      *)
LEMMA BaseInit == Init => Base
<1> SUFFICES ASSUME Init
             PROVE  Base
  OBVIOUS
<1>0. later \in Tasks
  BY DEF Tasks
<1>1. Types
  <2>1. program.until \in 0..MaxTime /\ now \in 0..program.until
        /\ DOMAIN program = {"tasks", "calls", "input", "until"}
    BY ProgramsAssumption, NeverIsLate DEF Init
  <2>2. sched \in Sched /\ hub \in Hub
    BY <1>0, NeverIsLate DEF Init, Sched, Hub
  <2>3. task \in [Tasks -> State]
    BY NeverIsLate DEF Init, State, Life
  <2>4. fired \in [Timers -> Nat]
    BY DEF Init
  <2>5. DOMAIN registered = {}
    BY DEF Init
  <2>6. ready \in Seq(Item) /\ incoming \in Seq(Wait)
    BY DEF Init
  <2>7. unset = {} /\ readable = {} /\ blocked = {}
    BY DEF Init
  <2> QED
    BY <2>1, <2>2, <2>3, <2>4, <2>5, <2>6, <2>7 DEF Types
<1>2. Watched
  BY DEF Init, Watched
<1>3. OnePlace
  <2> SUFFICES ASSUME NEW u \in Tasks
               PROVE  Placed(u)
    BY Places
  <2>1. ready \in Seq(Item) /\ DOMAIN ready = {} /\ incoming \in Seq(Wait) /\ DOMAIN incoming = {}
    BY DEF Init
  <2>2. Count(ready, u) = 0 /\ Count(incoming, u) = 0
    BY <2>1, CountType
  <2>3. DOMAIN registered = {} /\ blocked = {} /\ sched.pc = "loop" /\ task[u].life = "new"
    BY DEF Init
  <2> QED
    BY <2>2, <2>3 DEF Placed, Moving, InHub, InThread, Due1
<1> QED
  BY <1>1, <1>2, <1>3 DEF Base

LEMMA BaseNext ==
  ASSUME Base, [Next]_vars
  PROVE  Base'
<1>0. Typed /\ OnePlace
  BY DEF Base, Typed
<1>1. CASE Next
  <2>1. Typed'
    BY <1>0, <1>1, TypedQuiet, TypedHub, TypedTimer, TypedExec, TypedStart
       DEF Next, SchedulerThread
  <2>2. OnePlace'
    <3>1. RegisterSelect => sched.pc \in {"put", "ping"}
      BY DEF RegisterSelect
    <3> QED
      BY <1>1, <3>1, PlaceStill, PlaceQueued, PlaceExecuted, PlaceMoved
         DEF Next, SchedulerThread, HubThread
  <2> QED
    BY <2>1, <2>2 DEF Base, Typed
<1>2. CASE UNCHANGED vars
  <2>1. Typed'
    BY <1>0, <1>2 DEF Typed, Types, Watched, vars, clock, sched_vars, queue, ends, hub_vars, others, history
  <2>2. OnePlace'
    BY <1>0, <1>2, Still DEF vars, clock, sched_vars, queue, ends, hub_vars, others, history
  <2> QED
    BY <2>1, <2>2 DEF Base, Typed
<1> QED
  BY <1>1, <1>2
-----------------------------------------------------------------------------
(* OnTime.  What a step does to the places where a Timer may be.           *)
ReadyKept(t) == \A i \in DOMAIN ready' : ready'[i].task = t => \E j \in DOMAIN ready : ready[j].task = t
IncomingKept(t) ==
  \A i \in DOMAIN incoming' : incoming'[i].task = t => \E j \in DOMAIN incoming : incoming[j] = incoming'[i]
SchedKept(t) == sched'.pc = "put" /\ sched'.task = t => sched' = sched
HubKept(t) == t \in DOMAIN registered' => t \in DOMAIN registered /\ registered'[t] = registered[t]
TaskKept(t) == task'[t].life = "waiting" => task[t].life = "waiting" /\ task'[t].next = task[t].next
Kept(t) == ReadyKept(t) /\ IncomingKept(t) /\ SchedKept(t) /\ HubKept(t) /\ TaskKept(t)

LEMMA TimedKept ==
  ASSUME NEW t, Timed(t), now \in Nat, now' \in Nat, now <= now', task[t].next \in Nat, Kept(t)
  PROVE  Timed(t)'
<1> SUFFICES ASSUME task'[t].life = "waiting"
             PROVE  /\ \A i \in DOMAIN ready' : ready'[i].task = t => task'[t].next <= now'
                    /\ \A i \in DOMAIN incoming' :
                         incoming'[i].task = t => incoming'[i].tto = task'[t].next /\ ~incoming'[i].fd
                    /\ sched'.pc = "put" /\ sched'.task = t => sched'.tto = task'[t].next /\ ~sched'.fd
                    /\ t \in DOMAIN registered' =>
                         registered'[t].tto = task'[t].next /\ ~registered'[t].fd
  BY DEF Timed
<1>1. task[t].life = "waiting" /\ task'[t].next = task[t].next
  BY DEF Kept, TaskKept
<1>2. /\ \A i \in DOMAIN ready : ready[i].task = t => task[t].next <= now
      /\ \A i \in DOMAIN incoming :
           incoming[i].task = t => incoming[i].tto = task[t].next /\ ~incoming[i].fd
      /\ sched.pc = "put" /\ sched.task = t => sched.tto = task[t].next /\ ~sched.fd
      /\ t \in DOMAIN registered => registered[t].tto = task[t].next /\ ~registered[t].fd
  BY <1>1 DEF Timed
<1>3. ASSUME NEW i \in DOMAIN ready', ready'[i].task = t
      PROVE  task'[t].next <= now'
  <2>1. task[t].next <= now
    BY <1>2, <1>3 DEF Kept, ReadyKept
  <2> QED
    BY <1>1, <2>1
<1>4. ASSUME NEW i \in DOMAIN incoming', incoming'[i].task = t
      PROVE  incoming'[i].tto = task'[t].next /\ ~incoming'[i].fd
  <2>1. PICK j \in DOMAIN incoming : incoming[j] = incoming'[i]
    BY <1>4 DEF Kept, IncomingKept
  <2>2. incoming[j].task = t
    BY <1>4, <2>1
  <2>3. incoming[j].tto = task[t].next /\ ~incoming[j].fd
    BY <1>2, <2>2
  <2> QED
    BY <1>1, <2>1, <2>3
<1>5. sched'.pc = "put" /\ sched'.task = t => sched'.tto = task'[t].next /\ ~sched'.fd
  BY <1>1, <1>2 DEF Kept, SchedKept
<1>6. t \in DOMAIN registered' => registered'[t].tto = task'[t].next /\ ~registered'[t].fd
  BY <1>1, <1>2 DEF Kept, HubKept
<1> QED
  BY <1>3, <1>4, <1>5, <1>6

LEMMA TailKeeps ==
  ASSUME NEW S, NEW s \in Seq(S), s # <<>>, NEW i \in DOMAIN Tail(s)
  PROVE  \E j \in DOMAIN s : s[j] = Tail(s)[i]
<1>1. i + 1 \in DOMAIN s /\ s[i + 1] = Tail(s)[i]
  OBVIOUS
<1> QED
  BY <1>1

LEMMA AppendKeeps ==
  ASSUME NEW S, NEW s \in Seq(S), NEW m, NEW i \in DOMAIN Append(s, m)
  PROVE  Append(s, m)[i] = m \/ \E j \in DOMAIN s : s[j] = Append(s, m)[i]
<1>1. i \in 1..(Len(s) + 1) /\ DOMAIN s = 1..Len(s) /\ Len(s) \in Nat
  OBVIOUS
<1>2. CASE i = Len(s) + 1
  BY <1>2
<1>3. CASE i # Len(s) + 1
  <2>1. i \in DOMAIN s /\ s[i] = Append(s, m)[i]
    BY <1>1, <1>3
  <2> QED
    BY <2>1
<1> QED
  BY <1>2, <1>3

(* The queue loses its head, or gets another task.                         *)
LEMMA ReadyKeeps ==
  ASSUME ready \in Seq(Item), NEW t, NEW m, m.task # t,
         \/ ready' = ready
         \/ ready # <<>> /\ ready' = Tail(ready)
         \/ ready' = Append(ready, m)
         \/ ready # <<>> /\ ready' = Append(Tail(ready), m)
  PROVE  ReadyKept(t)
<1> DEFINE z == Tail(ready)
<1>1. ready # <<>> => z \in Seq(Item) /\ \A i \in DOMAIN z : \E j \in DOMAIN ready : ready[j] = z[i]
  <2> SUFFICES ASSUME ready # <<>>
               PROVE  z \in Seq(Item) /\ \A i \in DOMAIN z : \E j \in DOMAIN ready : ready[j] = z[i]
    OBVIOUS
  <2>1. z \in Seq(Item)
    OBVIOUS
  <2>2. \A i \in DOMAIN z : \E j \in DOMAIN ready : ready[j] = z[i]
    BY TailKeeps
  <2> QED
    BY <2>1, <2>2
<1> HIDE DEF z
<1>2. CASE ready' = ready
  BY <1>2 DEF ReadyKept
<1>3. CASE ready # <<>> /\ ready' = z
  BY <1>1, <1>3 DEF ReadyKept
<1>4. CASE ready' = Append(ready, m)
  <2> SUFFICES ASSUME NEW i \in DOMAIN ready', ready'[i].task = t
               PROVE  \E j \in DOMAIN ready : ready[j].task = t
    BY DEF ReadyKept
  <2>1. ready'[i] = m \/ \E j \in DOMAIN ready : ready[j] = ready'[i]
    BY <1>4, AppendKeeps
  <2> QED
    BY <2>1
<1>5. CASE ready # <<>> /\ ready' = Append(z, m)
  <2> SUFFICES ASSUME NEW i \in DOMAIN ready', ready'[i].task = t
               PROVE  \E j \in DOMAIN ready : ready[j].task = t
    BY DEF ReadyKept
  <2>1. ready'[i] = m \/ \E j \in DOMAIN z : z[j] = ready'[i]
    BY <1>1, <1>5, AppendKeeps
  <2> QED
    BY <1>1, <1>5, <2>1
<1> QED
  BY <1>2, <1>3, <1>4, <1>5 DEF z

LEMMA ChosenKept ==
  ASSUME Base, Chosen, hub' = hub, registered' = registered, now' \in Nat, now <= now'
  PROVE  Chosen'
<1>1. now \in Nat /\ hub.pc \in {"expire", "timeout"} => hub.out \subseteq DOMAIN registered
  BY NeverIsLate DEF Base, Types, Watched
<1>2. \A t \in DOMAIN registered : registered[t].tto \in Nat
  BY DEF Base, Types
<1>3. now \in Nat
  BY NeverIsLate DEF Base, Types
<1>4. ASSUME hub.pc \in {"expire", "timeout"}, NEW t \in hub.out
      PROVE  registered[t].tto <= now'
  <2>1. registered[t].tto <= now /\ registered[t].tto \in Nat
    BY <1>1, <1>2, <1>3, <1>4 DEF Chosen
  <2> QED
    BY <1>3, <2>1
<1> QED
  BY <1>4 DEF Chosen

(* The numbers that the steps below compare.                               *)
LEMMA Numbers ==
  ASSUME Base, NEW t \in Timers
  PROVE  now \in Nat /\ task[t] \in State /\ task[t].next \in Nat /\ t \in Tasks /\ t # later
  BY NeverIsLate, TasksAssumption DEF Base, Types, State, Tasks

LEMMA OnTimeQuiet ==
  ASSUME RInv,
         \/ SchedLoop \/ SchedWake \/ SchedWakeLate \/ SchedClear \/ SchedIdle \/ MakeCall
         \/ CallsDone \/ Tick
         \/ (\E t \in Tasks : Input(t))
         \/ (\E th \in Threads : DeferCall(th) \/ QuitFails(th))
         \/ (\E th \in Signallers : SetEvent(th))
         \/ (sched.pc = "ping" /\ RegisterSelect)
  PROVE  OnTime'
<1> USE DEF Goto, clock, queue, ends, sched_vars, hub_vars, others, history
<1>0. Base /\ OnTime /\ sched \in Sched /\ task \in [Tasks -> State] /\ now \in Nat
  BY NeverIsLate DEF RInv, Base, Types
<1>1. UNCHANGED <<ready, incoming, hub, registered>> /\ now' \in Nat /\ now <= now'
  <2>1. UNCHANGED <<ready, incoming, hub, registered>> /\ (now' = now \/ now' = now + 1)
    <3>1. CASE SchedLoop \/ SchedWake \/ SchedWakeLate \/ SchedClear \/ SchedIdle
      BY <3>1 DEF SchedLoop, SchedWake, SchedWakeLate, SchedClear, SchedIdle
    <3>2. CASE MakeCall \/ CallsDone \/ (sched.pc = "ping" /\ RegisterSelect)
      BY <3>2 DEF MakeCall, CallsDone, RegisterSelect
    <3>3. CASE \/ Tick \/ (\E t \in Tasks : Input(t))
               \/ (\E th \in Threads : DeferCall(th) \/ QuitFails(th))
               \/ (\E th \in Signallers : SetEvent(th))
      BY <3>3 DEF Tick, Input, DeferCall, QuitFails, SetEvent
    <3> QED
      BY <3>1, <3>2, <3>3
  <2> QED
    BY <1>0, <2>1
<1>2. Chosen'
  BY <1>0, <1>1, ChosenKept DEF OnTime
<1>3. sched' = sched \/ sched'.pc # "put" \/ sched'.task = later
  <2>1. \/ sched' = sched
        \/ sched' = [pc |-> "put", task |-> later, fd |-> TRUE, tto |-> Never]
        \/ \E pc \in {"loop", "wait", "clear", "cycle", "ended"} : sched' = [sched EXCEPT !.pc = pc]
    <3>1. CASE SchedLoop \/ SchedWake \/ SchedWakeLate \/ SchedClear \/ SchedIdle
      BY <3>1 DEF SchedLoop, SchedWake, SchedWakeLate, SchedClear, SchedIdle
    <3>2. CASE MakeCall \/ CallsDone \/ (sched.pc = "ping" /\ RegisterSelect)
      BY <3>2 DEF MakeCall, CallsDone, RegisterSelect, Register
    <3>3. CASE \/ Tick \/ (\E t \in Tasks : Input(t))
               \/ (\E th \in Threads : DeferCall(th) \/ QuitFails(th))
               \/ (\E th \in Signallers : SetEvent(th))
      BY <3>3 DEF Tick, Input, DeferCall, QuitFails, SetEvent
    <3> QED
      BY <3>1, <3>2, <3>3
  <2> QED
    BY <1>0, <2>1 DEF Sched
<1>4. ASSUME NEW t \in Timers
      PROVE  Timed(t)'
  <2>1. t \in Tasks /\ t # later /\ task[t] \in State /\ task[t].next \in Nat
    BY <1>0, Numbers
  <2>2. task'[t].life = task[t].life /\ task'[t].next = task[t].next
    <3>1. CASE MakeCall
      <4> DEFINE f == program.calls[Head(calls)]
      <4>1. task' = IF f \in Timers THEN [task EXCEPT ![f].cancelled = TRUE] ELSE task
        BY <3>1 DEF MakeCall
      <4> HIDE DEF f
      <4>2. f \in Timers => f \in Tasks
        BY DEF Tasks
      <4> QED
        BY <1>0, <2>1, <4>1, <4>2 DEF State
    <3>2. CASE ~MakeCall
      BY <3>2 DEF SchedLoop, SchedWake, SchedWakeLate, SchedClear, SchedIdle, CallsDone,
              Tick, Input, DeferCall, QuitFails, SetEvent, RegisterSelect
    <3> QED
      BY <3>1, <3>2
  <2>3. Kept(t)
    BY <1>1, <1>3, <2>1, <2>2 DEF Kept, ReadyKept, IncomingKept, SchedKept, HubKept, TaskKept
  <2> QED
    BY <1>0, <1>1, <2>1, <2>3, TimedKept DEF OnTime
<1> QED
  BY <1>2, <1>4 DEF OnTime

LEMMA OnTimeStart ==
  ASSUME RInv,
         \/ \E t \in Tasks : Start(t) \/ BlockingReturns(t)
         \/ \E th \in Threads : CallLater(th)
  PROVE  OnTime'
<1> USE DEF fast_schedule, ends, hub_vars, history, clock, others
<1>0. Base /\ OnTime /\ task \in [Tasks -> State] /\ now \in Nat /\ ready \in Seq(Item)
      /\ blocked \subseteq Blockers
  BY NeverIsLate DEF RInv, Base, Types
<1>1. UNCHANGED <<incoming, sched, hub, registered, now>>
  BY DEF Start, BlockingReturns, CallLater
<1>2. Chosen'
  BY <1>0, <1>1, ChosenKept DEF OnTime
<1>3. ASSUME NEW t \in Timers
      PROVE  Timed(t)'
  <2>1. t \in Tasks /\ t # later /\ task[t] \in State /\ task[t].next \in Nat /\ t \notin Blockers
    BY <1>0, Numbers, TasksAssumption
  <2>2. task'[t].life # "waiting" \/ (ReadyKept(t) /\ task'[t].life = task[t].life /\ task'[t].next = task[t].next)
    <3>1. ASSUME NEW u \in Tasks, Start(u)
          PROVE  task'[t].life # "waiting" \/ (ReadyKept(t) /\ task'[t] = task[t])
      <4>1. CASE u = t
        BY <1>0, <2>1, <3>1, <4>1 DEF Start, State
      <4>2. CASE u # t
        <5>1. ready' = Append(ready, Wrap(u)) /\ Wrap(u).task # t
          BY <3>1, <4>2 DEF Start, Wrap
        <5>2. ReadyKept(t)
          BY <1>0, <5>1, ReadyKeeps
        <5> QED
          BY <1>0, <2>1, <3>1, <4>2, <5>2 DEF Start
      <4> QED
        BY <4>1, <4>2
    <3>2. ASSUME NEW u \in Tasks, BlockingReturns(u)
          PROVE  ReadyKept(t) /\ task'[t] = task[t]
      <4>1. u # t
        BY <1>0, <2>1, <3>2 DEF BlockingReturns
      <4>2. ready' = Append(ready, Plain(u)) /\ Plain(u).task # t
        BY <3>2, <4>1 DEF BlockingReturns, Plain
      <4>3. ReadyKept(t)
        BY <1>0, <4>2, ReadyKeeps
      <4> QED
        BY <1>0, <2>1, <3>2, <4>1, <4>3 DEF BlockingReturns
    <3>3. ASSUME NEW th \in Threads, CallLater(th)
          PROVE  ReadyKept(t) /\ task'[t] = task[t]
      <4>1. Wrap(later).task # t
        BY <2>1 DEF Wrap
      <4>2. ready' = ready \/ ready' = Append(ready, Wrap(later))
        BY <3>3 DEF CallLater
      <4>3. ReadyKept(t)
        BY <1>0, <4>1, <4>2, ReadyKeeps
      <4> QED
        BY <1>0, <2>1, <3>3, <4>3 DEF CallLater
    <3> QED
      BY <3>1, <3>2, <3>3
  <2>3. CASE task'[t].life # "waiting"
    BY <2>3 DEF Timed
  <2>4. CASE ReadyKept(t) /\ task'[t].life = task[t].life /\ task'[t].next = task[t].next
    <3>1. Kept(t)
      BY <1>1, <2>4 DEF Kept, IncomingKept, SchedKept, HubKept, TaskKept
    <3> QED
      BY <1>0, <1>1, <2>1, <3>1, TimedKept DEF OnTime
  <2> QED
    BY <2>2, <2>3, <2>4
<1> QED
  BY <1>2, <1>3 DEF OnTime

LEMMA OnTimeExec ==
  ASSUME RInv,
         \/ ExecSchedule \/ ExecLater
         \/ (\E t \in Readers : ExecReader(t) \/ ExecRaises(t)) \/ (\E t \in Blockers : ExecBlocker(t))
         \/ (sched.pc = "put" /\ RegisterSelect)
  PROVE  OnTime'
<1> USE DEF Goto, clock, ends, hub_vars, history, others, queue
<1>0. Base /\ OnTime /\ sched \in Sched /\ task \in [Tasks -> State] /\ now \in Nat
      /\ ready \in Seq(Item) /\ incoming \in Seq(Wait)
  BY NeverIsLate DEF RInv, Base, Types
<1>1. UNCHANGED <<hub, registered, now>>
  BY DEF ExecSchedule, ExecLater, ExecReader, ExecRaises, ExecBlocker, RegisterSelect
<1>2. Chosen'
  BY <1>0, <1>1, ChosenKept DEF OnTime
<1>3. ASSUME NEW t \in Timers
      PROVE  Timed(t)'
  <2>1. /\ t \in Tasks /\ t # later /\ task[t] \in State /\ task[t].next \in Nat
        /\ t \notin Blockers /\ t \notin Readers /\ Timed(t)
    BY <1>0, Numbers, TasksAssumption DEF OnTime
  <2>2. ASSUME NEW u \in Tasks \ {t}, Executes(u), ready' = Tail(ready), incoming' = incoming,
               task'[t] = task[t], sched'.pc = "put" => sched'.task = u
        PROVE  Timed(t)'
    <3>1. ready # <<>> /\ Plain(u).task # t
      BY <2>2 DEF Executes, Cycles, Plain
    <3>2. ReadyKept(t)
      BY <1>0, <2>2, <3>1, ReadyKeeps
    <3>3. Kept(t)
      BY <1>1, <2>2, <3>2 DEF Kept, IncomingKept, SchedKept, HubKept, TaskKept
    <3> QED
      BY <1>0, <1>1, <2>1, <3>3, TimedKept
  <2>3. CASE ExecSchedule
    <3>1. ReadyKept(t)
      <4>1. DOMAIN ready' = DOMAIN ready
        BY <1>0, <2>3, ScheduleReplaces
      <4>2. \A i \in DOMAIN ready : ready'[i].task = ready[i].task
        BY <1>0, <2>3, ScheduleReplaces
      <4> QED
        BY <4>1, <4>2 DEF ReadyKept
    <3>2. UNCHANGED <<incoming, task>> /\ sched' = [sched EXCEPT !.pc = "loop"]
      BY <2>3 DEF ExecSchedule
    <3>3. sched'.pc # "put"
      BY <1>0, <3>2 DEF Sched
    <3>4. Kept(t)
      BY <1>1, <3>1, <3>2, <3>3 DEF Kept, IncomingKept, SchedKept, HubKept, TaskKept
    <3> QED
      BY <1>0, <1>1, <2>1, <3>4, TimedKept
  <2>4. CASE ExecLater
    <3>1. /\ later \in Tasks \ {t} /\ Executes(later) /\ ready' = Tail(ready) /\ incoming' = incoming
          /\ task'[t] = task[t]
      BY <1>0, <2>1, <2>4 DEF ExecLater, Tasks
    <3>2. sched'.pc = "put" => sched'.task = later
      BY <1>0, <2>4 DEF ExecLater, Register, Sched
    <3> QED
      BY <2>2, <3>1, <3>2
  <2>5. ASSUME NEW u \in Readers, ExecReader(u)
        PROVE  Timed(t)'
    <3>1. /\ u \in Tasks \ {t} /\ Executes(u) /\ ready' = Tail(ready) /\ incoming' = incoming
          /\ task'[t] = task[t]
      BY <1>0, <2>1, <2>5 DEF ExecReader, Tasks
    <3>2. sched'.task = u
      BY <2>5 DEF ExecReader, Register
    <3> QED
      BY <2>2, <3>1, <3>2
  <2>6. ASSUME NEW u \in Blockers, ExecBlocker(u)
        PROVE  Timed(t)'
    <3>1. /\ u \in Tasks \ {t} /\ Executes(u) /\ ready' = Tail(ready) /\ incoming' = incoming
          /\ task'[t] = task[t]
      BY <1>0, <2>1, <2>6 DEF ExecBlocker, Tasks
    <3>2. sched'.pc # "put"
      BY <1>0, <2>6 DEF ExecBlocker, Sched
    <3> QED
      BY <2>2, <3>1, <3>2
  <2>8. ASSUME NEW u \in Readers, ExecRaises(u)
        PROVE  Timed(t)'
    <3>1. /\ u \in Tasks \ {t} /\ Executes(u) /\ ready' = Tail(ready) /\ incoming' = incoming
          /\ task'[t] = task[t]
      BY <1>0, <2>1, <2>8 DEF ExecRaises, Tasks
    <3>2. sched'.pc # "put"
      BY <1>0, <2>8 DEF ExecRaises, Sched
    <3> QED
      BY <2>2, <3>1, <3>2
  <2>7. CASE sched.pc = "put" /\ RegisterSelect
    <3> DEFINE w == [task |-> sched.task, fd |-> sched.fd, tto |-> sched.tto]
    <3>1. UNCHANGED <<ready, task>> /\ incoming' = Append(incoming, w)
          /\ sched' = [sched EXCEPT !.pc = "ping"]
      BY <2>7 DEF RegisterSelect
    <3>2. w.task = sched.task /\ w.fd = sched.fd /\ w.tto = sched.tto /\ sched'.pc # "put"
      BY <1>0, <3>1 DEF Sched
    <3> HIDE DEF w
    <3> SUFFICES ASSUME task[t].life = "waiting"
                 PROVE  Timed(t)'
      BY <3>1 DEF Timed
    <3>3. ASSUME NEW i \in DOMAIN incoming', incoming'[i].task = t
          PROVE  incoming'[i].tto = task[t].next /\ ~incoming'[i].fd
      <4>1. incoming'[i] = w \/ \E j \in DOMAIN incoming : incoming[j] = incoming'[i]
        BY <1>0, <3>1, AppendKeeps
      <4>2. CASE incoming'[i] = w
        BY <2>1, <2>7, <3>2, <3>3, <4>2 DEF Timed
      <4>3. ASSUME NEW j \in DOMAIN incoming, incoming[j] = incoming'[i]
            PROVE  incoming'[i].tto = task[t].next /\ ~incoming'[i].fd
        BY <2>1, <3>3, <4>3 DEF Timed
      <4> QED
        BY <4>1, <4>2, <4>3
    <3> QED
      BY <1>1, <2>1, <3>1, <3>2, <3>3 DEF Timed
  <2> QED
    BY <2>3, <2>4, <2>5, <2>6, <2>7, <2>8
<1> QED
  BY <1>2, <1>3 DEF OnTime

LEMMA OnTimeTimer ==
  ASSUME RInv, NEW u \in Timers, ExecTimer(u)
  PROVE  OnTime'
<1> USE DEF Goto, clock, ends, hub_vars, others
<1>0. Base /\ OnTime /\ sched \in Sched /\ task \in [Tasks -> State] /\ now \in Nat
      /\ ready \in Seq(Item)
  BY NeverIsLate DEF RInv, Base, Types
<1>1. UNCHANGED <<hub, registered, now, incoming>>
  BY DEF ExecTimer
<1>2. Chosen'
  BY <1>0, <1>1, ChosenKept DEF OnTime
<1>3. /\ u \in Tasks /\ u # later /\ task[u] \in State /\ task[u].next \in Nat
      /\ Executes(u) /\ Head(ready).task = u /\ Cycles
  BY <1>0, Numbers DEF ExecTimer, Executes, Plain
<1>4. Taken(u)
  BY <1>0, <1>3, TakesHead
<1> DEFINE z == Tail(ready)
           wakes == IF Sleeping(u) THEN now + Delay ELSE task[u].next
<1>5. \/ /\ task' = [task EXCEPT ![u].life = "done"] /\ ready' = z
         /\ sched' = [sched EXCEPT !.pc = "loop"]
      \/ /\ task' = [task EXCEPT ![u].life = "waiting", ![u].next = wakes]
         /\ \/ wakes < now /\ sched' = [sched EXCEPT !.pc = "loop"] /\ ready' = Append(z, Plain(u))
            \/ sched' = [pc |-> "put", task |-> u, fd |-> FALSE, tto |-> wakes] /\ ready' = z
  BY DEF ExecTimer, Register
<1>6. wakes \in Nat
  BY <1>0, <1>3, NeverIsLate
<1>7. z \in Seq(Item) /\ \A i \in DOMAIN z : z[i].task # u
  <2>1. z \in Seq(Item) /\ Count(z, u) = 0
    BY <1>4 DEF Taken
  <2> HIDE DEF z
  <2> QED
    BY <2>1, CountType
<1>8. (\A i \in DOMAIN incoming : incoming[i].task # u) /\ u \notin DOMAIN registered
  <2>1. Count(incoming, u) = 0 /\ incoming \in Seq(Wait) /\ u \notin DOMAIN registered
    BY <1>0, <1>4 DEF Taken, Base, Types
  <2> QED
    BY <2>1, CountType
<1> HIDE DEF z, wakes
<1>9. Timed(u)'
  <2>1. CASE task' = [task EXCEPT ![u].life = "done"]
    <3>1. task'[u].life = "done"
      BY <1>0, <1>3, <2>1 DEF State
    <3> QED
      BY <3>1 DEF Timed
  <2>2. CASE /\ task' = [task EXCEPT ![u].life = "waiting", ![u].next = wakes]
             /\ wakes < now /\ sched' = [sched EXCEPT !.pc = "loop"]
    <3>1. task'[u].next = wakes /\ task'[u].next <= now' /\ sched'.pc # "put"
      BY <1>0, <1>1, <1>3, <1>6, <2>2 DEF State, Sched
    <3> QED
      BY <1>1, <1>8, <3>1 DEF Timed
  <2>3. CASE /\ task' = [task EXCEPT ![u].life = "waiting", ![u].next = wakes]
             /\ sched' = [pc |-> "put", task |-> u, fd |-> FALSE, tto |-> wakes] /\ ready' = z
    <3>1. task'[u].next = wakes /\ sched'.tto = wakes /\ ~sched'.fd
      BY <1>0, <1>3, <2>3 DEF State
    <3> QED
      BY <1>1, <1>7, <1>8, <2>3, <3>1 DEF Timed
  <2> QED
    BY <1>5, <2>1, <2>2, <2>3
<1>10. ASSUME NEW t \in Timers \ {u}
       PROVE  Timed(t)'
  <2>1. /\ t \in Tasks /\ t # later /\ task[t] \in State /\ task[t].next \in Nat /\ Timed(t)
    BY <1>0, Numbers DEF OnTime
  <2>2. ready # <<>> /\ Plain(u).task # t
    BY <1>3 DEF Cycles, Plain
  <2>3. ready' = z \/ ready' = Append(z, Plain(u))
    BY <1>5
  <2>4. ReadyKept(t)
    BY <1>0, <2>2, <2>3, ReadyKeeps DEF z
  <2>5. task'[t] = task[t]
    BY <1>0, <1>5, <2>1
  <2>6. sched'.pc = "put" => sched'.task = u
    BY <1>0, <1>5 DEF Sched
  <2>7. Kept(t)
    BY <1>1, <2>4, <2>5, <2>6 DEF Kept, IncomingKept, SchedKept, HubKept, TaskKept
  <2> QED
    BY <1>0, <1>1, <2>1, <2>7, TimedKept
<1> QED
  BY <1>2, <1>9, <1>10 DEF OnTime

LEMMA OnTimeHub ==
  ASSUME RInv, HubScan \/ HubSelect \/ HubPong
  PROVE  OnTime'
<1> USE DEF clock, queue, ends, sched_vars, others, history, HubRuns, HubGoto
<1>0. Base /\ OnTime /\ hub \in Hub /\ now \in Nat
  BY NeverIsLate DEF RInv, Base, Types
<1>1. UNCHANGED <<ready, incoming, sched, registered, now, task>>
  BY DEF HubScan, HubSelect, HubPong
<1>2. Chosen'
  <2>1. CASE HubScan
    <3>1. CASE hasQuit
      BY <1>0, <2>1, <3>1 DEF HubScan, Hub, Chosen
    <3>2. CASE ~hasQuit
      <4>1. hub'.pc \in {"select", "expire"} /\ hub'.out = Expired
        BY <2>1, <3>2 DEF HubScan
      <4> QED
        BY <1>1, <4>1 DEF Chosen, Expired, Due
    <3> QED
      BY <3>1, <3>2
  <2>2. CASE HubSelect
    <3>1. \/ hub' = [hub EXCEPT !.pc = "pong", !.out = Selected]
          \/ hub' = [hub EXCEPT !.pc = "return", !.out = Selected]
          \/ \E t \in hub.watch : Due(t) /\ hub' = [hub EXCEPT !.pc = "timeout", !.out = {t}]
      BY <2>2 DEF HubSelect
    <3>2. CASE \/ hub' = [hub EXCEPT !.pc = "pong", !.out = Selected]
               \/ hub' = [hub EXCEPT !.pc = "return", !.out = Selected]
      <4>1. hub'.pc \in {"pong", "return"} /\ hub'.out = Selected
        BY <1>0, <3>2 DEF Hub
      <4> QED
        BY <1>1, <4>1 DEF Chosen, Selected
    <3>3. ASSUME NEW t \in hub.watch, Due(t), hub' = [hub EXCEPT !.pc = "timeout", !.out = {t}]
          PROVE  Chosen'
      <4>1. hub'.pc = "timeout" /\ hub'.out = {t}
        BY <1>0, <3>3 DEF Hub
      <4> QED
        BY <1>1, <3>3, <4>1 DEF Chosen, Due
    <3> QED
      BY <3>1, <3>2, <3>3
  <2>3. CASE HubPong
    <3>1. hub'.pc = "drain" /\ hub'.out = hub.out /\ hub.pc = "pong"
      BY <1>0, <2>3 DEF HubPong, Hub
    <3> QED
      BY <1>0, <1>1, <3>1 DEF Chosen, OnTime
  <2> QED
    BY <2>1, <2>2, <2>3
<1>3. ASSUME NEW t \in Timers
      PROVE  Timed(t)'
  BY <1>0, <1>1 DEF Timed, OnTime
<1> QED
  BY <1>2, <1>3 DEF OnTime

LEMMA OnTimeReturns ==
  ASSUME RInv, HubReturns
  PROVE  OnTime'
<1> USE DEF clock, ends, others, history
<1>0. Base /\ OnTime /\ hub \in Hub /\ now \in Nat /\ task \in [Tasks -> State] /\ ready \in Seq(Item)
  BY NeverIsLate DEF RInv, Base, Types
<1>1. PICK u \in hub.out :
        /\ Deregister(u) /\ task' = [task EXCEPT ![u].rv = (hub.pc = "return")]
        /\ ready' = Append(ready, Plain(u))
        /\ hub' = [hub EXCEPT !.out = @ \ {u},
                              !.pc = IF hub.out # {u} THEN @ ELSE AfterReturn(@)]
  BY DEF HubReturns, fast_schedule
<1>2. UNCHANGED <<incoming, sched, now>> /\ hub.pc \in {"expire", "timeout", "return"}
  BY DEF HubReturns
<1>3. /\ DOMAIN registered' = DOMAIN registered \ {u}
      /\ \A t \in DOMAIN registered' : registered'[t] = registered[t]
  BY <1>1 DEF Deregister, Restricted
<1>4. hub'.out = hub.out \ {u} /\ hub'.pc = IF hub.out # {u} THEN hub.pc ELSE AfterReturn(hub.pc)
  BY <1>0, <1>1 DEF Hub
<1>5. hub.out \subseteq DOMAIN registered /\ hub.out \subseteq Tasks
  BY <1>0, <1>2 DEF Base, Watched, Hub
<1>6. Chosen'
  <2>1. CASE hub.out = {u}
    BY <1>2, <1>4, <2>1 DEF Chosen, AfterReturn
  <2>2. CASE hub.out # {u}
    <3>1. \A t \in hub'.out : t \in hub.out /\ registered'[t] = registered[t]
      BY <1>3, <1>4, <1>5
    <3> QED
      BY <1>0, <1>2, <1>4, <2>2, <3>1 DEF Chosen, OnTime
  <2> QED
    BY <2>1, <2>2
<1>7. ASSUME NEW t \in Timers
      PROVE  Timed(t)'
  <2>1. t \in Tasks /\ task[t] \in State /\ task[t].next \in Nat /\ Timed(t)
    BY <1>0, Numbers DEF OnTime
  <2>2. task'[t].life = task[t].life /\ task'[t].next = task[t].next
    BY <1>0, <1>1, <2>1 DEF State
  <2>3. CASE t # u
    <3>1. Plain(u).task # t
      BY <2>3 DEF Plain
    <3>2. ReadyKept(t)
      BY <1>0, <1>1, <3>1, ReadyKeeps
    <3>3. Kept(t)
      BY <1>2, <1>3, <2>2, <3>2 DEF Kept, IncomingKept, SchedKept, HubKept, TaskKept
    <3> QED
      BY <1>0, <1>2, <2>1, <3>3, TimedKept
  <2>4. CASE t = u
    <3> SUFFICES ASSUME task[t].life = "waiting"
                 PROVE  Timed(t)'
      BY <2>2 DEF Timed
    <3>1. t \in DOMAIN registered /\ registered[t].tto = task[t].next /\ ~registered[t].fd
      BY <1>5, <2>1, <2>4 DEF Timed
    <3>2. task[t].next <= now
      BY <1>0, <1>2, <2>4, <3>1 DEF Chosen, OnTime
    <3> QED
      BY <1>2, <1>3, <2>1, <2>2, <2>4, <3>2 DEF Timed
  <2> QED
    BY <2>3, <2>4
<1> QED
  BY <1>6, <1>7 DEF OnTime

LEMMA OnTimeDrain ==
  ASSUME RInv, HubDrain
  PROVE  OnTime'
<1> USE DEF clock, queue, ends, sched_vars, others, history
<1> DEFINE arrived == {incoming[i].task : i \in DOMAIN incoming}
           new(t) == CHOOSE i \in DOMAIN incoming : incoming[i].task = t
<1>0. Base /\ OnTime /\ hub \in Hub /\ now \in Nat /\ incoming \in Seq(Wait)
  BY NeverIsLate DEF RInv, Base, Types
<1>1. /\ UNCHANGED <<ready, task, sched, now>> /\ incoming' = <<>> /\ hub.pc = "drain"
      /\ DOMAIN registered' = arrived \cup DOMAIN registered
      /\ \A t \in arrived : registered'[t] = [fd |-> incoming[new(t)].fd, tto |-> incoming[new(t)].tto]
      /\ \A t \in DOMAIN registered \ arrived : registered'[t] = registered[t]
      /\ hub' = [hub EXCEPT !.pc = IF hub.out = {} THEN "scan" ELSE "return"]
  BY DEF HubDrain
<1>2. \A t \in arrived : new(t) \in DOMAIN incoming /\ incoming[new(t)].task = t
  OBVIOUS
<1>3. ASSUME NEW t \in DOMAIN registered
      PROVE  t \notin arrived
  <2>1. t \in Tasks /\ Types
    BY <1>0 DEF Base, Types
  <2>2. Placed(t) /\ InHub(t) = 1
    BY <1>0, <2>1, Places DEF InHub, Base
  <2>3. /\ Count(ready, t) \in Nat /\ Count(incoming, t) \in Nat
        /\ Moving(t) \in 0..1 /\ InThread(t) \in 0..1 /\ Due1(t) \in 0..1
    BY <2>1, PlaceTypes
  <2>4. Count(incoming, t) = 0
    BY <2>2, <2>3 DEF Placed
  <2> QED
    BY <1>0, <2>4, CountType
<1> HIDE DEF arrived, new
<1>4. hub'.out = hub.out /\ hub'.pc \in {"scan", "return"}
  BY <1>0, <1>1 DEF Hub
<1>5. hub.out \subseteq DOMAIN registered
  BY <1>0, <1>1 DEF Base, Watched
<1>6. Chosen'
  BY <1>0, <1>1, <1>3, <1>4, <1>5 DEF Chosen, OnTime
<1>7. ASSUME NEW t \in Timers
      PROVE  Timed(t)'
  <2> SUFFICES ASSUME task[t].life = "waiting"
               PROVE  Timed(t)'
    BY <1>1 DEF Timed
  <2>0. Timed(t)
    BY <1>0 DEF OnTime
  <2>1. ASSUME t \in DOMAIN registered'
        PROVE  registered'[t].tto = task[t].next /\ ~registered'[t].fd
    <3>1. CASE t \in arrived
      <4>1. incoming[new(t)].tto = task[t].next /\ ~incoming[new(t)].fd
        BY <1>2, <2>0, <3>1 DEF Timed
      <4>2. registered'[t] = [fd |-> incoming[new(t)].fd, tto |-> incoming[new(t)].tto]
        BY <1>1, <3>1
      <4> QED
        BY <4>1, <4>2
    <3>2. CASE t \notin arrived
      BY <1>1, <2>0, <2>1, <3>2 DEF Timed
    <3> QED
      BY <3>1, <3>2
  <2>2. DOMAIN incoming' = {}
    BY <1>1
  <2> QED
    BY <1>1, <2>0, <2>1, <2>2 DEF Timed
<1> QED
  BY <1>6, <1>7 DEF OnTime

-----------------------------------------------------------------------------
LEMMA RInvInit == Init => RInv
<1> SUFFICES ASSUME Init
             PROVE  RInv
  OBVIOUS
<1>1. Chosen
  BY DEF Init, Chosen
<1>2. \A t \in Timers : task[t].life = "new"
  BY DEF Init, Tasks
<1> QED
  BY <1>1, <1>2, BaseInit DEF RInv, OnTime, Timed

LEMMA RInvNext ==
  ASSUME RInv, [Next]_vars
  PROVE  RInv'
<1>1. Base'
  BY BaseNext DEF RInv
<1>2. OnTime'
  <2>1. CASE Next
    <3>1. RegisterSelect => sched.pc \in {"put", "ping"}
      BY DEF RegisterSelect
    <3> QED
      BY <2>1, <3>1, OnTimeQuiet, OnTimeStart, OnTimeExec, OnTimeTimer, OnTimeHub, OnTimeReturns, OnTimeDrain
         DEF Next, SchedulerThread, HubThread
  <2>2. CASE UNCHANGED vars
    <3>1. UNCHANGED <<ready, incoming, sched, hub, registered, now, task>>
      BY <2>2 DEF vars, clock, sched_vars, queue, hub_vars
    <3> QED
      BY <3>1 DEF RInv, OnTime, Chosen, Timed
  <2> QED
    BY <2>1, <2>2
<1> QED
  BY <1>1, <1>2 DEF RInv

(* The inductive invariant: where each task is, and until when a Timer     *)
(* that is there has to wait.                                              *)
THEOREM SchedulerInvariant == Spec => []RInv
<1>1. Init => RInv
  BY RInvInit
<1>2. RInv /\ [Next]_vars => RInv'
  BY RInvNext
<1> QED
  BY <1>1, <1>2, PTL DEF Spec

(* Every task has its one place, whatever the threads do: it is not lost   *)
(* between the scheduler and the hub, and it is never queued twice, which  *)
(* is what the assertions in fast_schedule and in _threadProc rest on.     *)
THEOREM TasksStayInPlace == Spec => []TasksInPlace
<1>1. RInv => TasksInPlace
  <2> SUFFICES ASSUME RInv
               PROVE  TasksInPlace
    OBVIOUS
  <2>1. Types /\ Watched /\ OnePlace
    BY DEF RInv, Base
  <2>2. now \in 0..MaxTime
    BY <2>1, NeverIsLate DEF Types
  <2>3. \A t \in Tasks : task[t].life \in {"new", "started", "waiting", "done"}
    BY <2>1 DEF Types, State, Life
  <2>4. DOMAIN registered \subseteq Tasks /\ readable \subseteq {t \in Tasks : HasFd(t)}
        /\ blocked \subseteq Blockers /\ unset \subseteq Signallers
    BY <2>1 DEF Types
  <2>5. /\ hub.pc \in {"expire", "select", "timeout", "return"} => hub.out \subseteq DOMAIN registered
        /\ hub.pc \in {"expire", "select"} => hub.watch \subseteq DOMAIN registered
    BY <2>1 DEF Watched
  <2> QED
    BY <2>1, <2>2, <2>3, <2>4, <2>5 DEF TasksInPlace, TypeOK
<1> QED
  BY <1>1, SchedulerInvariant, PTL

(* A Timer's callback comes at its time or later, and not once a task has  *)
(* cancelled it, however the hub was woken and however long the queue is.  *)
THEOREM TimersKeepTime == Spec => TimerOnTime
<1>1. RInv /\ [Next]_vars =>
        [\A t \in Timers : fired'[t] # fired[t] => now >= task[t].next /\ ~task[t].cancelled]_vars
  <2> SUFFICES ASSUME RInv, [Next]_vars, NEW t \in Timers, fired'[t] # fired[t]
               PROVE  now >= task[t].next /\ ~task[t].cancelled
    BY DEF vars
  <2>0. Base /\ OnTime /\ fired \in [Timers -> Nat] /\ ready \in Seq(Item)
    BY DEF RInv, Base, Types
  <2>1. PICK u \in Timers : ExecTimer(u)
    <3>1. CASE UNCHANGED vars
      BY <3>1 DEF vars, history
    <3>2. CASE SchedulerThread /\ \A u \in Timers : ~ExecTimer(u)
      BY <3>2 DEF SchedulerThread, history, SchedLoop, SchedWake, SchedClear, SchedIdle, ExecSchedule,
             ExecReader, ExecRaises, ExecBlocker, ExecLater, MakeCall, CallsDone, RegisterSelect
    <3>3. CASE SchedWakeLate \/ HubThread \/ Tick
      BY <3>3 DEF SchedWakeLate, HubThread, Tick, history, HubScan, HubReturns, HubSelect, HubPong, HubDrain
    <3>4. CASE \/ \E v \in Tasks : Start(v) \/ Input(v) \/ BlockingReturns(v)
               \/ \E th \in Threads : CallLater(th) \/ QuitFails(th) \/ DeferCall(th)
               \/ \E th \in Signallers : SetEvent(th)
      BY <3>4 DEF Start, Input, BlockingReturns, CallLater, QuitFails, DeferCall, SetEvent, history
    <3> QED
      BY <3>1, <3>2, <3>3, <3>4 DEF Next
  <2>2. u = t /\ Sleeping(t) /\ ~TimerStops(t) /\ Executes(t)
    BY <2>0, <2>1 DEF ExecTimer
  <2>3. ready # <<>> /\ Head(ready).task = t
    BY <2>2 DEF Executes, Cycles, Plain
  <2>4. 1 \in DOMAIN ready /\ ready[1].task = t
    BY <2>0, <2>3
  <2>5. task[t].next <= now /\ ~task[t].cancelled
    BY <2>0, <2>2, <2>4 DEF OnTime, Timed, Sleeping, TimerStops
  <2>6. now \in Nat /\ task[t].next \in Nat
    BY <2>0, Numbers
  <2> QED
    BY <2>5, <2>6
<1> QED
  BY <1>1, SchedulerInvariant, PTL DEF Spec, TimerOnTime
=============================================================================
