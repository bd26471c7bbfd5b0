---------------------------- MODULE ServerProofs ----------------------------
(***************************************************************************)
(* Whatever a controller sends, and in whatever order, the server's        *)
(* configuration is sound, its reset complete and its ARP threads those of *)
(* the routers it runs: for any number of routers, interfaces and routing  *)
(* table entries.                                                          *)
(***************************************************************************)
EXTENDS Server, TLAPS

(* The array has the announced length and is filled from the front.        *)
ArrayFilled == Len(routers) = max_routers /\ num_routers <= Len(routers)

(* A server that waits for a controller has reset its state.               *)
AcceptIsReset == proc = "accept" => state = "HELLO_WAIT"

(* Blocks are numbered as they are allocated: one that is not yet has      *)
(* neither been freed nor been given a thread.                             *)
FreshUntouched ==
  /\ block <= blocks /\ freed \subseteq 1..blocks
  /\ \A b \in Block : b > blocks => \A x \in Index : threads[b][x] = 0

(* While routers are being configured the array has no thread at any       *)
(* index, the ones behind its end included.                                *)
NoThreadYet ==
  proc = "serving" /\ block # 0 /\ state # "RUNNING" =>
    \A x \in Index : threads[block][x] = 0

SInv == /\ TypeOK /\ ArrayFilled /\ AcceptIsReset /\ FreshUntouched /\ NoThreadYet
        /\ RunningConfigured /\ RoutesUsable /\ CleanReset /\ ThreadsMatch

-----------------------------------------------------------------------------
(* The fields of a router context.                                         *)
LEMMA ContextFields ==
  ASSUME NEW q \in RouterCtx
  PROVE  /\ q.max_interfaces \in 0..MaxIfaces /\ q.num_interfaces \in 0..MaxIfaces
         /\ q.max_rtable_entries \in 0..MaxRtable /\ q.rtable \in Seq(IfaceId)
  BY DEF RouterCtx

(* A blank context is one, and stays one with the announced sizes in it.   *)
LEMMA BlankType ==
  /\ Blank \in RouterCtx
  /\ Len(Blank.rtable) = 0 /\ DOMAIN Blank.rtable = {}
  /\ Blank.num_interfaces = 0 /\ Blank.max_interfaces = 0
  BY ServerBounds DEF RouterCtx, Blank

(* What the INTERFACE handler stores in a context.                         *)
LEMMA CountedInterface ==
  ASSUME NEW q \in RouterCtx, NEW f \in 0..MaxIfaces
  PROVE  LET p == [q EXCEPT !.num_interfaces = f] IN
         /\ p \in RouterCtx /\ p.num_interfaces = f
         /\ p.rtable = q.rtable /\ p.max_interfaces = q.max_interfaces
  BY DEF RouterCtx

(* What the ROUTING TABLE ENTRY handler stores in a context.               *)
LEMMA AddedRoute ==
  ASSUME NEW q \in RouterCtx, NEW f \in IfaceId
  PROVE  LET p == [q EXCEPT !.rtable = Append(@, f)] IN
         /\ p \in RouterCtx /\ p.rtable = Append(q.rtable, f)
         /\ p.num_interfaces = q.num_interfaces /\ p.max_interfaces = q.max_interfaces
<1>1. Append(q.rtable, f) \in Seq(IfaceId)
  BY ContextFields
<1> QED
  BY <1>1 DEF RouterCtx

(* The server starts with no configuration and no thread.                  *)
LEMMA SInvInit == Init => SInv
  BY ServerBounds
  DEF Init, SInv, TypeOK, ArrayFilled, AcceptIsReset, FreshUntouched, NoThreadYet,
      RunningConfigured, RoutesUsable, CleanReset, ThreadsMatch, Block, Index

(* A step that leaves the memory and the state alone cannot disturb the    *)
(* invariant, unless it makes the process wait for a controller.           *)
LEMMA SInvFrame ==
  ASSUME SInv, UNCHANGED <<state, memory>>,
         proc' \in {"ending", "undefined"} \/ proc' = proc
  PROVE  SInv'
  BY DEF SInv, TypeOK, ArrayFilled, AcceptIsReset, FreshUntouched, NoThreadYet,
         RunningConfigured, RoutesUsable, CleanReset, ThreadsMatch, memory

(* ROUTERS replaces the array by a new one of blank contexts.              *)
LEMMA SInvRouters ==
  ASSUME SInv, NEW n \in 0..MaxRouters, state = "CONFIG", proc = "serving",
         blocks < MaxBlocks,
         max_routers' = n, num_routers' = 0, routers' = [x \in 1..n |-> Blank],
         blocks' = blocks + 1, block' = blocks + 1,
         UNCHANGED <<proc, state, freed, threads>>
  PROVE  SInv'
<1> USE ServerBounds
<1>1. /\ blocks \in Nat /\ blocks + 1 \in Block /\ freed \subseteq 1..blocks
      /\ threads \in [Block -> [Index -> 0..MaxThreads]]
      /\ \A b \in Block : b > blocks => \A x \in Index : threads[b][x] = 0
  BY DEF SInv, TypeOK, FreshUntouched, Block
<1>2. /\ routers' \in Seq(RouterCtx) /\ Len(routers') = n /\ DOMAIN routers' = 1..n
      /\ \A x \in 1..n : routers'[x] = Blank
  BY BlankType
<1>3. TypeOK'
  BY <1>1, <1>2, BlankType DEF SInv, TypeOK, Block
<1>4. ArrayFilled' /\ AcceptIsReset' /\ RunningConfigured'
  BY <1>2 DEF SInv, ArrayFilled, AcceptIsReset, RunningConfigured
<1>5. FreshUntouched'
  BY <1>1 DEF FreshUntouched, Block
<1>6. NoThreadYet' /\ ThreadsMatch'
  <2>1. \A x \in Index : threads'[block'][x] = 0
    BY <1>1 DEF Block
  <2>2. DOMAIN routers' \subseteq Index
    BY <1>2 DEF Index
  <2> QED
    BY <2>1, <2>2 DEF NoThreadYet, ThreadsMatch
<1>7. RoutesUsable'
  BY <1>2, BlankType DEF RoutesUsable
<1>8. CleanReset'
  BY <1>1 DEF CleanReset
<1> QED
  BY <1>3, <1>4, <1>5, <1>6, <1>7, <1>8 DEF SInv

(* A handler that changes one router context of the array, and the number  *)
(* of routers, while the controller configures.                            *)
LEMMA SInvContext ==
  ASSUME SInv, proc = "serving", state = "CONFIG",
         NEW x \in DOMAIN routers, NEW q \in RouterCtx,
         routers' = [routers EXCEPT ![x] = q],
         num_routers' \in 0..Len(routers),
         Len(q.rtable) <= MaxRtable,
         \A k \in DOMAIN q.rtable : q.rtable[k] < q.num_interfaces,
         q.num_interfaces <= q.max_interfaces,
         UNCHANGED <<proc, state, max_routers, block, blocks, freed, threads>>
  PROVE  SInv'
<1> USE ServerBounds
<1>1. /\ routers' \in Seq(RouterCtx) /\ Len(routers') = Len(routers)
      /\ DOMAIN routers' = DOMAIN routers
      /\ \A y \in DOMAIN routers : routers'[y] = IF y = x THEN q ELSE routers[y]
  BY DEF SInv, TypeOK
<1>2. TypeOK'
  BY <1>1 DEF SInv, TypeOK, ArrayFilled
<1>3. ArrayFilled' /\ AcceptIsReset' /\ RunningConfigured' /\ FreshUntouched'
      /\ NoThreadYet' /\ CleanReset'
  BY <1>1 DEF SInv, ArrayFilled, AcceptIsReset, RunningConfigured, FreshUntouched,
              NoThreadYet, CleanReset
<1>4. ThreadsMatch'
  <2>1. DOMAIN routers' \subseteq Index
    BY <1>1 DEF SInv, TypeOK, ArrayFilled, Index
  <2> QED
    BY <2>1 DEF SInv, NoThreadYet, ThreadsMatch
<1>5. RoutesUsable'
  BY <1>1 DEF SInv, RoutesUsable
<1> QED
  BY <1>2, <1>3, <1>4, <1>5 DEF SInv

(* END CONFIG gives every router up to the first incomplete one a thread.  *)
LEMMA SInvEndConfig ==
  ASSUME SInv, proc = "serving", num_routers = max_routers,
         \A b \in Block, x \in Index : start_threads[b][x] <= MaxThreads,
         threads' = start_threads,
         \/ incomplete = {} /\ state' = "RUNNING" /\ UNCHANGED proc
         \/ incomplete # {} /\ proc' = "ending" /\ UNCHANGED state,
         UNCHANGED <<max_routers, num_routers, routers, block, blocks, freed>>
  PROVE  SInv'
<1> USE ServerBounds
<1>1. /\ threads \in [Block -> [Index -> 0..MaxThreads]]
      /\ blocks \in Nat /\ block \in 0..MaxBlocks /\ block <= blocks
      /\ num_routers \in 0..MaxRouters /\ num_routers = Len(routers)
      /\ DOMAIN routers = 1..num_routers
  BY DEF SInv, TypeOK, ArrayFilled, FreshUntouched
<1>2. \A b \in Block, x \in Index :
        threads'[b][x] = IF b = block /\ passed(x) THEN threads[b][x] + 1
                                                  ELSE threads[b][x]
  BY DEF start_threads
<1>3. \A b \in Block, x \in Index : threads'[b][x] \in 0..MaxThreads
  <2> TAKE b \in Block, x \in Index
  <2>1. threads[b][x] \in 0..MaxThreads
    BY <1>1
  <2>2. threads'[b][x] <= MaxThreads
    OBVIOUS
  <2> QED
    BY <2>1, <2>2, <1>2
<1>4. threads' \in [Block -> [Index -> 0..MaxThreads]]
  BY <1>3 DEF start_threads
<1>5. TypeOK'
  BY <1>4 DEF SInv, TypeOK
<1>6. ArrayFilled' /\ AcceptIsReset' /\ NoThreadYet' /\ RoutesUsable' /\ CleanReset'
  BY DEF SInv, ArrayFilled, AcceptIsReset, NoThreadYet, RoutesUsable, CleanReset
<1>7. RunningConfigured'
  BY <1>1 DEF SInv, RunningConfigured, incomplete
<1>8. FreshUntouched'
  BY <1>1, <1>2 DEF SInv, FreshUntouched
<1>c. ASSUME NEW x \in Index, passed(x)
      PROVE  /\ x \in DOMAIN routers
             /\ routers[x].num_interfaces = routers[x].max_interfaces
  <2>1. x \in 1..num_routers /\ x \notin incomplete
    BY <1>c, <1>1 DEF passed, Index
  <2> QED
    BY <2>1, <1>1 DEF incomplete
<1>9. ASSUME block # 0, NEW x \in Index, threads'[block][x] > 0
      PROVE  /\ x \in DOMAIN routers
             /\ routers[x].num_interfaces = routers[x].max_interfaces
  <2>1. CASE passed(x)
    BY <2>1, <1>c
  <2>2. CASE ~passed(x)
    <3>1. threads[block][x] > 0
      BY <2>2, <1>9, <1>1, <1>2 DEF Block
    <3> QED
      BY <3>1, <1>9 DEF SInv, ThreadsMatch
  <2> QED
    BY <2>1, <2>2
<1>10. ASSUME block # 0, proc' = "serving", NEW x \in DOMAIN routers,
              NEW y \in DOMAIN routers
       PROVE  /\ state' = "RUNNING" /\ threads'[block][x] > 0
              /\ threads'[block][x] = threads'[block][y]
  <2>1. /\ block \in Block /\ x \in Index /\ y \in Index
        /\ x <= num_routers /\ y <= num_routers /\ incomplete = {}
    BY <1>10, <1>1 DEF Block, Index
  <2>2. passed(x) /\ passed(y)
    BY <2>1 DEF passed
  <2>3. threads[block][x] \in Nat /\ threads[block][y] \in Nat
    BY <2>1, <1>1
  <2>4. threads[block][x] = threads[block][y]
    BY <1>10 DEF SInv, ThreadsMatch
  <2> QED
    BY <1>10, <2>1, <2>2, <2>3, <2>4, <1>2
<1>11. ThreadsMatch'
  BY <1>9, <1>10 DEF ThreadsMatch
<1> QED
  BY <1>5, <1>6, <1>7, <1>8, <1>11 DEF SInv

(* The controller disconnects, or main frees the routers on its way out.   *)
LEMMA SInvFree ==
  ASSUME SInv, free_routers, UNCHANGED <<blocks, threads>>,
         \/ proc' = "accept" /\ state' = "HELLO_WAIT"
         \/ proc' = "leaving" /\ UNCHANGED state
  PROVE  SInv'
<1> USE ServerBounds DEF free_routers
<1>1. /\ block \in 0..MaxBlocks /\ blocks \in Nat /\ block <= blocks
      /\ freed \subseteq 1..blocks /\ freed \subseteq Block
  BY DEF SInv, TypeOK, FreshUntouched
<1>2. freed' \subseteq 1..blocks /\ freed' \subseteq Block
  BY <1>1 DEF Block
<1>3. TypeOK'
  BY <1>2 DEF SInv, TypeOK
<1>4. ArrayFilled' /\ AcceptIsReset' /\ NoThreadYet' /\ RunningConfigured'
      /\ RoutesUsable' /\ ThreadsMatch'
  BY DEF ArrayFilled, AcceptIsReset, NoThreadYet, RunningConfigured, RoutesUsable,
         ThreadsMatch
<1>5. FreshUntouched'
  BY <1>1, <1>2 DEF SInv, FreshUntouched
<1>6. CleanReset'
  BY <1>2 DEF CleanReset, Block
<1> QED
  BY <1>3, <1>4, <1>5, <1>6 DEF SInv

-----------------------------------------------------------------------------
(* Every step preserves the invariant.                                     *)
LEMMA SInvNext == SInv /\ [Next]_vars => SInv'
<1> SUFFICES ASSUME SInv, [Next]_vars PROVE SInv'
  OBVIOUS
<1> USE ServerBounds
<1>f. ASSUME Fail \/ Overrun PROVE SInv'
  BY <1>f, SInvFrame DEF Fail, Overrun
<1>1. CASE Accept
  <2>1. proc = "accept" /\ state = "HELLO_WAIT" /\ block = 0 /\ block' = 0
    BY <1>1 DEF Accept, memory, SInv, AcceptIsReset, CleanReset
  <2> QED
    BY <1>1, <2>1 DEF Accept, memory, SInv, TypeOK, ArrayFilled, AcceptIsReset,
       FreshUntouched, NoThreadYet, RunningConfigured, RoutesUsable, CleanReset,
       ThreadsMatch
<1>2. CASE Hello
  <2>1. CASE state = "HELLO_WAIT" /\ state' = "CONFIG" /\ UNCHANGED <<proc, memory>>
        /\ proc = "serving"
    BY <2>1 DEF SInv, TypeOK, ArrayFilled, AcceptIsReset, FreshUntouched, NoThreadYet,
           RunningConfigured, RoutesUsable, CleanReset, ThreadsMatch, memory
  <2> QED
    BY <1>2, <2>1, <1>f DEF Hello
<1>3. ASSUME NEW n \in 0..MaxRouters, Routers(n) PROVE SInv'
  BY <1>3, <1>f, SInvRouters DEF Routers
<1>4. ASSUME NEW r \in RouterId, NEW m \in 0..MaxIfaces, NEW e \in 0..MaxRtable,
             Router(r, m, e)
      PROVE  SInv'
  <2> DEFINE q == [Blank EXCEPT !.max_interfaces = m, !.max_rtable_entries = e]
  <2>1. CASE /\ proc = "serving" /\ state = "CONFIG" /\ r = num_routers /\ r < Len(routers)
             /\ routers' = [routers EXCEPT ![r + 1] = q]
             /\ num_routers' = num_routers + 1
             /\ UNCHANGED <<proc, state, max_routers, block, blocks, freed, threads>>
    <3>1. r \in Nat /\ Len(routers) \in Nat /\ DOMAIN routers = 1..Len(routers)
      BY <2>1 DEF SInv, TypeOK, RouterId
    <3>2. r + 1 \in DOMAIN routers /\ num_routers' \in 0..Len(routers)
      BY <3>1, <2>1
    <3>3. /\ q \in RouterCtx /\ Len(q.rtable) = 0 /\ q.num_interfaces = 0
          /\ q.max_interfaces = m /\ DOMAIN q.rtable = {}
      BY BlankType DEF RouterCtx
    <3> HIDE DEF q
    <3>4. Len(q.rtable) <= MaxRtable /\ q.num_interfaces <= q.max_interfaces
          /\ \A k \in DOMAIN q.rtable : q.rtable[k] < q.num_interfaces
      BY <3>3
    <3> QED
      BY <2>1, <3>2, <3>3, <3>4, SInvContext
  <2> QED
    BY <1>4, <2>1, <1>f DEF Router
<1>5. ASSUME NEW r \in RouterId, NEW f \in IfaceId, Interface(r, f) PROVE SInv'
  <2> DEFINE q == [routers[r + 1] EXCEPT !.num_interfaces = @ + 1]
  <2>1. CASE /\ proc = "serving" /\ state = "CONFIG" /\ known_router(r)
             /\ f = routers[r + 1].num_interfaces /\ f < routers[r + 1].max_interfaces
             /\ routers' = [routers EXCEPT ![r + 1].num_interfaces = @ + 1]
             /\ UNCHANGED <<proc, state, max_routers, num_routers, block, blocks,
                            freed, threads>>
    <3>1. /\ r \in Nat /\ Len(routers) \in Nat /\ DOMAIN routers = 1..Len(routers)
          /\ num_routers \in Nat /\ num_routers <= Len(routers) /\ r < num_routers
      BY <2>1 DEF SInv, TypeOK, ArrayFilled, RouterId, known_router
    <3>2. r + 1 \in DOMAIN routers /\ num_routers' \in 0..Len(routers)
      BY <3>1, <2>1
    <3>3. /\ routers[r + 1] \in RouterCtx /\ Len(routers[r + 1].rtable) <= MaxRtable
          /\ \A k \in DOMAIN routers[r + 1].rtable : routers[r + 1].rtable[k] < f
      BY <3>2, <2>1 DEF SInv, TypeOK, RoutesUsable
    <3>4. /\ f \in Nat /\ f + 1 \in 0..MaxIfaces
          /\ routers[r + 1].max_interfaces \in Nat
          /\ routers[r + 1].rtable \in Seq(IfaceId)
      BY <3>3, <2>1, ContextFields DEF IfaceId
    <3>5. /\ q = [routers[r + 1] EXCEPT !.num_interfaces = f + 1] /\ q \in RouterCtx
          /\ q.num_interfaces = f + 1 /\ q.rtable = routers[r + 1].rtable
          /\ q.max_interfaces = routers[r + 1].max_interfaces
      BY <3>3, <3>4, <2>1, CountedInterface
    <3>6. routers' = [routers EXCEPT ![r + 1] = q]
      BY <2>1
    <3> HIDE DEF q
    <3>7. \A k \in DOMAIN q.rtable : q.rtable[k] < q.num_interfaces
      <4> SUFFICES ASSUME NEW k \in DOMAIN routers[r + 1].rtable
                   PROVE  routers[r + 1].rtable[k] < f + 1
        BY <3>5
      <4>1. routers[r + 1].rtable[k] \in Nat
        BY <3>4 DEF IfaceId
      <4> QED
        BY <4>1, <3>3, <3>4
    <3>8. Len(q.rtable) <= MaxRtable /\ q.num_interfaces <= q.max_interfaces
      BY <2>1, <3>3, <3>4, <3>5
    <3> QED
      BY <2>1, <3>2, <3>5, <3>6, <3>7, <3>8, SInvContext
  <2> QED
    BY <1>5, <2>1, <1>f DEF Interface
<1>6. ASSUME NEW r \in RouterId, NEW f \in IfaceId, RTableEntry(r, f) PROVE SInv'
  <2> DEFINE q == [routers[r + 1] EXCEPT !.rtable = Append(@, f)]
  <2>1. CASE /\ proc = "serving" /\ state = "CONFIG"
             /\ known_router(r) /\ known_iface(r, f)
             /\ ~rtable_full(r)
             /\ routers' = [routers EXCEPT ![r + 1].rtable = Append(@, f)]
             /\ UNCHANGED <<proc, state, max_routers, num_routers, block, blocks,
                            freed, threads>>
    <3>1. /\ r \in Nat /\ Len(routers) \in Nat /\ DOMAIN routers = 1..Len(routers)
          /\ num_routers \in Nat /\ num_routers <= Len(routers) /\ r < num_routers
      BY <2>1 DEF SInv, TypeOK, ArrayFilled, RouterId, known_router
    <3>2. r + 1 \in DOMAIN routers /\ num_routers' \in 0..Len(routers)
      BY <3>1, <2>1
    <3>3. /\ routers[r + 1] \in RouterCtx
          /\ routers[r + 1].num_interfaces <= routers[r + 1].max_interfaces
          /\ \A k \in DOMAIN routers[r + 1].rtable :
               routers[r + 1].rtable[k] < routers[r + 1].num_interfaces
      BY <3>2, <2>1 DEF SInv, TypeOK, RoutesUsable
    <3>4. /\ routers[r + 1].max_rtable_entries \in 0..MaxRtable
          /\ routers[r + 1].rtable \in Seq(IfaceId)
          /\ Len(routers[r + 1].rtable) \in Nat
          /\ Len(routers[r + 1].rtable) < routers[r + 1].max_rtable_entries
          /\ f < routers[r + 1].num_interfaces
      BY <3>3, <2>1, ContextFields DEF rtable_full, known_iface
    <3>5. /\ q \in RouterCtx /\ q.rtable = Append(routers[r + 1].rtable, f)
          /\ q.num_interfaces = routers[r + 1].num_interfaces
          /\ q.max_interfaces = routers[r + 1].max_interfaces
      BY <3>3, AddedRoute
    <3>6. routers' = [routers EXCEPT ![r + 1] = q]
      BY <2>1
    <3> HIDE DEF q
    <3>7. Len(q.rtable) = Len(routers[r + 1].rtable) + 1
          /\ \A k \in DOMAIN q.rtable : q.rtable[k] < q.num_interfaces
      BY <3>3, <3>4, <3>5
    <3>8. Len(q.rtable) <= MaxRtable /\ q.num_interfaces <= q.max_interfaces
      BY <3>3, <3>4, <3>5, <3>7
    <3> QED
      BY <2>1, <3>2, <3>5, <3>6, <3>7, <3>8, SInvContext
  <2> QED
    BY <1>6, <2>1, <1>f DEF RTableEntry
<1>7. CASE EndConfig
  BY <1>7, <1>f, SInvEndConfig DEF EndConfig
<1>8. ASSUME NEW r \in RouterId, NEW f \in IfaceId, NEW l \in FrameLen,
             NEW d \in FrameDst, EthernetFrame(r, f, l, d)
      PROVE  SInv'
  BY <1>8, <1>f, SInvFrame DEF EthernetFrame, vars, memory
<1>9. CASE UnknownMessage \/ Ended \/ UNCHANGED vars
  BY <1>9, SInvFrame DEF UnknownMessage, Ended, vars, memory
<1>10. CASE Disconnect \/ Destroy
  BY <1>10, SInvFree DEF Disconnect, Destroy
<1>12. CASE Exit
  <2>1. /\ threads' \in [Block -> [Index -> 0..MaxThreads]]
        /\ \A b \in Block, x \in Index : threads'[b][x] = 0
    BY <1>12 DEF Exit
  <2>2. block' \in 0..MaxBlocks /\ proc' = "exited"
    BY <1>12 DEF Exit, SInv, TypeOK
  <2>3. TypeOK' /\ ArrayFilled' /\ AcceptIsReset' /\ FreshUntouched' /\ NoThreadYet'
        /\ RunningConfigured' /\ RoutesUsable' /\ CleanReset'
    BY <1>12, <2>1, <2>2 DEF Exit, SInv, TypeOK, ArrayFilled, AcceptIsReset,
       FreshUntouched, NoThreadYet, RunningConfigured, RoutesUsable, CleanReset
  <2>4. ThreadsMatch'
    BY <2>1, <2>2 DEF ThreadsMatch, Block
  <2> QED
    BY <2>3, <2>4 DEF SInv
<1>11. CASE SocketError \/ ArpRound
  BY <1>11, <1>f DEF SocketError, ArpRound
<1> QED
  BY <1>1, <1>2, <1>3, <1>4, <1>5, <1>6, <1>7, <1>8, <1>9, <1>10, <1>11, <1>12
  DEF Next, Message

(* The inductive invariant holds throughout.                               *)
THEOREM ServerInvariant == Spec => []SInv
  BY SInvInit, SInvNext, PTL DEF Spec

(* Frames reach only a completely configured set of routers, and a route   *)
(* only an interface its router has, whatever the controller sent.         *)
THEOREM ConfigurationIsSound == Spec => []ConfigurationSound
<1>1. SInv => ConfigurationSound
  BY DEF SInv, ConfigurationSound
<1> QED
  BY <1>1, ServerInvariant, PTL

(* Disconnecting leaves nothing of the configuration, and no array that    *)
(* has been freed is held.                                                 *)
THEOREM ResetIsClean == Spec => []CleanReset
<1>1. SInv => CleanReset
  BY DEF SInv
<1> QED
  BY <1>1, ServerInvariant, PTL

(* An ARP thread runs only for a router with all its interfaces, although  *)
(* END CONFIG may fail with threads already started; while the server      *)
(* serves, running routers all have the same number of threads, at least   *)
(* one, and routers being configured have none.                            *)
THEOREM ThreadsAreTheRouters == Spec => []ThreadsMatch
<1>1. SInv => ThreadsMatch
  BY DEF SInv
<1> QED
  BY <1>1, ServerInvariant, PTL
=============================================================================
