------------------------------- MODULE Server -------------------------------
(***************************************************************************)
(* The chirouter server of server.c: it accepts one controller at a time,  *)
(* takes the router configuration from it message by message, starts one   *)
(* ARP thread per router, and hands Ethernet frames to the routers until   *)
(* the controller disconnects; then it frees the routers and waits for the *)
(* next controller.  The controller may send any message at any time.      *)
(*                                                                         *)
(* The array of router contexts is a block of memory with an identity, so  *)
(* that the ARP threads, which hold pointers into it, can be told to be    *)
(* using an array that has been freed.  Contents of frames, names and      *)
(* addresses are left out; what a router does with a frame is in Router.   *)
(***************************************************************************)
EXTENDS Integers, Sequences

CONSTANTS
  MaxRouters, MaxIfaces, MaxRtable,  \* bounds on what a message announces
  MaxBlocks,                         \* bound on ROUTERS messages handled
  MaxThreads                         \* bound on END CONFIGs for one array

ASSUME ServerBounds ==
  /\ MaxRouters \in Nat /\ MaxIfaces \in Nat /\ MaxRtable \in Nat
  /\ MaxBlocks \in Nat /\ MaxThreads \in Nat

VARIABLES
  proc,        \* "accept", "serving"; "ending", "leaving", "exited" on the
               \* way out of main; or "undefined": the process has used
               \* memory it does not own
  state,       \* HELLO_WAIT, CONFIG or RUNNING
  max_routers, num_routers,
  routers,     \* the array, as a sequence: router r_id is routers[r_id + 1]
  block,       \* identity of the array, 0 for the NULL pointer
  blocks,      \* how many arrays have been allocated
  freed,       \* arrays that have been freed
  threads      \* ARP threads by array and index

vars == <<proc, state, max_routers, num_routers, routers, block, blocks,
          freed, threads>>

Block == 1..MaxBlocks
Index == 1..MaxRouters

(* A router context as calloc leaves it.                                   *)
Blank == [max_interfaces |-> 0, num_interfaces |-> 0,
          max_rtable_entries |-> 0, rtable |-> <<>>]

Init ==
  /\ proc = "accept" /\ state = "HELLO_WAIT"
  /\ max_routers = 0 /\ num_routers = 0 /\ routers = <<>> /\ block = 0
  /\ blocks = 0 /\ freed = {}
  /\ threads = [b \in Block |-> [x \in Index |-> 0]]

memory == <<max_routers, num_routers, routers, block, blocks, freed, threads>>

(* A handler returns -1: the connection is closed and chirouter_server_run *)
(* returns to main, which is left to free the routers and to return.       *)
Fail == proc' = "ending" /\ UNCHANGED <<state, memory>>

(* A write behind the end of an array.                                     *)
Overrun == proc' = "undefined" /\ UNCHANGED <<state, memory>>

(* Router ids and interface ids are counted from zero.                     *)
known_router(r) == r < num_routers

(* Fault: ids up to and including the number of interfaces.                *)
known_iface_or_next(r, f) == f <= routers[r + 1].num_interfaces

known_iface(r, f) == f < routers[r + 1].num_interfaces

-----------------------------------------------------------------------------
Accept ==
  /\ proc = "accept"
  /\ proc' = "serving" /\ state' = "HELLO_WAIT"
  /\ UNCHANGED memory

(* HELLO is answered with HELLO; sending the answer can fail.              *)
Hello ==
  /\ proc = "serving"
  /\ \/ state # "HELLO_WAIT" /\ Fail
     \/ state = "HELLO_WAIT" /\ Fail
     \/ /\ state = "HELLO_WAIT"
        /\ state' = "CONFIG"
        /\ UNCHANGED <<proc, memory>>

(* ROUTERS allocates the array, again if it comes again.                   *)
Routers(n) ==
  /\ proc = "serving"
  /\ \/ state # "CONFIG" /\ Fail
     \/ /\ state = "CONFIG" /\ blocks < MaxBlocks
        /\ max_routers' = n /\ num_routers' = 0
        /\ routers' = [x \in 1..n |-> Blank]
        /\ blocks' = blocks + 1 /\ block' = blocks + 1
        /\ UNCHANGED <<proc, state, freed, threads>>

(* ROUTER must carry the next router id.  That there is room for it in the *)
(* array is not tested.                                                    *)
Router(r, ifaces, entries) ==
  /\ proc = "serving"
  /\ \/ (state # "CONFIG" \/ r # num_routers) /\ Fail
     \/ state = "CONFIG" /\ r = num_routers /\ r >= Len(routers) /\ Overrun
     \/ /\ state = "CONFIG" /\ r = num_routers /\ r < Len(routers)
        /\ routers' = [routers EXCEPT ![r + 1] =
             [Blank EXCEPT !.max_interfaces = ifaces,
                           !.max_rtable_entries = entries]]
        /\ num_routers' = num_routers + 1
        /\ UNCHANGED <<proc, state, max_routers, block, blocks, freed, threads>>

(* INTERFACE must carry the next interface id of a known router.           *)
Interface(r, f) ==
  /\ proc = "serving"
  /\ \/ ~(/\ state = "CONFIG" /\ known_router(r)
          /\ f = routers[r + 1].num_interfaces) /\ Fail
     \/ /\ state = "CONFIG" /\ known_router(r)
        /\ f = routers[r + 1].num_interfaces
        /\ \/ f >= routers[r + 1].max_interfaces /\ Overrun
           \/ /\ f < routers[r + 1].max_interfaces
              /\ routers' = [routers EXCEPT ![r + 1].num_interfaces = @ + 1]
              /\ UNCHANGED <<proc, state, max_routers, num_routers, block,
                             blocks, freed, threads>>

(* Fault: one entry too many.                                              *)
rtable_overfull(r) == Len(routers[r + 1].rtable) > routers[r + 1].max_rtable_entries

rtable_full(r) == Len(routers[r + 1].rtable) >= routers[r + 1].max_rtable_entries

(* ROUTING TABLE ENTRY.                                                    *)
RTableEntry(r, f) ==
  /\ proc = "serving"
  /\ \/ ~(/\ state = "CONFIG" /\ known_router(r) /\ known_iface(r, f)
          /\ ~rtable_full(r)) /\ Fail
     \/ /\ state = "CONFIG" /\ known_router(r) /\ known_iface(r, f)
        /\ ~rtable_full(r)
        /\ routers' = [routers EXCEPT ![r + 1].rtable = Append(@, f)]
        /\ UNCHANGED <<proc, state, max_routers, num_routers, block, blocks,
                       freed, threads>>

(* Fault: the first router is not looked at.                               *)
incomplete_but_first ==
  {x \in 2..num_routers : routers[x].num_interfaces # routers[x].max_interfaces}

(* The routers at which the loop of END CONFIG returns -1.                 *)
incomplete ==
  {x \in 1..num_routers : routers[x].num_interfaces # routers[x].max_interfaces}

(* Fault: the last router gets no thread.                                  *)
passed_but_last(x) == x < num_routers /\ \A y \in incomplete : x < y

(* The loop gets past router x: it stops at the first incomplete one.      *)
passed(x) == x <= num_routers /\ \A y \in incomplete : x < y

(* pthread_create for every router the loop gets past.                     *)
start_threads ==
  [b \in Block |-> [x \in Index |->
     IF b = block /\ passed(x) THEN threads[b][x] + 1 ELSE threads[b][x]]]

(* END CONFIG.  The state is not tested, nor are the routing tables.  A    *)
(* router without all its interfaces ends the loop, with threads already   *)
(* running for the routers before it.                                      *)
EndConfig ==
  /\ proc = "serving"
  /\ \/ num_routers # max_routers /\ Fail
     \/ /\ num_routers = max_routers
        /\ \A b \in Block, x \in Index : start_threads[b][x] <= MaxThreads
        /\ threads' = start_threads
        /\ \/ incomplete = {} /\ state' = "RUNNING" /\ UNCHANGED proc
           \/ incomplete # {} /\ proc' = "ending" /\ UNCHANGED state
        /\ UNCHANGED <<max_routers, num_routers, routers, block, blocks, freed>>

FrameLen == {"short", "normal", "oversize"}
FrameDst == {"own", "broadcast", "multicast", "other"}

(* chirouter_server_process_ethernet_frame hands the frame to the router.  *)
accepted(l, d) == l = "normal" /\ d \in {"own", "broadcast"}

(* ETHERNET FRAME for interface f of router r.  A router that returns -1   *)
(* ends the process.                                                       *)
EthernetFrame(r, f, l, d) ==
  /\ proc = "serving"
  /\ \/ ~(state = "RUNNING" /\ known_router(r) /\ known_iface(r, f)) /\ Fail
     \/ /\ state = "RUNNING" /\ known_router(r) /\ known_iface(r, f)
        /\ \/ accepted(l, d) /\ Fail
           \/ UNCHANGED vars

(* A message of an unknown type is passed over.                            *)
UnknownMessage == proc = "serving" /\ UNCHANGED vars

(* Fault: the pointer and the counters are not reset.                      *)
free_without_reset ==
  /\ freed' = IF block = 0 THEN freed ELSE freed \cup {block}
  /\ UNCHANGED <<routers, block, num_routers, max_routers>>

(* chirouter_server_ctx_free_routers: the array goes, its ARP threads are  *)
(* neither told nor waited for.                                            *)
free_routers ==
  /\ freed' = IF block = 0 THEN freed ELSE freed \cup {block}
  /\ routers' = <<>> /\ block' = 0 /\ num_routers' = 0 /\ max_routers' = 0

(* recv returns 0.                                                         *)
Disconnect ==
  /\ proc = "serving"
  /\ proc' = "accept" /\ state' = "HELLO_WAIT"
  /\ free_routers
  /\ UNCHANGED <<blocks, threads>>

(* recv fails, or accept does.                                             *)
SocketError == proc \in {"serving", "accept"} /\ Fail

(* main: chirouter_server_ctx_destroy, then return, which ends the threads *)
(* of the process.                                                         *)
Destroy ==
  /\ proc = "ending"
  /\ proc' = "leaving"
  /\ free_routers
  /\ UNCHANGED <<state, blocks, threads>>

Exit ==
  /\ proc = "leaving"
  /\ proc' = "exited"
  /\ threads' = [b \in Block |-> [x \in Index |-> 0]]
  /\ UNCHANGED <<state, max_routers, num_routers, routers, block, blocks, freed>>

(* An ARP thread wakes up and takes the mutex in its router context, which *)
(* has been freed.                                                         *)
ArpRound ==
  /\ proc \in {"accept", "serving", "ending", "leaving"}
  /\ \E b \in freed, x \in Index : threads[b][x] > 0
  /\ Overrun

Ended == proc \in {"exited", "undefined"} /\ UNCHANGED vars

-----------------------------------------------------------------------------
RouterId == 0..MaxRouters
IfaceId == 0..MaxIfaces

Message ==
  \/ Hello
  \/ \E n \in 0..MaxRouters : Routers(n)
  \/ \E r \in RouterId, m \in 0..MaxIfaces, e \in 0..MaxRtable : Router(r, m, e)
  \/ \E r \in RouterId, f \in IfaceId : Interface(r, f)
  \/ \E r \in RouterId, f \in IfaceId : RTableEntry(r, f)
  \/ EndConfig
  \/ \E r \in RouterId, f \in IfaceId, l \in FrameLen, d \in FrameDst :
       EthernetFrame(r, f, l, d)
  \/ UnknownMessage

Next == \/ Accept \/ Message \/ Disconnect \/ SocketError
        \/ Destroy \/ Exit \/ ArpRound \/ Ended

Spec == Init /\ [][Next]_vars

-----------------------------------------------------------------------------
RouterCtx ==
  [max_interfaces: 0..MaxIfaces, num_interfaces: 0..MaxIfaces,
   max_rtable_entries: 0..MaxRtable, rtable: Seq(IfaceId)]

(* Ranges of the server context; no routing table is longer than the       *)
(* longest announced.                                                      *)
TypeOK ==
  /\ proc \in {"accept", "serving", "ending", "leaving", "exited", "undefined"}
  /\ state \in {"HELLO_WAIT", "CONFIG", "RUNNING"}
  /\ max_routers \in 0..MaxRouters /\ num_routers \in 0..MaxRouters
  /\ routers \in Seq(RouterCtx)
  /\ \A x \in DOMAIN routers : Len(routers[x].rtable) <= MaxRtable
  /\ block \in 0..MaxBlocks /\ blocks \in 0..MaxBlocks
  /\ freed \subseteq Block
  /\ threads \in [Block -> [Index -> 0..MaxThreads]]

(* Frames are only handled with the announced routers all there and every  *)
(* one with the announced interfaces, whatever the controller sent before. *)
RunningConfigured ==
  state = "RUNNING" =>
    /\ num_routers = max_routers /\ num_routers = Len(routers)
    /\ \A x \in 1..num_routers :
         routers[x].num_interfaces = routers[x].max_interfaces

(* A routing table entry points at an interface its router has, so that    *)
(* what forwarding reads through the pointer is a configured interface.    *)
RoutesUsable ==
  \A x \in DOMAIN routers :
    /\ \A k \in DOMAIN routers[x].rtable :
         routers[x].rtable[k] < routers[x].num_interfaces
    /\ routers[x].num_interfaces <= routers[x].max_interfaces

(* Between two controllers nothing of the first one's configuration is     *)
(* left, and the server never holds an array it has freed, so that no      *)
(* later disconnect or exit frees it again.                                *)
CleanReset ==
  /\ state = "HELLO_WAIT" => /\ routers = <<>> /\ block = 0
                             /\ num_routers = 0 /\ max_routers = 0
  /\ block \notin freed

(* An ARP thread only ever runs for a router that has all its interfaces,  *)
(* END CONFIG failing half way through the routers included.  While the    *)
(* server serves, no router has a thread before it is running, and then    *)
(* every router has one: one for each END CONFIG the controller has sent,  *)
(* so as many as any other router.                                         *)
ThreadsMatch ==
  block # 0 =>
    /\ \A x \in Index : threads[block][x] > 0 =>
         x \in DOMAIN routers /\ routers[x].num_interfaces = routers[x].max_interfaces
    /\ proc = "serving" => \A x, y \in DOMAIN routers :
         IF state = "RUNNING"
         THEN threads[block][x] > 0 /\ threads[block][x] = threads[block][y]
         ELSE threads[block][x] = 0

(* The configuration is sound, in every state a controller can bring the   *)
(* server to.                                                              *)
ConfigurationSound == TypeOK /\ RunningConfigured /\ RoutesUsable

-----------------------------------------------------------------------------
(* What server.h says of the protocol and the code does not do.            *)

(* A frame for an unknown router or interface is dropped: the server can   *)
(* handle it and be as it was.                                             *)
BadFrameDropped ==
  proc = "serving" /\ state = "RUNNING" /\ num_routers > 0 =>
    \A r \in RouterId, f \in IfaceId :
      ENABLED (EthernetFrame(r, f, "normal", "own") /\ UNCHANGED vars)

(* A router that runs has the routing table entries announced for it.      *)
TablesComplete ==
  state = "RUNNING" => \A x \in 1..num_routers :
    Len(routers[x].rtable) = routers[x].max_rtable_entries

(* Resetting the data structures ends what works on them: no ARP thread is *)
(* left with a router context that has been freed.                         *)
NoThreadLeft == \A b \in freed, x \in Index : threads[b][x] = 0
=============================================================================
