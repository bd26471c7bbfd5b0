------------------------------- MODULE Router -------------------------------
(***************************************************************************)
(* One chirouter router: the frame handler of router.c, run by the main    *)
(* thread, and the ARP thread of arp.c, sharing the ARP cache and the list *)
(* of pending ARP requests under the mutex lock_arp of chirouter_ctx_t.    *)
(*                                                                         *)
(* The main thread takes the mutex for each table access on its own and    *)
(* gives it back in between, so one call of the handler is several steps:  *)
(* a step is one critical section, or the code between two of them.  The   *)
(* ARP thread keeps the mutex for a whole round; a round is cut into the   *)
(* purge, one step per pending request, and the unlock, so that the main   *)
(* thread's unlocked code runs in between.                                 *)
(***************************************************************************)
EXTENDS Integers, Sequences, SequencesExt

CONSTANTS
  MaxFrames,      \* bound: how many IP datagrams reach the router
  Header,         \* the IP headers the environment sends
  IP, Mac,        \* addresses
  ZeroIp, ZeroMac,\* 0.0.0.0, "no gateway" in the routing table, and its like
  Iface, IfaceIp, \* the router's interfaces and their addresses
  Route,          \* result of the routing-table lookup for each destination
  NULL,
  Announce,       \* the <<spa, sha>> pairs of the ARP replies that arrive
  ReqId,          \* addresses calloc gives to pending requests
  ARPCACHE_SIZE,  \* 100 in the code
  ARPCACHE_ENTRY_TIMEOUT, \* 15 seconds in the code
  MAX_TIMES_SENT  \* 5 in the code

VARIABLES
  lock_arp,   \* holder of the mutex between steps: "free" or "arp"
  arpcache,   \* slot -> [ip, mac, age]; age is now - time_added
  valid,      \* the slots whose valid flag is set
  pending,    \* pending_arp_reqs: sequence of request addresses
  req,        \* the heap: address -> [ip, times_sent, frames]
  pc,         \* where the main thread is
  cur,        \* datagram the main thread handles, 0 when none
  entry,      \* arpcache_entry: slot the cache lookup returned, 0 for NULL
  preq,       \* pending_req: address the pending lookup returned
  reply,      \* the ARP reply the main thread handles: <<spa, sha>>
  arp_pc,     \* where the ARP thread is
  arp_elt,    \* position in pending of the ARP thread's loop
  received,   \* history: datagrams 1..received have arrived, in that order
  hdr,        \* history: header of each arrived datagram
  fate,       \* history: what was sent in answer to each datagram
  asked,      \* history: ARP requests broadcast for an address since the
              \* pending request for it was created
  announced   \* history: <<spa, sha>> pairs received in ARP replies

shared == <<lock_arp, arpcache, valid, pending, req>>
mainv  == <<pc, cur, entry, preq, reply>>
arpv   == <<arp_pc, arp_elt>>
histv  == <<received, hdr, fate, asked, announced>>
vars   == <<shared, mainv, arpv, histv>>

Frame == 1..MaxFrames
Slot  == 1..ARPCACHE_SIZE
AGE_MAX == ARPCACHE_ENTRY_TIMEOUT + 1   \* ages beyond this are alike
Byte == 0..255

Proto == {"tcp", "udp", "echo_request", "other_icmp", "other"}
HeaderType == [in: Iface, dst: IP, proto: Proto, ttl: Byte]

ASSUME BoundsAssumption ==
  /\ MaxFrames \in Nat
  /\ ARPCACHE_SIZE \in Nat \ {0}
  /\ ARPCACHE_ENTRY_TIMEOUT \in Nat
  /\ MAX_TIMES_SENT \in Nat \ {0}

ASSUME AddressAssumption ==
  /\ ZeroIp \in IP /\ ZeroMac \in Mac
  /\ IfaceIp \in [Iface -> IP]
  /\ Route \in [IP -> [gw: IP, iface: Iface] \cup {NULL}]
  /\ NULL \notin [gw: IP, iface: Iface] \cup ReqId
  /\ Header \subseteq HeaderType
  /\ Announce \subseteq IP \X Mac

-----------------------------------------------------------------------------
(* Outcomes of a datagram.  ICMP errors are named by type and code; "none" *)
(* is a datagram still in the router, "ignored" one the code answers with  *)
(* nothing, "lost" one whose only copy hangs off freed memory.             *)

ICMP == {"echo_reply", "port_unreachable", "protocol_unreachable",
         "host_unreachable", "net_unreachable", "time_exceeded"}
Quiet == [kind: {"none", "ignored", "lost"} \cup ICMP]
Forwarded == [kind: {"forwarded"}, mac: Mac, ttl: Byte]
Outcome == Quiet \cup Forwarded

Answer(k) == [kind |-> k]
Nothing == Answer("none")

(* get_forward_ip of the matching entry for destination ip.                *)
get_forward_ip(ip) ==
  IF Route[ip].gw # ZeroIp THEN Route[ip].gw ELSE ip

NextHop(d) == get_forward_ip(hdr[d].dst)

(* What becomes of datagram d once its next hop's MAC is known: the time   *)
(* to live is a uint8_t, tested against 1 only.                            *)
forward_ip_datagram(d, mac) ==
  IF hdr[d].ttl = 1
  THEN Answer("time_exceeded")
  ELSE [kind |-> "forwarded", mac |-> mac, ttl |-> (hdr[d].ttl - 1) % 256]

(* A datagram addressed to the interface it came in by.                    *)
LocalAnswer(h) ==
  CASE h.proto \in {"tcp", "udp"} -> Answer("port_unreachable")
    [] h.proto \notin {"tcp", "udp"} /\ h.ttl = 1 -> Answer("time_exceeded")
    [] h.proto = "echo_request" /\ h.ttl # 1 -> Answer("echo_reply")
    [] h.proto = "other_icmp" /\ h.ttl # 1 -> Answer("ignored")
    [] h.proto = "other" /\ h.ttl # 1 -> Answer("protocol_unreachable")

(* What is sent before the ARP tables are looked at, if anything.          *)
first_answer(h) ==
  IF h.dst = IfaceIp[h.in] THEN LocalAnswer(h)
  ELSE IF \E i \in Iface : IfaceIp[i] = h.dst THEN Answer("host_unreachable")
  ELSE IF Route[h.dst] = NULL THEN Answer("net_unreachable")
  ELSE Nothing

-----------------------------------------------------------------------------
(* The tables.  Both lookups return the first match.                       *)

FirstOf(T) == {i \in T : \A j \in T : i <= j}

(* Fault: the ip comparison is missing.                                    *)
lookup_any_ip(ip) == FirstOf(valid)
(* Fault: the loop stops one slot early.                                   *)
lookup_short(ip) ==
  FirstOf({s \in valid \ {ARPCACHE_SIZE} : arpcache[s].ip = ip})

arp_cache_lookup(ip) ==
  FirstOf({s \in valid : arpcache[s].ip = ip})

(* Fault: the walk starts behind the head of the list.                     *)
lookup_behind_head(ip) ==
  FirstOf({i \in DOMAIN pending \ {1} : req[pending[i]].ip = ip})

pending_req_lookup(ip) ==
  FirstOf({i \in DOMAIN pending : req[pending[i]].ip = ip})

free_slot == FirstOf(Slot \ valid)

(* Fault: the purge loop stops one slot early.                             *)
expired_short(s) ==
  s < ARPCACHE_SIZE /\ arpcache[s].age > ARPCACHE_ENTRY_TIMEOUT

expired(s) == arpcache[s].age > ARPCACHE_ENTRY_TIMEOUT

live == ToSet(pending)   \* the requests that have not been freed
(* Memory that holds no request: never read, so one value stands for all.  *)
Freed == [ip |-> ZeroIp, times_sent |-> 0, frames |-> <<>>]

(* Fault: the walk over the withheld frames skips the first.               *)
frames_but_first(r) == ToSet(Tail(req[r].frames))

withheld_frames(r) == ToSet(req[r].frames)

(* A request just added to the list and sent once, with one frame in it.   *)
pending_req_add(ip, d) == [ip |-> ip, times_sent |-> 1, frames |-> <<d>>]

(* Fault: the frame is put in front of the list.                           *)
prepend_frame(r, d) == <<d>> \o req[r].frames

add_frame(r, d) == Append(req[r].frames, d)

(* The n-th broadcast of an ARP request for ip.                            *)
send_arp_request(ip, n) == [asked EXCEPT ![ip] = n]

(* Fault: one request too many.                                            *)
sent_six_times(r) == req[r].times_sent > MAX_TIMES_SENT

(* chirouter_arp_process_pending_req answers REMOVE instead of KEEP.       *)
sent_enough(r) == req[r].times_sent >= MAX_TIMES_SENT

-----------------------------------------------------------------------------
(* ctx_init callocs the context: every slot invalid and as old as the      *)
(* epoch, no pending request, the mutex free, the ARP thread asleep.       *)
Init ==
  /\ lock_arp = "free"
  /\ arpcache = [s \in Slot |-> [ip |-> ZeroIp, mac |-> ZeroMac, age |-> AGE_MAX]]
  /\ valid = {}
  /\ pending = <<>>
  /\ req = [r \in ReqId |-> Freed]
  /\ pc = "recv" /\ cur = 0 /\ entry = 0 /\ preq = NULL /\ reply = <<>>
  /\ arp_pc = "sleep" /\ arp_elt = 1
  /\ received = 0
  /\ hdr = [d \in Frame |-> NULL]
  /\ fate = [d \in Frame |-> Nothing]
  /\ asked = [ip \in IP |-> 0]
  /\ announced = {}

running == pc \notin {"exited", "crashed"}

-----------------------------------------------------------------------------
(* The main thread.                                                        *)

(* chirouter_process_ethernet_frame up to the first critical section.      *)
RecvDatagram ==
  /\ pc = "recv" /\ received < MaxFrames
  /\ received' = received + 1
  /\ \E h \in Header :
       /\ hdr' = [hdr EXCEPT ![received'] = h]
       /\ fate' = [fate EXCEPT ![received'] = first_answer(h)]
       /\ \/ /\ first_answer(h) # Nothing
             /\ UNCHANGED <<pc, cur>>
          \/ /\ first_answer(h) = Nothing
             /\ pc' = "cache_lookup" /\ cur' = received'
  /\ UNCHANGED <<shared, entry, preq, reply, arpv, asked, announced>>

CacheLookup ==
  /\ pc = "cache_lookup" /\ lock_arp = "free"
  /\ LET hit == arp_cache_lookup(NextHop(cur))
     IN \/ /\ hit = {}
           /\ pc' = "pending_lookup" /\ entry' = 0
        \/ /\ entry' \in hit
           /\ pc' = "forward"
  /\ UNCHANGED <<shared, cur, preq, reply, arpv, histv>>

(* Cache hit: the entry's mac is read after the mutex was given back.      *)
Forward ==
  /\ pc = "forward"
  /\ fate' = [fate EXCEPT ![cur] = forward_ip_datagram(cur, arpcache[entry].mac)]
  /\ pc' = "recv" /\ cur' = 0 /\ entry' = 0
  /\ UNCHANGED <<shared, preq, reply, arpv, received, hdr, asked, announced>>

PendingLookup ==
  /\ pc = "pending_lookup" /\ lock_arp = "free"
  /\ LET hit == pending_req_lookup(NextHop(cur))
     IN \/ /\ hit = {}
           /\ pc' = "new_request" /\ preq' = NULL
        \/ \E i \in hit : preq' = pending[i] /\ pc' = "add_frame"
  /\ UNCHANGED <<shared, cur, entry, reply, arpv, histv>>

(* Broadcast an ARP request, append a pending request that has been sent   *)
(* once, and withhold the datagram in it.                                  *)
NewRequest ==
  /\ pc = "new_request" /\ lock_arp = "free"
  /\ \E r \in ReqId \ live :
       /\ req' = [req EXCEPT ![r] = pending_req_add(NextHop(cur), cur)]
       /\ pending' = Append(pending, r)
  /\ asked' = send_arp_request(NextHop(cur), 1)
  /\ pc' = "recv" /\ cur' = 0
  /\ UNCHANGED <<lock_arp, arpcache, valid, entry, preq, reply, arpv,
                 received, hdr, fate, announced>>

(* Withhold the datagram in the request found before the mutex was given   *)
(* back and taken again.                                                   *)
AddFrame ==
  /\ pc = "add_frame" /\ lock_arp = "free"
  /\ preq \in live
  /\ req' = [req EXCEPT ![preq].frames = add_frame(preq, cur)]
  /\ pc' = "recv" /\ cur' = 0 /\ preq' = NULL
  /\ UNCHANGED <<lock_arp, arpcache, valid, pending, entry, reply, arpv, histv>>

(* The same when the ARP thread freed that request meanwhile: undefined.   *)
(* The copy ends up on a list nobody can reach, or the process dies.       *)
AddFrameFreed ==
  /\ pc = "add_frame" /\ lock_arp = "free"
  /\ preq \notin live
  /\ \/ /\ fate' = [fate EXCEPT ![cur] = Answer("lost")]
        /\ pc' = "recv" /\ cur' = 0 /\ preq' = NULL
     \/ /\ pc' = "crashed"
        /\ UNCHANGED <<cur, preq, fate>>
  /\ UNCHANGED <<shared, entry, reply, arpv, received, hdr, asked, announced>>

(* An ARP reply addressed to the receiving interface.  Other ARP messages  *)
(* and other ethertypes leave the tables alone: an ARP request is answered *)
(* at once, everything else is ignored.  (For other ethertypes the handler *)
(* ends without a return statement; in the repository's Debug build the    *)
(* caller then sees the ethertype, which is not -1.)                       *)
RecvArpReply ==
  /\ pc = "recv"
  /\ reply' \in Announce
  /\ announced' = announced \cup {reply'}
  /\ pc' = "cache_add"
  /\ UNCHANGED <<shared, cur, entry, preq, arpv, received, hdr, fate, asked>>

(* chirouter_arp_cache_add; a full cache makes the handler return -1, on   *)
(* which the server stops and the process exits.                           *)
CacheAdd ==
  /\ pc = "cache_add" /\ lock_arp = "free"
  /\ \/ /\ free_slot = {}
        /\ pc' = "exited"
        /\ UNCHANGED <<arpcache, valid>>
     \/ \E s \in free_slot :
          /\ arpcache' = [arpcache EXCEPT ![s] =
               [ip |-> reply[1], mac |-> reply[2], age |-> 0]]
          /\ valid' = valid \cup {s}
          /\ pc' = "drain"
  /\ UNCHANGED <<lock_arp, pending, req, cur, entry, preq, reply, arpv, histv>>

(* Send on every datagram withheld for the announced address, then free    *)
(* the request.                                                            *)
Drain ==
  /\ pc = "drain" /\ lock_arp = "free"
  /\ LET hit == pending_req_lookup(reply[1])
     IN \/ hit = {} /\ UNCHANGED <<pending, req, fate>>
        \/ \E i \in hit :
             /\ fate' = [d \in Frame |->
                  IF d \in withheld_frames(pending[i])
                  THEN forward_ip_datagram(d, reply[2]) ELSE fate[d]]
             /\ pending' = RemoveAt(pending, i)
             /\ req' = [req EXCEPT ![pending[i]] = Freed]
  /\ pc' = "recv" /\ reply' = <<>>
  /\ UNCHANGED <<lock_arp, arpcache, valid, cur, entry, preq, arpv,
                 received, hdr, asked, announced>>

-----------------------------------------------------------------------------
(* The ARP thread: chirouter_arp_process.                                  *)

(* sleep(1) is over: take the mutex and purge the cache.                   *)
ArpLock ==
  /\ running /\ arp_pc = "awake" /\ lock_arp = "free"
  /\ lock_arp' = "arp"
  /\ valid' = {s \in valid : ~expired(s)}
  /\ arp_pc' = "scan" /\ arp_elt' = 1
  /\ UNCHANGED <<arpcache, pending, req, mainv, histv>>

(* chirouter_arp_process_pending_req on a request sent fewer than five     *)
(* times: send it again and keep it.                                       *)
ArpResend ==
  /\ running /\ arp_pc = "scan" /\ arp_elt \in DOMAIN pending
  /\ LET r == pending[arp_elt]
     IN /\ ~sent_enough(r)
        /\ req' = [req EXCEPT ![r].times_sent = @ + 1]
        /\ asked' = send_arp_request(req[r].ip, asked[req[r].ip] + 1)
  /\ arp_elt' = arp_elt + 1
  /\ UNCHANGED <<lock_arp, arpcache, valid, pending, mainv, arp_pc,
                 received, hdr, fate, announced>>

(* The same on one sent five times: Host Unreachable for every withheld    *)
(* datagram, and the request is unlinked and freed.                        *)
ArpGiveUp ==
  /\ running /\ arp_pc = "scan" /\ arp_elt \in DOMAIN pending
  /\ LET r == pending[arp_elt]
     IN /\ sent_enough(r)
        /\ fate' = [d \in Frame |-> IF d \in withheld_frames(r)
                                    THEN Answer("host_unreachable") ELSE fate[d]]
        /\ req' = [req EXCEPT ![r] = Freed]
  /\ pending' = RemoveAt(pending, arp_elt)
  /\ UNCHANGED <<lock_arp, arpcache, valid, mainv, arpv,
                 received, hdr, asked, announced>>

ArpUnlock ==
  /\ running /\ arp_pc = "scan" /\ arp_elt \notin DOMAIN pending
  /\ lock_arp' = "free"
  /\ arp_pc' = "sleep" /\ arp_elt' = 1
  /\ UNCHANGED <<arpcache, valid, pending, req, mainv, histv>>

(* The clock behind time(NULL) and sleep(1) moves on by one second.        *)
Tick ==
  /\ running
  /\ arp_pc' = IF arp_pc = "sleep" THEN "awake" ELSE arp_pc
  /\ arpcache' = [s \in Slot |-> [arpcache[s] EXCEPT
       !.age = IF @ < AGE_MAX THEN @ + 1 ELSE AGE_MAX]]
  /\ UNCHANGED <<lock_arp, valid, pending, req, mainv, arp_elt, histv>>

Stopped == ~running /\ UNCHANGED vars

-----------------------------------------------------------------------------
MainStep == \/ CacheLookup \/ Forward \/ PendingLookup \/ NewRequest
            \/ AddFrame \/ AddFrameFreed \/ CacheAdd \/ Drain
ArpStep  == ArpLock \/ ArpResend \/ ArpGiveUp \/ ArpUnlock

Next == RecvDatagram \/ RecvArpReply \/ MainStep \/ ArpStep \/ Tick \/ Stopped

Spec == Init /\ [][Next]_vars

(* Both threads are scheduled and time passes; nothing is assumed of the   *)
(* environment: no frame ever has to arrive.  The main thread blocked on   *)
(* lock_arp gets it in one of the seconds the ARP thread sleeps without    *)
(* it, although it may find it taken again and again: strong fairness.     *)
FairSpec == Spec /\ SF_vars(MainStep) /\ WF_vars(ArpStep) /\ WF_vars(Tick)

-----------------------------------------------------------------------------
Withheld(d) == \E r \in live : d \in ToSet(req[r].frames)
Answered(d) == fate[d] # Nothing
Lost(d) == fate[d] = Answer("lost")

CacheEntry == [ip: IP, mac: Mac, age: 0..AGE_MAX]
Request == [ip: IP, times_sent: 0..MAX_TIMES_SENT, frames: Seq(Frame)]
Point == {"recv", "cache_lookup", "forward", "pending_lookup", "new_request",
          "add_frame", "cache_add", "drain", "exited", "crashed"}

(* Values of the variables: record shapes, ranges of ages and counters.    *)
TypeOK ==
  /\ lock_arp \in {"free", "arp"}
  /\ arpcache \in [Slot -> CacheEntry]
  /\ valid \subseteq Slot
  /\ pending \in Seq(ReqId)
  /\ req \in [ReqId -> Request]
  /\ pc \in Point
  /\ cur \in Frame \cup {0}
  /\ entry \in Slot \cup {0}
  /\ preq \in ReqId \cup {NULL}
  /\ reply \in (IP \X Mac) \cup {<<>>}
  /\ arp_pc \in {"sleep", "awake", "scan"} /\ arp_elt \in Nat \ {0}
  /\ received \in 0..MaxFrames
  /\ hdr \in [Frame -> Header \cup {NULL}]
  /\ fate \in [Frame -> Outcome]
  /\ asked \in [IP -> Nat]
  /\ announced \subseteq IP \X Mac

(* Every datagram that has arrived is in exactly one place: in the main    *)
(* thread's hands, withheld once in one pending request, or done with:     *)
(* answered, or hung off the freed request of AddFrameFreed.  Neither the  *)
(* unlocks inside the handler nor the ARP thread's frees in between drop a *)
(* datagram in any other way, or leave one to be answered twice.           *)
Conservation ==
  /\ \A d \in Frame :
       /\ d <= received <=> (cur = d \/ Withheld(d) \/ Answered(d))
       /\ ~(cur = d /\ Withheld(d))
       /\ ~(cur = d /\ Answered(d))
       /\ ~(Withheld(d) /\ Answered(d))
  /\ \A r, s \in live : \A i \in DOMAIN req[r].frames, j \in DOMAIN req[s].frames :
       req[r].frames[i] = req[s].frames[j] => r = s /\ i = j

(* At most one pending request per address, although the handler gives the *)
(* mutex back between "is there one?" and "add one".                       *)
UniquePending ==
  \A i, j \in DOMAIN pending : req[pending[i]].ip = req[pending[j]].ip => i = j

(* No address is both resolved and being asked for, except between the two *)
(* critical sections of the ARP reply handler: a datagram never waits for  *)
(* an address the cache already has.                                       *)
CachedXorPending ==
  \A s \in valid, r \in live :
    arpcache[s].ip = req[r].ip
      => pc = "drain" /\ reply[1] = req[r].ip

(* A datagram is only ever sent to a MAC address some ARP reply announced  *)
(* for its next hop, although the cache entry is read without the mutex.   *)
ForwardMac ==
  \A d \in Frame : fate[d].kind = "forwarded"
                     => <<NextHop(d), fate[d].mac>> \in announced

(* What stays true of the tables: cached pairs were announced, a queue     *)
(* holds datagrams for its own address, the counter counts broadcasts.     *)
KnownMacs ==
  /\ \A s \in valid : <<arpcache[s].ip, arpcache[s].mac>> \in announced
  /\ pc = "forward" => <<NextHop(cur), arpcache[entry].mac>> \in announced
QueuesMatch ==
  \A r \in live : /\ \A d \in withheld_frames(r) : NextHop(d) = req[r].ip
                  /\ asked[req[r].ip] = req[r].times_sent
(* What a lookup found is still so when the handler acts on it, with the   *)
(* mutex given back and taken again in between.                            *)
LookupsHold ==
  /\ pc \in {"pending_lookup", "new_request", "add_frame"}
       => \A s \in valid : arpcache[s].ip # NextHop(cur)
  /\ pc = "new_request" => \A r \in live : req[r].ip # NextHop(cur)
  /\ pc = "add_frame" /\ preq \in live => req[preq].ip = NextHop(cur)
(* Everything the main thread carries across an unlock, and the tables it  *)
(* comes from, agree: an address found absent is still absent, a request   *)
(* found is for the same address if it still exists, a cache entry read    *)
(* late still holds a MAC announced for the next hop.                      *)
CarriedState == KnownMacs /\ QueuesMatch /\ LookupsHold

(* A datagram is not sent on while an earlier one for the same next hop is *)
(* still in the router, and withheld datagrams leave in arrival order.     *)
NoOvertaking ==
  [][\A d \in Frame : \A e \in 1..(d - 1) :
       /\ ~Answered(d) /\ fate'[d].kind = "forwarded"
       /\ NextHop(e)' = NextHop(d)'
       /\ hdr'[e].dst \notin {IfaceIp[i] : i \in Iface}
       => /\ Answered(e)'
          /\ ~Answered(e) =>
               \E r \in live : \E i, j \in DOMAIN req[r].frames :
                 i < j /\ req[r].frames[i] = e /\ req[r].frames[j] = d]_vars

(* The router reports a next hop unreachable only after the ARP request    *)
(* for it went out exactly MAX_TIMES_SENT times (five in the code).        *)
GiveUpAfterFive ==
  [][\A d \in Frame : Withheld(d) /\ fate'[d].kind = "host_unreachable"
       /\ ~Answered(d) => asked[NextHop(d)] = MAX_TIMES_SENT]_vars

(* Every datagram that arrives is answered, whether or not the next hop    *)
(* ever answers an ARP request, unless the process stops, or the ARP       *)
(* thread frees the request the handler holds for this very datagram: that *)
(* one may never be answered, which NoneLost is about.                     *)
Unanswered(d) == d <= received /\ ~Answered(d)
FreedInHand(d) == cur = d /\ pc = "add_frame" /\ preq \notin live
EveryDatagramAnswered ==
  \A d \in Frame :
    Unanswered(d) ~> ((Answered(d) /\ ~Lost(d)) \/ FreedInHand(d) \/ ~running)

(* A withheld frame is sent on or answered with Host Unreachable: none is  *)
(* put where the thread that answers withheld frames cannot find it.  The  *)
(* handler looks the request up in one critical section and adds to it in  *)
(* the next, and the ARP thread may free it in between.                    *)
NoneLost == \A d \in Frame : ~Lost(d)

(* A cache entry does not outlive its timeout for ever.                    *)
EntriesExpire ==
  \A s \in Slot : (s \in valid) ~> (s \notin valid \/ ~running)
=============================================================================
