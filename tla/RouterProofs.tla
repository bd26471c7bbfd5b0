---------------------------- MODULE RouterProofs ----------------------------
(***************************************************************************)
(* The tables of one router stay consistent under its two threads, for any *)
(* number of datagrams, addresses, cache slots, requests and resends.      *)
(***************************************************************************)
EXTENDS Router, WellFoundedInduction, TLAPS

(* What the main thread's locals are at each of its program points.        *)
Busy == {"cache_lookup", "forward", "pending_lookup", "new_request", "add_frame"}
Routed(d) == d \in 1..received /\ hdr[d] \in Header /\ Route[hdr[d].dst] # NULL
ControlOK ==
  /\ pc \in Busy \cup {"crashed"} => Routed(cur)
  /\ pc \notin Busy \cup {"crashed"} => cur = 0
  /\ pc = "forward" => entry \in Slot
  /\ pc = "add_frame" => preq \in ReqId
  /\ pc \in {"cache_add", "drain"} => reply \in announced
  /\ \A d \in 1..received : hdr[d] \in Header
  /\ \A r \in ReqId : \A i \in DOMAIN req[r].frames : Routed(req[r].frames[i])
TypeInv == TypeOK /\ ControlOK

(* get_forward_ip yields an address for every routed destination.          *)
LEMMA ForwardIpType ==
  ASSUME NEW ip \in IP, Route[ip] # NULL
  PROVE  get_forward_ip(ip) \in IP
  BY AddressAssumption DEF get_forward_ip

(* The time to live stays a byte.                                          *)
LEMMA OutcomeType ==
  ASSUME NEW d, hdr[d] \in Header, NEW m \in Mac
  PROVE  /\ forward_ip_datagram(d, m) \in Outcome
         /\ forward_ip_datagram(d, m) # Nothing
         /\ forward_ip_datagram(d, m).kind = "forwarded"
              => forward_ip_datagram(d, m).mac = m
<1>1. hdr[d].ttl \in Byte
  BY AddressAssumption DEF HeaderType
<1>2. (hdr[d].ttl - 1) % 256 \in Byte
  BY <1>1 DEF Byte
<1> QED
  BY <1>2 DEF forward_ip_datagram, Outcome, Quiet, Forwarded, Answer, ICMP, Nothing

(* A datagram addressed to the router is dealt with at once.               *)
LEMMA LocalAnswerType ==
  ASSUME NEW h \in Header
  PROVE  LocalAnswer(h) \in Outcome /\ LocalAnswer(h) # Nothing
<1>1. h.proto \in Proto /\ h.ttl \in Byte
  BY AddressAssumption DEF HeaderType
<1> QED
  BY <1>1 DEF LocalAnswer, Proto, Outcome, Quiet, Answer, ICMP, Nothing

(* What is not answered at once has a route.                               *)
LEMMA FirstAnswerType ==
  ASSUME NEW h \in Header
  PROVE  /\ first_answer(h) \in Outcome
         /\ first_answer(h) = Nothing => Route[h.dst] # NULL
<1>1. Answer("host_unreachable") \in Outcome /\ Answer("net_unreachable") \in Outcome
      /\ Answer("host_unreachable") # Nothing /\ Answer("net_unreachable") # Nothing
      /\ Nothing \in Outcome
  BY DEF Answer, Outcome, Quiet, ICMP, Nothing
<1> QED
  BY <1>1, LocalAnswerType DEF first_answer

(* Removing position i of a sequence.                                      *)
LEMMA RemoveAtType ==
  ASSUME NEW S, NEW s \in Seq(S), NEW i \in DOMAIN s
  PROVE  /\ RemoveAt(s, i) \in Seq(S)
         /\ Len(RemoveAt(s, i)) = Len(s) - 1
         /\ \A j \in 1..(Len(s) - 1) :
              RemoveAt(s, i)[j] = IF j < i THEN s[j] ELSE s[j + 1]
<1>1. i \in 1..Len(s) /\ Len(s) \in Nat
  OBVIOUS
<1>2. SubSeq(s, 1, i - 1) \in Seq(S) /\ Len(SubSeq(s, 1, i - 1)) = i - 1
      /\ \A j \in 1..(i - 1) : SubSeq(s, 1, i - 1)[j] = s[j]
  BY <1>1
<1>3. SubSeq(s, i + 1, Len(s)) \in Seq(S)
      /\ Len(SubSeq(s, i + 1, Len(s))) = Len(s) - i
      /\ \A j \in 1..(Len(s) - i) : SubSeq(s, i + 1, Len(s))[j] = s[i + j]
  BY <1>1
<1> DEFINE a == SubSeq(s, 1, i - 1)
           b == SubSeq(s, i + 1, Len(s))
<1>4. RemoveAt(s, i) = a \o b
  BY DEF RemoveAt
<1> HIDE DEF a, b
<1>5. a \in Seq(S) /\ b \in Seq(S) /\ Len(a) = i - 1 /\ Len(b) = Len(s) - i
  BY <1>2, <1>3 DEF a, b
<1>6. a \o b \in Seq(S) /\ Len(a \o b) = Len(s) - 1
  BY <1>1, <1>5
<1>7. ASSUME NEW j \in 1..(Len(s) - 1), j < i
      PROVE  (a \o b)[j] = s[j]
  BY <1>1, <1>2, <1>5, <1>7 DEF a
<1>8. ASSUME NEW j \in 1..(Len(s) - 1), ~(j < i)
      PROVE  (a \o b)[j] = s[j + 1]
  <2>1. (a \o b)[j] = b[j - (i - 1)]
    BY <1>1, <1>5, <1>8
  <2>2. j - (i - 1) \in 1..(Len(s) - i)
    BY <1>1, <1>8
  <2>3. b[j - (i - 1)] = s[i + (j - (i - 1))]
    BY <2>2, <1>3 DEF b
  <2>4. i + (j - (i - 1)) = j + 1
    BY <1>1, <1>8
  <2> QED
    BY <2>1, <2>3, <2>4
<1> QED
  BY <1>4, <1>6, <1>7, <1>8

-----------------------------------------------------------------------------
(* The next hop of a routed datagram is an address.                        *)
LEMMA NextHopType ==
  ASSUME NEW d, Routed(d)
  PROVE  NextHop(d) \in IP
  BY ForwardIpType, AddressAssumption DEF Routed, NextHop, HeaderType

(* The empty request, and what the handler and the ARP thread store.       *)
LEMMA RequestType ==
  /\ Freed \in Request
  /\ \A q \in Request : /\ q.ip \in IP /\ q.times_sent \in 0..MAX_TIMES_SENT
                        /\ q.frames \in Seq(Frame)
  /\ \A ip \in IP, d \in Frame :
       [ip |-> ip, times_sent |-> 1, frames |-> <<d>>] \in Request
  /\ \A q \in Request, f \in Seq(Frame) : [q EXCEPT !.frames = f] \in Request
  /\ \A q \in Request, n \in 0..MAX_TIMES_SENT : [q EXCEPT !.times_sent = n] \in Request
  BY BoundsAssumption, AddressAssumption DEF Request, Freed

(* The fields of a cache entry.                                            *)
LEMMA CacheEntryType ==
  /\ \A e \in CacheEntry : e.ip \in IP /\ e.mac \in Mac /\ e.age \in 0..AGE_MAX
  /\ \A ip \in IP, m \in Mac, n \in 0..AGE_MAX :
       [ip |-> ip, mac |-> m, age |-> n] \in CacheEntry
  /\ \A e \in CacheEntry, n \in 0..AGE_MAX : [e EXCEPT !.age = n] \in CacheEntry
  BY DEF CacheEntry

(* The answers the steps give are outcomes.                                *)
LEMMA OutcomeMembers ==
  /\ Nothing \in Outcome /\ Answer("lost") \in Outcome
  /\ Answer("host_unreachable") \in Outcome
  /\ Answer("lost") # Nothing /\ Answer("host_unreachable") # Nothing
  BY DEF Nothing, Answer, Outcome, Quiet, ICMP

(* The range of ages.                                                      *)
LEMMA AgeBound == AGE_MAX \in Nat /\ 0 \in 0..AGE_MAX /\ AGE_MAX \in 0..AGE_MAX
  BY BoundsAssumption DEF AGE_MAX

(* The initial state has the types and the locals of ControlOK.            *)
LEMMA TypeInit == Init => TypeInv
<1> SUFFICES ASSUME Init PROVE TypeInv
  OBVIOUS
<1>1. TypeOK
  <2>1. arpcache \in [Slot -> CacheEntry]
    BY AddressAssumption, AgeBound, CacheEntryType DEF Init
  <2>2. req \in [ReqId -> Request] /\ fate \in [Frame -> Outcome]
    BY RequestType, OutcomeMembers DEF Init
  <2>3. pc \in Point /\ received \in 0..MaxFrames
    BY BoundsAssumption DEF Init, Point
  <2> QED
    BY <2>1, <2>2, <2>3 DEF Init, TypeOK
<1>2. ControlOK
  BY DEF Init, ControlOK, Busy, Freed
<1> QED
  BY <1>1, <1>2 DEF TypeInv

(* Every step keeps them, one case per action.                             *)
LEMMA TypeStep == TypeInv /\ [Next]_vars => TypeInv'
<1> SUFFICES ASSUME TypeInv, [Next]_vars PROVE TypeInv'
  OBVIOUS
<1> USE DEF TypeInv
<1>1. CASE RecvDatagram
  <2>0. PICK d : d = received + 1
    OBVIOUS
  <2>1. PICK h \in Header :
          /\ received' = d /\ hdr' = [hdr EXCEPT ![d] = h]
          /\ fate' = [fate EXCEPT ![d] = first_answer(h)]
          /\ \/ UNCHANGED <<pc, cur>>
             \/ /\ first_answer(h) = Nothing
                /\ pc' = "cache_lookup" /\ cur' = d
    BY <1>1, <2>0 DEF RecvDatagram
  <2>2. d \in Frame /\ received \in Nat /\ d \in 0..MaxFrames
    BY <1>1, <2>0, BoundsAssumption DEF RecvDatagram, TypeOK, Frame
  <2>3. first_answer(h) \in Outcome /\ (first_answer(h) = Nothing => Route[h.dst] # NULL)
    BY FirstAnswerType
  <2>4. pc' \in Point /\ cur' \in Frame \cup {0}
    BY <2>1, <2>2 DEF TypeOK, Point
  <2>5. TypeOK'
    BY <1>1, <2>1, <2>2, <2>3, <2>4 DEF RecvDatagram, TypeOK, shared, arpv
  <2>6. \A e \in 1..received : hdr'[e] = hdr[e]
    BY <2>0, <2>1, <2>2 DEF TypeOK, Frame
  <2>7. hdr'[d] = h /\ (first_answer(h) = Nothing => Routed(d)')
    BY <2>0, <2>1, <2>2, <2>3 DEF TypeOK, Routed
  <2>8. \A e : Routed(e) => Routed(e)'
    BY <2>0, <2>1, <2>2, <2>6 DEF Routed
  <2>9. pc = "recv" /\ UNCHANGED <<req, announced, reply, preq, entry>>
    BY <1>1 DEF RecvDatagram, shared
  <2>10. \A e \in 1..received' : hdr'[e] \in Header
    BY <2>0, <2>1, <2>2, <2>6, <2>7 DEF ControlOK
  <2>11. ControlOK'
    BY <2>1, <2>7, <2>8, <2>9, <2>10 DEF ControlOK, Busy
  <2> QED
    BY <2>5, <2>11
<1>2. CASE RecvArpReply
  <2>1. TypeOK'
    BY <1>2, AddressAssumption DEF RecvArpReply, TypeOK, shared, arpv, Point
  <2>2. ControlOK'
    BY <1>2 DEF RecvArpReply, ControlOK, Busy, Routed, shared, arpv
  <2> QED
    BY <2>1, <2>2
<1>3. CASE CacheLookup
  <2>1. /\ pc = "cache_lookup" /\ pc' \in {"pending_lookup", "forward"}
        /\ entry' \in Slot \cup {0} /\ (pc' = "forward" => entry' \in Slot)
        /\ UNCHANGED <<shared, cur, preq, reply, arpv, histv>>
    BY <1>3 DEF CacheLookup, TypeOK, arp_cache_lookup, FirstOf
  <2>2. TypeOK'
    BY <2>1 DEF TypeOK, shared, arpv, histv, Point
  <2>3. ControlOK'
    BY <2>1 DEF ControlOK, Busy, Routed, shared, arpv, histv
  <2> QED
    BY <2>2, <2>3
<1>4. CASE Forward
  <2>1. hdr[cur] \in Header /\ arpcache[entry].mac \in Mac
    BY <1>4, CacheEntryType DEF Forward, ControlOK, Busy, Routed, TypeOK
  <2>2. forward_ip_datagram(cur, arpcache[entry].mac) \in Outcome
    BY <2>1, OutcomeType
  <2>3. TypeOK'
    BY <1>4, <2>2 DEF Forward, TypeOK, shared, arpv, Point
  <2>4. ControlOK'
    BY <1>4 DEF Forward, ControlOK, Busy, Routed, shared, arpv
  <2> QED
    BY <2>3, <2>4
<1>5. CASE PendingLookup
  <2>1. /\ pc = "pending_lookup" /\ pc' \in {"new_request", "add_frame"}
        /\ preq' \in ReqId \cup {NULL} /\ (pc' = "add_frame" => preq' \in ReqId)
        /\ UNCHANGED <<shared, cur, entry, reply, arpv, histv>>
    <3>1. \A i \in pending_req_lookup(NextHop(cur)) : pending[i] \in ReqId
      BY DEF pending_req_lookup, FirstOf, TypeOK
    <3> QED
      BY <1>5, <3>1 DEF PendingLookup
  <2>2. TypeOK'
    BY <2>1 DEF TypeOK, shared, arpv, histv, Point
  <2>3. ControlOK'
    BY <2>1 DEF ControlOK, Busy, Routed, shared, arpv, histv
  <2> QED
    BY <2>2, <2>3
<1>6. CASE NewRequest
  <2>1. Routed(cur) /\ cur \in Frame
    BY <1>6, BoundsAssumption DEF NewRequest, pending_req_add, send_arp_request, ControlOK, Busy, Routed, TypeOK, Frame
  <2>2. NextHop(cur) \in IP
    BY <2>1, NextHopType
  <2> DEFINE new == [ip |-> NextHop(cur), times_sent |-> 1, frames |-> <<cur>>]
  <2>3. PICK r \in ReqId : /\ req' = [req EXCEPT ![r] = new]
                           /\ pending' = Append(pending, r)
    BY <1>6 DEF NewRequest, pending_req_add, send_arp_request
  <2>4. new \in Request
    BY <2>1, <2>2, RequestType
  <2>5. pending' \in Seq(ReqId) /\ req' \in [ReqId -> Request]
    BY <2>3, <2>4 DEF TypeOK
  <2>6. asked' \in [IP -> Nat]
    BY <1>6, <2>2 DEF NewRequest, pending_req_add, send_arp_request, TypeOK
  <2>7. TypeOK'
    BY <1>6, <2>5, <2>6 DEF NewRequest, pending_req_add, send_arp_request, TypeOK, arpv, Point
  <2>8. \A i \in DOMAIN new.frames : Routed(new.frames[i])
    BY <2>1
  <2>9. \A q \in ReqId : \A i \in DOMAIN req'[q].frames : Routed(req'[q].frames[i])
    BY <2>3, <2>8 DEF ControlOK, TypeOK
  <2>10. ControlOK'
    BY <1>6, <2>9 DEF NewRequest, pending_req_add, send_arp_request, ControlOK, Busy, Routed, arpv
  <2> QED
    BY <2>7, <2>10
<1>7. CASE AddFrame
  <2>1. preq \in ReqId /\ cur \in Frame /\ Routed(cur)
    BY <1>7, BoundsAssumption DEF AddFrame, ControlOK, Busy, Routed, TypeOK, Frame
  <2>2. req[preq].frames \in Seq(Frame)
    BY <2>1, RequestType DEF TypeOK
  <2>3. add_frame(preq, cur) \in Seq(Frame)
    BY <2>1, <2>2 DEF add_frame
  <2>4. req' = [req EXCEPT ![preq] = [req[preq] EXCEPT !.frames = add_frame(preq, cur)]]
    BY <1>7 DEF AddFrame
  <2>5. req' \in [ReqId -> Request]
    BY <2>1, <2>3, <2>4, RequestType DEF TypeOK
  <2>6. TypeOK'
    BY <1>7, <2>5 DEF AddFrame, TypeOK, arpv, histv, Point
  <2>7. \A i \in DOMAIN add_frame(preq, cur) : Routed(add_frame(preq, cur)[i])
    BY <2>1, <2>2 DEF add_frame, ControlOK
  <2>8. req'[preq].frames = add_frame(preq, cur)
    BY <2>1, <2>4, RequestType DEF TypeOK, Request
  <2>9. \A q \in ReqId : \A i \in DOMAIN req'[q].frames : Routed(req'[q].frames[i])
    BY <2>1, <2>4, <2>7, <2>8 DEF ControlOK, TypeOK
  <2>10. ControlOK'
    BY <1>7, <2>9 DEF AddFrame, ControlOK, Busy, Routed, arpv, histv
  <2> QED
    BY <2>6, <2>10
<1>8. CASE AddFrameFreed
  <2>1. TypeOK'
    BY <1>8, OutcomeMembers DEF AddFrameFreed, TypeOK, shared, arpv, Point
  <2>2. ControlOK'
    BY <1>8 DEF AddFrameFreed, ControlOK, Busy, Routed, shared, arpv
  <2> QED
    BY <2>1, <2>2
<1>9. CASE CacheAdd
  <2>1. reply \in announced /\ reply[1] \in IP /\ reply[2] \in Mac
    BY <1>9 DEF CacheAdd, ControlOK, TypeOK
  <2>2. [ip |-> reply[1], mac |-> reply[2], age |-> 0] \in CacheEntry
    BY <2>1, CacheEntryType, AgeBound
  <2>3. free_slot \subseteq Slot
    BY DEF free_slot, FirstOf
  <2>4. arpcache' \in [Slot -> CacheEntry] /\ valid' \subseteq Slot
    BY <1>9, <2>2, <2>3 DEF CacheAdd, TypeOK
  <2>5. TypeOK'
    BY <1>9, <2>4 DEF CacheAdd, TypeOK, arpv, histv, Point
  <2>6. ControlOK'
    BY <1>9, <2>1 DEF CacheAdd, ControlOK, Busy, Routed, arpv, histv
  <2> QED
    BY <2>5, <2>6
<1>10. CASE Drain
  <2>1. reply \in announced /\ reply[1] \in IP /\ reply[2] \in Mac
    BY <1>10 DEF Drain, ControlOK, TypeOK
  <2>2. CASE UNCHANGED <<pending, req, fate>>
    <3>1. TypeOK'
      BY <1>10, <2>2 DEF Drain, TypeOK, arpv, Point
    <3>2. ControlOK'
      BY <1>10, <2>2 DEF Drain, ControlOK, Busy, Routed, arpv
    <3> QED
      BY <3>1, <3>2
  <2>3. ASSUME NEW i \in DOMAIN pending,
               fate' = [d \in Frame |->
                 IF d \in withheld_frames(pending[i])
                 THEN forward_ip_datagram(d, reply[2]) ELSE fate[d]],
               pending' = RemoveAt(pending, i),
               req' = [req EXCEPT ![pending[i]] = Freed]
        PROVE  TypeInv'
    <3>1. pending[i] \in ReqId /\ pending' \in Seq(ReqId)
      BY <2>3, RemoveAtType DEF TypeOK
    <3>2. \A d \in withheld_frames(pending[i]) : hdr[d] \in Header
      BY <3>1 DEF withheld_frames, ToSet, ControlOK, Routed
    <3>3. \A d \in withheld_frames(pending[i]) : forward_ip_datagram(d, reply[2]) \in Outcome
      BY <2>1, <3>2, OutcomeType
    <3>4. fate' \in [Frame -> Outcome]
      BY <2>3, <3>3 DEF TypeOK
    <3>5. req' \in [ReqId -> Request]
      BY <2>3, <3>1, RequestType DEF TypeOK
    <3>6. TypeOK'
      BY <1>10, <3>1, <3>4, <3>5 DEF Drain, TypeOK, arpv, Point
    <3>7. \A q \in ReqId : \A k \in DOMAIN req'[q].frames : Routed(req'[q].frames[k])
      BY <2>3, <3>1 DEF ControlOK, TypeOK, Freed
    <3>8. ControlOK'
      BY <1>10, <3>7 DEF Drain, ControlOK, Busy, Routed, arpv
    <3> QED
      BY <3>6, <3>8
  <2> QED
    BY <1>10, <2>2, <2>3 DEF Drain, pending_req_lookup, FirstOf
<1>11. CASE ArpLock
  <2>1. TypeOK'
    BY <1>11 DEF ArpLock, TypeOK, mainv, histv
  <2>2. ControlOK'
    BY <1>11 DEF ArpLock, ControlOK, Busy, Routed, mainv, histv
  <2> QED
    BY <2>1, <2>2
<1>12. CASE ArpResend
  <2> DEFINE r == pending[arp_elt]
  <2>1. r \in ReqId
    BY <1>12 DEF ArpResend, send_arp_request, TypeOK
  <2>2. /\ ~(req[r].times_sent >= MAX_TIMES_SENT)
        /\ req' = [req EXCEPT ![r] = [req[r] EXCEPT !.times_sent = req[r].times_sent + 1]]
        /\ asked' = [asked EXCEPT ![req[r].ip] = asked[req[r].ip] + 1]
    BY <1>12 DEF ArpResend, send_arp_request, sent_enough
  <2>3. req[r] \in Request
    BY <2>1 DEF TypeOK
  <2>4. req[r].ip \in IP /\ req[r].times_sent \in 0..MAX_TIMES_SENT
    BY <2>3, RequestType
  <2>5. req[r].times_sent + 1 \in 0..MAX_TIMES_SENT
    BY <2>2, <2>4, BoundsAssumption
  <2>6. req' \in [ReqId -> Request]
    BY <2>1, <2>2, <2>3, <2>5, RequestType DEF TypeOK
  <2>7. asked' \in [IP -> Nat]
    BY <2>2, <2>4 DEF TypeOK
  <2>8. arp_elt' \in Nat \ {0}
    BY <1>12 DEF ArpResend, send_arp_request, TypeOK
  <2>9. TypeOK'
    BY <1>12, <2>6, <2>7, <2>8 DEF ArpResend, send_arp_request, TypeOK, mainv
  <2>10. \A q \in ReqId : req'[q].frames = req[q].frames
    BY <2>1, <2>2, <2>3 DEF TypeOK, Request
  <2>11. ControlOK'
    BY <1>12, <2>10 DEF ArpResend, send_arp_request, ControlOK, Busy, Routed, mainv
  <2> QED
    BY <2>9, <2>11
<1>13. CASE ArpGiveUp
  <2> DEFINE r == pending[arp_elt]
  <2>1. r \in ReqId /\ pending' \in Seq(ReqId)
    BY <1>13, RemoveAtType DEF ArpGiveUp, TypeOK
  <2>2. fate' \in [Frame -> Outcome]
    BY <1>13, OutcomeMembers DEF ArpGiveUp, TypeOK
  <2>3. req' = [req EXCEPT ![r] = Freed]
    BY <1>13 DEF ArpGiveUp
  <2>4. req' \in [ReqId -> Request]
    BY <2>1, <2>3, RequestType DEF TypeOK
  <2>5. TypeOK'
    BY <1>13, <2>1, <2>2, <2>4 DEF ArpGiveUp, TypeOK, mainv, arpv
  <2>6. \A q \in ReqId : \A k \in DOMAIN req'[q].frames : Routed(req'[q].frames[k])
    BY <2>1, <2>3 DEF ControlOK, TypeOK, Freed
  <2>7. ControlOK'
    BY <1>13, <2>6 DEF ArpGiveUp, ControlOK, Busy, Routed, mainv, arpv
  <2> QED
    BY <2>5, <2>7
<1>14. CASE ArpUnlock
  <2>1. TypeOK'
    BY <1>14 DEF ArpUnlock, TypeOK, mainv, histv
  <2>2. ControlOK'
    BY <1>14 DEF ArpUnlock, ControlOK, Busy, Routed, mainv, histv
  <2> QED
    BY <2>1, <2>2
<1>15. CASE Tick
  <2>1. \A s \in Slot : arpcache[s].age \in 0..AGE_MAX
    BY CacheEntryType DEF TypeOK
  <2>2. \A s \in Slot : (IF arpcache[s].age < AGE_MAX THEN arpcache[s].age + 1
                         ELSE AGE_MAX) \in 0..AGE_MAX
    BY <2>1, AgeBound
  <2>3. arpcache' \in [Slot -> CacheEntry]
    BY <1>15, <2>2, CacheEntryType DEF Tick, TypeOK
  <2>4. TypeOK'
    BY <1>15, <2>3 DEF Tick, TypeOK, mainv, histv
  <2>5. ControlOK'
    BY <1>15 DEF Tick, ControlOK, Busy, Routed, mainv, histv
  <2> QED
    BY <2>4, <2>5
<1>16. CASE UNCHANGED vars
  <2>1. TypeOK'
    BY <1>16 DEF vars, shared, mainv, arpv, histv, TypeOK
  <2>2. ControlOK'
    BY <1>16 DEF vars, shared, mainv, arpv, histv, ControlOK, Busy, Routed
  <2> QED
    BY <2>1, <2>2
<1> QED
  BY <1>1, <1>2, <1>3, <1>4, <1>5, <1>6, <1>7, <1>8, <1>9, <1>10, <1>11, <1>12,
     <1>13, <1>14, <1>15, <1>16 DEF Next, MainStep, ArpStep, Stopped

(* Every variable always has its declared shape: in particular a counter   *)
(* of requests sent never passes MAX_TIMES_SENT and the time to live of    *)
(* whatever is forwarded is a byte.                                        *)
THEOREM TypeCorrect == Spec => []TypeOK
<1>1. Spec => []TypeInv
  BY TypeInit, TypeStep, PTL DEF Spec
<1>2. TypeInv => TypeOK
  BY DEF TypeInv
<1> QED
  BY <1>1, <1>2, PTL

-----------------------------------------------------------------------------
(* The inductive invariant.  None of the four properties is inductive: at  *)
(* "new_request" UniquePending needs what PendingLookup found, at "drain"  *)
(* ForwardMac needs that a queue holds datagrams for its own address, and  *)
(* CachedXorPending needs UniquePending to know one removal is enough.     *)
SafeInv ==
  /\ UniquePending /\ CachedXorPending /\ ForwardMac /\ Conservation
  /\ KnownMacs /\ QueuesMatch /\ LookupsHold

(* A non-empty set of naturals has a first element, so a lookup that finds *)
(* nothing means that nothing matches.                                     *)
LEMMA FirstExists ==
  ASSUME NEW T, T \subseteq Nat, T # {}
  PROVE  FirstOf(T) # {}
<1> DEFINE Less == {p \in Nat \X Nat : p[1] < p[2]}
<1>1. OpToRel(<, Nat) = Less
  BY DEF OpToRel
<1>2. IsWellFoundedOn(Less, Nat)
  BY <1>1, NatLessThanWellFounded
<1> HIDE DEF Less
<1>3. PICK x \in T : \A y \in T : ~(<<y, x>> \in Less)
  BY <1>2, WFMin
<1>4. ASSUME NEW y \in T
      PROVE  x <= y
  <2>1. x \in Nat /\ y \in Nat
    OBVIOUS
  <2>2. y < x => <<y, x>> \in Less
    BY <2>1 DEF Less
  <2> QED
    BY <1>3, <2>1, <2>2
<1> QED
  BY <1>4 DEF FirstOf

(* Unlinking position i of the pending list.                               *)
LEMMA Unlink ==
  ASSUME TypeOK, UniquePending, NEW i \in DOMAIN pending,
         pending' = RemoveAt(pending, i)
  PROVE  /\ live' = live \ {pending[i]}
         /\ \A j \in DOMAIN pending' : \E k \in DOMAIN pending :
              k # i /\ k = (IF j < i THEN j ELSE j + 1) /\ pending'[j] = pending[k]
<1>1. pending \in Seq(ReqId) /\ Len(pending) \in Nat /\ DOMAIN pending = 1..Len(pending)
  BY DEF TypeOK
<1>2. /\ pending' \in Seq(ReqId) /\ Len(pending') = Len(pending) - 1
      /\ \A j \in 1..(Len(pending) - 1) :
           pending'[j] = IF j < i THEN pending[j] ELSE pending[j + 1]
  BY <1>1, RemoveAtType
<1>3. DOMAIN pending' = 1..(Len(pending) - 1)
  BY <1>2
<1>4. ASSUME NEW j \in DOMAIN pending'
      PROVE  \E k \in DOMAIN pending :
               k # i /\ k = (IF j < i THEN j ELSE j + 1) /\ pending'[j] = pending[k]
  BY <1>1, <1>2, <1>3
<1>5. ASSUME NEW r \in live', r = pending[i]
      PROVE  FALSE
  <2>1. PICK j \in DOMAIN pending' : r = pending'[j]
    BY <1>5 DEF live, ToSet
  <2>2. PICK k \in DOMAIN pending : k # i /\ pending'[j] = pending[k]
    BY <1>4
  <2> QED
    BY <1>5, <2>1, <2>2 DEF UniquePending
<1>6. live' \subseteq live
  BY <1>4 DEF live, ToSet
<1>7. ASSUME NEW r \in live, r # pending[i]
      PROVE  r \in live'
  <2>1. PICK k \in DOMAIN pending : r = pending[k]
    BY DEF live, ToSet
  <2>2. k < i \/ k > i
    BY <1>1, <1>7, <2>1
  <2>3. CASE k < i
    <3>1. k \in DOMAIN pending' /\ pending'[k] = pending[k]
      BY <1>1, <1>2, <1>3, <2>3
    <3> QED
      BY <2>1, <3>1 DEF live, ToSet
  <2>4. CASE k > i
    <3>1. k - 1 \in DOMAIN pending' /\ pending'[k - 1] = pending[k]
      BY <1>1, <1>2, <1>3, <2>4
    <3> QED
      BY <2>1, <3>1 DEF live, ToSet
  <2> QED
    BY <2>2, <2>3, <2>4
<1> QED
  BY <1>4, <1>5, <1>6, <1>7

(* The safety invariant holds before the first frame.                      *)
LEMMA SafeInit == Init => SafeInv
<1> SUFFICES ASSUME Init PROVE SafeInv
  OBVIOUS
<1>1. live = {} /\ valid = {} /\ pc = "recv" /\ cur = 0 /\ received = 0 /\ pending = <<>>
  BY DEF Init, live, ToSet
<1>2. \A d \in Frame : fate[d] = Nothing /\ fate[d].kind # "forwarded" /\ ~(d <= 0) /\ d # 0
  BY BoundsAssumption DEF Init, Frame, Nothing, Answer
<1>3. UniquePending /\ CachedXorPending /\ KnownMacs /\ QueuesMatch /\ LookupsHold
  BY <1>1 DEF UniquePending, CachedXorPending, KnownMacs, QueuesMatch, LookupsHold
<1>4. ForwardMac /\ Conservation
  BY <1>1, <1>2 DEF ForwardMac, Conservation, Withheld, Answered
<1> QED
  BY <1>3, <1>4 DEF SafeInv

(* The answers sent before the tables are consulted forward nothing.       *)
LEMMA FirstAnswerKind ==
  ASSUME NEW h \in Header
  PROVE  first_answer(h).kind # "forwarded"
<1>1. h.proto \in Proto
  BY AddressAssumption DEF HeaderType
<1>2. LocalAnswer(h).kind # "forwarded"
  BY <1>1 DEF LocalAnswer, Proto, Answer
<1> QED
  BY <1>2 DEF first_answer, Answer, Nothing

(* What is on the pending list is a request, and holds datagrams.          *)
LEMMA LiveRequests ==
  ASSUME TypeOK, NEW r \in live
  PROVE  /\ r \in ReqId /\ req[r] \in Request /\ req[r].ip \in IP
         /\ req[r].frames \in Seq(Frame)
         /\ withheld_frames(r) \subseteq Frame
         /\ \E i \in DOMAIN pending : r = pending[i]
<1>1. r \in ReqId /\ req[r] \in Request /\ \E i \in DOMAIN pending : r = pending[i]
  BY DEF live, ToSet, TypeOK
<1>2. req[r].frames \in Seq(Frame) /\ req[r].ip \in IP
  BY <1>1, RequestType
<1>3. \A i \in DOMAIN req[r].frames : req[r].frames[i] \in Frame
  BY <1>2
<1> QED
  BY <1>1, <1>2, <1>3 DEF withheld_frames, ToSet

(* A datagram arrives.                                                     *)
LEMMA SafeStepRecvDatagram ==
  ASSUME TypeInv, SafeInv, RecvDatagram
  PROVE  SafeInv'
<1>0. PICK d : d = received + 1
  OBVIOUS
<1>1. PICK h \in Header :
        /\ received' = d /\ hdr' = [hdr EXCEPT ![d] = h]
        /\ fate' = [fate EXCEPT ![d] = first_answer(h)]
        /\ \/ first_answer(h) # Nothing /\ UNCHANGED <<pc, cur>>
           \/ first_answer(h) = Nothing /\ pc' = "cache_lookup" /\ cur' = d
  BY <1>0 DEF RecvDatagram
<1>2. /\ UNCHANGED <<arpcache, valid, pending, req, entry, preq, reply, asked, announced>>
      /\ pc = "recv" /\ received \in Nat /\ d \in Frame /\ d > received
  BY <1>0, BoundsAssumption DEF RecvDatagram, shared, TypeInv, TypeOK, Frame
<1>3. live' = live /\ pc' \in {"recv", "cache_lookup"} /\ cur = 0
  BY <1>1, <1>2 DEF live, TypeInv, ControlOK, Busy
<1>4. \A e \in Frame : e # d => hdr'[e] = hdr[e] /\ fate'[e] = fate[e]
  BY <1>1, <1>2 DEF TypeInv, TypeOK
<1>5. \A e \in Frame : e # d => NextHop(e)' = NextHop(e)
  BY <1>4 DEF NextHop
<1>6. fate'[d] = first_answer(h)
  BY <1>1, <1>2 DEF TypeInv, TypeOK
<1>7. \A e : Withheld(e)' <=> Withheld(e)
  BY <1>2, <1>3 DEF Withheld, ToSet
<1>8. \A e \in Frame : e # d => (Answered(e)' <=> Answered(e))
  BY <1>4 DEF Answered
<1>9. ~Withheld(d) /\ ~Answered(d) /\ (Answered(d)' <=> first_answer(h) # Nothing)
  BY <1>2, <1>6 DEF SafeInv, Conservation, Answered, TypeInv, TypeOK, Frame
<1>10. UniquePending' /\ CachedXorPending'
  BY <1>2, <1>3 DEF SafeInv, UniquePending, CachedXorPending
<1>11. ForwardMac'
  BY <1>2, <1>4, <1>5, <1>6, FirstAnswerKind DEF SafeInv, ForwardMac
<1>12. Conservation'
  <2>1. ASSUME NEW e \in Frame
        PROVE  /\ e <= received' <=> (cur' = e \/ Withheld(e)' \/ Answered(e)')
               /\ ~(cur' = e /\ Withheld(e)')
               /\ ~(cur' = e /\ Answered(e)')
               /\ ~(Withheld(e)' /\ Answered(e)')
    <3>1. CASE e = d
      BY <1>1, <1>2, <1>3, <1>7, <1>9, <3>1, BoundsAssumption DEF Frame
    <3>2. CASE e # d
      <4>1. e <= received' <=> e <= received
        BY <1>0, <1>1, <1>2, <3>2, BoundsAssumption DEF Frame
      <4>2. cur' = e <=> cur = e
        BY <1>1, <1>2, <1>3, <3>2, BoundsAssumption DEF Frame
      <4> QED
        BY <1>7, <1>8, <3>2, <4>1, <4>2 DEF SafeInv, Conservation
    <3> QED
      BY <3>1, <3>2
  <2> QED
    BY <1>2, <1>3, <2>1 DEF SafeInv, Conservation
<1>13. KnownMacs' /\ LookupsHold'
  BY <1>2, <1>3 DEF SafeInv, KnownMacs, LookupsHold
<1>14. QueuesMatch'
  <2>1. \A r \in live : \A e \in withheld_frames(r) : e \in Frame /\ e # d
    BY <1>9, LiveRequests DEF Withheld, withheld_frames, TypeInv
  <2>2. \A r : withheld_frames(r)' = withheld_frames(r)
    BY <1>2 DEF withheld_frames
  <2> QED
    BY <1>2, <1>3, <1>5, <2>1, <2>2 DEF SafeInv, QueuesMatch
<1> QED
  BY <1>10, <1>11, <1>12, <1>13, <1>14 DEF SafeInv

(* A step that changes neither the pending requests, nor the datagrams,    *)
(* nor the answers; ARP replies may have been received.                    *)
LEMMA SafeQuiet ==
  ASSUME SafeInv, UNCHANGED <<pending, req, cur, received, hdr, fate, asked>>,
         announced \subseteq announced'
  PROVE  /\ live' = live /\ \A d : NextHop(d)' = NextHop(d)
         /\ UniquePending' /\ ForwardMac' /\ Conservation' /\ QueuesMatch'
<1>1. live' = live /\ \A d : NextHop(d)' = NextHop(d)
  BY DEF live, NextHop
<1>2. UniquePending'
  BY DEF SafeInv, UniquePending
<1>3. ForwardMac'
  BY <1>1 DEF SafeInv, ForwardMac
<1>4. \A d : (Withheld(d)' <=> Withheld(d)) /\ (Answered(d)' <=> Answered(d))
  BY <1>1 DEF Withheld, Answered
<1>5. Conservation'
  BY <1>1, <1>4 DEF SafeInv, Conservation
<1>6. \A r : withheld_frames(r)' = withheld_frames(r)
  BY DEF withheld_frames
<1>7. QueuesMatch'
  BY <1>1, <1>6 DEF SafeInv, QueuesMatch
<1> QED
  BY <1>1, <1>2, <1>3, <1>5, <1>7

(* The lookups, the start of an ARP reply, the clock, the ARP thread's     *)
(* purge and unlock, and stuttering.                                       *)
LEMMA SafeStepQuiet ==
  ASSUME TypeInv, SafeInv,
         \/ RecvArpReply \/ CacheLookup \/ PendingLookup \/ CacheAdd
         \/ ArpLock \/ ArpUnlock \/ Tick \/ UNCHANGED vars
  PROVE  SafeInv'
<1>1. /\ UNCHANGED <<pending, req, cur, received, hdr, fate, asked>>
      /\ announced \subseteq announced'
  BY DEF RecvArpReply, CacheLookup, PendingLookup, CacheAdd, ArpLock, ArpUnlock,
         Tick, vars, shared, mainv, arpv, histv
<1>2. /\ live' = live /\ \A d : NextHop(d)' = NextHop(d)
      /\ UniquePending' /\ ForwardMac' /\ Conservation' /\ QueuesMatch'
  BY <1>1, SafeQuiet
<1>3. NextHop(cur)' = NextHop(cur)
  BY <1>1 DEF NextHop
<1> SUFFICES CachedXorPending' /\ KnownMacs' /\ LookupsHold'
  BY <1>2 DEF SafeInv
<1> USE DEF SafeInv
<1>4. CASE RecvArpReply
  <2>1. pc = "recv" /\ pc' = "cache_add" /\ UNCHANGED <<arpcache, valid>>
    BY <1>4 DEF RecvArpReply, shared
  <2> QED
    BY <1>1, <1>2, <2>1 DEF CachedXorPending, KnownMacs, LookupsHold
<1>5. CASE CacheLookup
  <2>1. /\ pc = "cache_lookup" /\ UNCHANGED <<arpcache, valid, reply, announced>>
        /\ \/ arp_cache_lookup(NextHop(cur)) = {} /\ pc' = "pending_lookup"
           \/ entry' \in arp_cache_lookup(NextHop(cur)) /\ pc' = "forward"
    BY <1>5 DEF CacheLookup, shared, histv
  <2>2. \A s \in arp_cache_lookup(NextHop(cur)) : s \in valid /\ arpcache[s].ip = NextHop(cur)
    BY DEF arp_cache_lookup, FirstOf
  <2>3. arp_cache_lookup(NextHop(cur)) = {} => \A s \in valid : arpcache[s].ip # NextHop(cur)
    <3>1. valid \subseteq Nat
      BY BoundsAssumption DEF TypeInv, TypeOK, Slot
    <3>2. {s \in valid : arpcache[s].ip = NextHop(cur)} \subseteq Nat
      BY <3>1
    <3> QED
      BY <3>2, FirstExists DEF arp_cache_lookup
  <2>4. CachedXorPending'
    BY <1>1, <1>2, <2>1 DEF CachedXorPending
  <2>5. KnownMacs'
    BY <1>3, <2>1, <2>2 DEF KnownMacs
  <2>6. LookupsHold'
    BY <1>3, <2>1, <2>3 DEF LookupsHold
  <2> QED
    BY <2>4, <2>5, <2>6
<1>6. CASE PendingLookup
  <2> DEFINE hit == pending_req_lookup(NextHop(cur))
  <2>1. /\ pc = "pending_lookup" /\ UNCHANGED <<arpcache, valid, reply, announced>>
        /\ \/ hit = {} /\ pc' = "new_request"
           \/ pc' = "add_frame" /\ \E i \in hit : preq' = pending[i]
    BY <1>6 DEF PendingLookup, shared, histv
  <2>2. \A i \in hit : req[pending[i]].ip = NextHop(cur)
    BY DEF pending_req_lookup, FirstOf
  <2>3. hit = {} => \A r \in live : req[r].ip # NextHop(cur)
    <3>1. DOMAIN pending \subseteq Nat
      BY DEF TypeInv, TypeOK
    <3> QED
      BY <3>1, FirstExists, LiveRequests DEF pending_req_lookup, TypeInv
  <2>4. CachedXorPending' /\ KnownMacs'
    BY <1>1, <1>2, <2>1 DEF CachedXorPending, KnownMacs
  <2>5. LookupsHold'
    BY <1>1, <1>2, <1>3, <2>1, <2>2, <2>3 DEF LookupsHold
  <2> QED
    BY <2>4, <2>5
<1>7. CASE CacheAdd
  <2>1. pc = "cache_add" /\ UNCHANGED <<reply, announced>>
    BY <1>7 DEF CacheAdd, histv
  <2>2. reply \in announced /\ reply = <<reply[1], reply[2]>>
    BY <2>1 DEF TypeInv, ControlOK, TypeOK
  <2>3. CASE pc' = "exited" /\ UNCHANGED <<arpcache, valid>>
    BY <1>1, <1>2, <2>1, <2>3 DEF CachedXorPending, KnownMacs, LookupsHold
  <2>4. ASSUME NEW s \in Slot, pc' = "drain", valid' = valid \cup {s},
               arpcache' = [arpcache EXCEPT ![s] =
                 [ip |-> reply[1], mac |-> reply[2], age |-> 0]]
        PROVE  CachedXorPending' /\ KnownMacs' /\ LookupsHold'
    <3>1. /\ arpcache'[s].ip = reply[1] /\ arpcache'[s].mac = reply[2]
          /\ \A t \in valid : t # s => arpcache'[t] = arpcache[t]
      BY <2>4 DEF TypeInv, TypeOK
    <3>2. CachedXorPending'
      BY <1>1, <1>2, <2>1, <2>4, <3>1 DEF CachedXorPending
    <3>3. KnownMacs' /\ LookupsHold'
      BY <2>1, <2>2, <2>4, <3>1 DEF KnownMacs, LookupsHold
    <3> QED
      BY <3>2, <3>3
  <2> QED
    BY <1>7, <2>3, <2>4 DEF CacheAdd, free_slot, FirstOf
<1>8. CASE ArpLock
  <2>1. valid' \subseteq valid /\ UNCHANGED <<arpcache, announced, pc, reply, preq, entry>>
    BY <1>8 DEF ArpLock, mainv, histv
  <2> QED
    BY <1>1, <1>2, <1>3, <2>1 DEF CachedXorPending, KnownMacs, LookupsHold
<1>9. CASE ArpUnlock \/ UNCHANGED vars
  <2>1. UNCHANGED <<arpcache, valid, announced, pc, reply, preq, entry>>
    BY <1>9 DEF ArpUnlock, mainv, histv, vars, shared
  <2> QED
    BY <1>1, <1>2, <1>3, <2>1 DEF CachedXorPending, KnownMacs, LookupsHold
<1>10. CASE Tick
  <2>1. UNCHANGED <<valid, announced, pc, reply, preq, entry>>
    BY <1>10 DEF Tick, mainv, histv
  <2>2. \A s \in Slot : arpcache'[s].ip = arpcache[s].ip /\ arpcache'[s].mac = arpcache[s].mac
    BY <1>10 DEF Tick, TypeInv, TypeOK, CacheEntry
  <2>3. valid \subseteq Slot /\ (pc = "forward" => entry \in Slot)
    BY DEF TypeInv, TypeOK, ControlOK
  <2> QED
    BY <1>1, <1>2, <1>3, <2>1, <2>2, <2>3 DEF CachedXorPending, KnownMacs, LookupsHold
<1> QED
  BY <1>4, <1>5, <1>6, <1>7, <1>8, <1>9, <1>10

(* A cache hit is answered.                                                *)
LEMMA SafeStepForward ==
  ASSUME TypeInv, SafeInv, Forward
  PROVE  SafeInv'
<1> USE DEF SafeInv
<1>1. /\ UNCHANGED <<pending, req, received, hdr, asked, announced, arpcache, valid, reply>>
      /\ pc = "forward" /\ pc' = "recv" /\ cur' = 0 /\ cur \in Frame
      /\ hdr[cur] \in Header /\ entry \in Slot
  BY BoundsAssumption DEF Forward, shared, TypeInv, TypeOK, ControlOK, Busy, Routed, Frame
<1>2. live' = live /\ \A d : NextHop(d)' = NextHop(d) /\ (Withheld(d)' <=> Withheld(d))
  BY <1>1 DEF live, NextHop, Withheld
<1>3. arpcache[entry].mac \in Mac
  BY <1>1, CacheEntryType DEF TypeInv, TypeOK
<1>4. /\ fate'[cur] = forward_ip_datagram(cur, arpcache[entry].mac)
      /\ \A d \in Frame : d # cur => fate'[d] = fate[d]
  BY <1>1 DEF Forward, TypeInv, TypeOK
<1>5. fate'[cur] # Nothing /\ (fate'[cur].kind = "forwarded"
                                 => fate'[cur].mac = arpcache[entry].mac)
  BY <1>1, <1>3, <1>4, OutcomeType
<1>6. ForwardMac'
  <2>1. ASSUME NEW d \in Frame, fate'[d].kind = "forwarded"
        PROVE  <<NextHop(d)', fate'[d].mac>> \in announced'
    <3>1. CASE d = cur
      BY <1>1, <1>2, <1>5, <2>1, <3>1 DEF KnownMacs
    <3>2. CASE d # cur
      BY <1>1, <1>2, <1>4, <2>1, <3>2 DEF ForwardMac
    <3> QED
      BY <3>1, <3>2
  <2> QED
    BY <2>1 DEF ForwardMac
<1>7. Conservation'
  <2>1. \A d \in Frame : d # cur => (Answered(d)' <=> Answered(d))
    BY <1>4 DEF Answered
  <2>2. \A d \in Frame : d # 0
    BY BoundsAssumption DEF Frame
  <2>3. ASSUME NEW e \in Frame
        PROVE  /\ e <= received' <=> (cur' = e \/ Withheld(e)' \/ Answered(e)')
               /\ ~(cur' = e /\ Withheld(e)')
               /\ ~(cur' = e /\ Answered(e)')
               /\ ~(Withheld(e)' /\ Answered(e)')
    <3>1. CASE e = cur
      <4>1. Answered(e)'
        BY <1>5, <3>1 DEF Answered
      <4> QED
        BY <1>1, <1>2, <2>2, <3>1, <4>1 DEF Conservation
    <3>2. CASE e # cur
      BY <1>1, <1>2, <2>1, <2>2, <3>2 DEF Conservation
    <3> QED
      BY <3>1, <3>2
  <2> QED
    BY <1>1, <1>2, <2>3 DEF Conservation
<1>8. UniquePending' /\ CachedXorPending' /\ KnownMacs' /\ LookupsHold'
  BY <1>1, <1>2 DEF UniquePending, CachedXorPending, KnownMacs, LookupsHold
<1>9. QueuesMatch'
  BY <1>1, <1>2 DEF QueuesMatch, withheld_frames
<1> QED
  BY <1>6, <1>7, <1>8, <1>9

(* The first datagram for an unresolved address.                           *)
LEMMA SafeStepNewRequest ==
  ASSUME TypeInv, SafeInv, NewRequest
  PROVE  SafeInv'
<1> USE DEF SafeInv
<1>1. /\ UNCHANGED <<received, hdr, fate, announced, arpcache, valid, reply>>
      /\ pc = "new_request" /\ pc' = "recv" /\ cur' = 0 /\ cur \in Frame /\ Routed(cur)
      /\ asked' = [asked EXCEPT ![NextHop(cur)] = 1]
  BY BoundsAssumption DEF NewRequest, pending_req_add, send_arp_request, TypeInv, TypeOK, ControlOK, Busy, Routed, Frame
<1>2. NextHop(cur) \in IP
  BY <1>1, NextHopType
<1>3. PICK r \in ReqId \ live :
        /\ req' = [req EXCEPT ![r] = [ip |-> NextHop(cur), times_sent |-> 1,
                                      frames |-> <<cur>>]]
        /\ pending' = Append(pending, r)
  BY DEF NewRequest, pending_req_add, send_arp_request
<1>4. /\ pending \in Seq(ReqId) /\ Len(pending) \in Nat
      /\ DOMAIN pending = 1..Len(pending) /\ DOMAIN pending' = 1..(Len(pending) + 1)
      /\ pending'[Len(pending) + 1] = r
      /\ \A i \in DOMAIN pending : pending'[i] = pending[i]
  BY <1>3 DEF TypeInv, TypeOK
<1>5. live' = live \cup {r}
  BY <1>4 DEF live, ToSet
<1>6. /\ req'[r].ip = NextHop(cur) /\ req'[r].times_sent = 1 /\ req'[r].frames = <<cur>>
      /\ \A q \in live : q \in ReqId /\ q # r /\ req'[q] = req[q]
  BY <1>3, LiveRequests DEF TypeInv, TypeOK
<1>7. \A q \in live : req[q].ip # NextHop(cur)
  BY <1>1 DEF LookupsHold
<1>8. \A d : NextHop(d)' = NextHop(d) /\ (Answered(d)' <=> Answered(d))
  BY <1>1 DEF NextHop, Answered
<1>9. UniquePending'
  <2>1. \A i \in DOMAIN pending : pending[i] \in live
    BY DEF live, ToSet
  <2>2. \A i \in DOMAIN pending :
          /\ req'[pending'[i]].ip = req[pending[i]].ip
          /\ req'[pending'[i]].ip # NextHop(cur)
    BY <1>4, <1>6, <1>7, <2>1
  <2>3. \A i \in DOMAIN pending' : i \in DOMAIN pending \/ i = Len(pending) + 1
    BY <1>4
  <2>4. req'[pending'[Len(pending) + 1]].ip = NextHop(cur)
    BY <1>4, <1>6
  <2> QED
    BY <2>2, <2>3, <2>4 DEF UniquePending
<1>10. CachedXorPending'
  <2>1. \A s \in valid : arpcache[s].ip # NextHop(cur)
    BY <1>1 DEF LookupsHold
  <2> QED
    BY <1>1, <1>5, <1>6, <2>1 DEF CachedXorPending
<1>11. ForwardMac' /\ KnownMacs' /\ LookupsHold'
  BY <1>1, <1>8 DEF ForwardMac, KnownMacs, LookupsHold
<1>12. Conservation'
  <2>1. \A d : Withheld(d)' <=> (Withheld(d) \/ d = cur)
    <3>1. \A d : d \in ToSet(req'[r].frames) <=> d = cur
      BY <1>6 DEF ToSet
    <3>2. \A q \in live : req'[q].frames = req[q].frames
      BY <1>6
    <3> QED
      BY <1>5, <3>1, <3>2 DEF Withheld
  <2>2. \A d \in Frame : d # 0
    BY BoundsAssumption DEF Frame
  <2>3. \A q \in live : \A i \in DOMAIN req[q].frames : req[q].frames[i] # cur
    BY <1>1 DEF Conservation, Withheld, ToSet
  <2>4. /\ DOMAIN req'[r].frames = {1} /\ req'[r].frames[1] = cur
        /\ \A q \in live : req'[q].frames = req[q].frames /\ q # r
    BY <1>6
  <2>5. \A q, s \in live' : \A i \in DOMAIN req'[q].frames, j \in DOMAIN req'[s].frames :
          req'[q].frames[i] = req'[s].frames[j] => q = s /\ i = j
    BY <1>5, <2>3, <2>4 DEF Conservation
  <2> QED
    BY <1>1, <1>8, <2>1, <2>2, <2>5 DEF Conservation
<1>13. QueuesMatch'
  <2>1. \A q \in live : req[q].ip \in IP /\ withheld_frames(q)' = withheld_frames(q)
    BY <1>6, LiveRequests DEF withheld_frames, TypeInv
  <2>2. \A q \in live : asked'[req'[q].ip] = asked[req[q].ip]
    BY <1>1, <1>6, <1>7, <2>1 DEF TypeInv, TypeOK
  <2>3. asked'[req'[r].ip] = 1
    BY <1>1, <1>2, <1>6 DEF TypeInv, TypeOK
  <2>4. \A d \in withheld_frames(r)' : d = cur
    BY <1>6 DEF withheld_frames, ToSet
  <2>5. ASSUME NEW q \in live'
        PROVE  /\ \A d \in withheld_frames(q)' : NextHop(d)' = req'[q].ip
               /\ asked'[req'[q].ip] = req'[q].times_sent
    <3>1. CASE q = r
      BY <1>6, <1>8, <2>3, <2>4, <3>1
    <3>2. CASE q \in live
      BY <1>6, <1>8, <2>1, <2>2, <3>2 DEF QueuesMatch
    <3> QED
      BY <1>5, <3>1, <3>2
  <2> QED
    BY <2>5 DEF QueuesMatch
<1> QED
  BY <1>9, <1>10, <1>11, <1>12, <1>13

(* A further datagram for an address being asked for.                      *)
LEMMA SafeStepAddFrame ==
  ASSUME TypeInv, SafeInv, AddFrame
  PROVE  SafeInv'
<1> USE DEF SafeInv
<1>1. /\ UNCHANGED <<pending, received, hdr, fate, asked, announced, arpcache, valid, reply>>
      /\ pc = "add_frame" /\ pc' = "recv" /\ cur' = 0 /\ cur \in Frame
      /\ preq \in live /\ preq \in ReqId
      /\ req' = [req EXCEPT ![preq] = [req[preq] EXCEPT !.frames = Append(req[preq].frames, cur)]]
  BY BoundsAssumption DEF AddFrame, add_frame, TypeInv, TypeOK, ControlOK, Busy, Routed, Frame, histv
<1>2. PICK f \in Seq(Frame) : f = req[preq].frames
  BY <1>1, LiveRequests DEF TypeInv
<1>3. live' = live /\ \A d : NextHop(d)' = NextHop(d) /\ (Answered(d)' <=> Answered(d))
  BY <1>1 DEF live, NextHop, Answered
<1>4. /\ req'[preq].ip = req[preq].ip /\ req'[preq].times_sent = req[preq].times_sent
      /\ req'[preq].frames = Append(f, cur)
      /\ \A q \in ReqId : q # preq => req'[q] = req[q]
  BY <1>1, <1>2, LiveRequests DEF TypeInv, TypeOK, Request
<1>5. \A q \in live : q \in ReqId /\ req'[q].ip = req[q].ip
                      /\ req'[q].times_sent = req[q].times_sent
  BY <1>4, LiveRequests DEF TypeInv
<1>6. UniquePending'
  <2>1. \A i \in DOMAIN pending : pending[i] \in live
    BY DEF live, ToSet
  <2> QED
    BY <1>1, <1>5, <2>1 DEF UniquePending
<1>7. CachedXorPending' /\ ForwardMac' /\ KnownMacs' /\ LookupsHold'
  BY <1>1, <1>3, <1>5 DEF CachedXorPending, ForwardMac, KnownMacs, LookupsHold
<1>8. /\ DOMAIN Append(f, cur) = DOMAIN f \cup {Len(f) + 1}
      /\ Append(f, cur)[Len(f) + 1] = cur /\ Len(f) + 1 \notin DOMAIN f
      /\ \A i \in DOMAIN f : Append(f, cur)[i] = f[i]
  BY <1>1, <1>2
<1>9. ToSet(Append(f, cur)) = ToSet(f) \cup {cur}
  BY <1>8 DEF ToSet
<1>10. Conservation'
  <2>1. \A d : Withheld(d)' <=> (Withheld(d) \/ d = cur)
    BY <1>1, <1>2, <1>3, <1>4, <1>5, <1>9 DEF Withheld
  <2>2. \A d \in Frame : d # 0
    BY BoundsAssumption DEF Frame
  <2>3. \A q \in live : \A i \in DOMAIN req[q].frames : req[q].frames[i] # cur
    BY <1>1 DEF Conservation, Withheld, ToSet
  <2>5. ASSUME NEW q \in live, NEW i \in DOMAIN req'[q].frames
        PROVE  \/ i \in DOMAIN req[q].frames /\ req'[q].frames[i] = req[q].frames[i]
               \/ q = preq /\ i = Len(f) + 1 /\ req'[q].frames[i] = cur
    <3>1. CASE q = preq
      BY <1>2, <1>4, <1>8, <2>5, <3>1
    <3>2. CASE q # preq
      BY <1>4, <1>5, <2>5, <3>2
    <3> QED
      BY <3>1, <3>2
  <2>4. ASSUME NEW q \in live', NEW s \in live',
               NEW i \in DOMAIN req'[q].frames, NEW j \in DOMAIN req'[s].frames,
               req'[q].frames[i] = req'[s].frames[j]
        PROVE  q = s /\ i = j
    BY <1>3, <2>3, <2>5, <2>4 DEF Conservation
  <2> QED
    BY <1>1, <1>3, <2>1, <2>2, <2>4 DEF Conservation
<1>11. QueuesMatch'
  <2>1. ASSUME NEW q \in live
        PROVE  /\ \A d \in withheld_frames(q)' : NextHop(d)' = req'[q].ip
               /\ asked'[req'[q].ip] = req'[q].times_sent
    <3>1. asked'[req'[q].ip] = req'[q].times_sent
      BY <1>1, <1>5 DEF QueuesMatch
    <3>2. CASE q = preq
      <4>1. withheld_frames(q)' = withheld_frames(q) \cup {cur}
        BY <1>2, <1>4, <1>9, <3>2 DEF withheld_frames
      <4>2. req[q].ip = NextHop(cur)
        BY <1>1, <3>2 DEF LookupsHold
      <4> QED
        BY <1>3, <1>5, <3>1, <4>1, <4>2 DEF QueuesMatch
    <3>3. CASE q # preq
      BY <1>3, <1>4, <1>5, <3>1, <3>3 DEF QueuesMatch, withheld_frames
    <3> QED
      BY <3>2, <3>3
  <2> QED
    BY <1>3, <2>1 DEF QueuesMatch
<1> QED
  BY <1>6, <1>7, <1>10, <1>11

(* The request was freed between the lookup and the use.                   *)
LEMMA SafeStepAddFrameFreed ==
  ASSUME TypeInv, SafeInv, AddFrameFreed
  PROVE  SafeInv'
<1> USE DEF SafeInv
<1>1. /\ UNCHANGED <<pending, req, received, hdr, asked, announced, arpcache, valid, reply>>
      /\ pc = "add_frame" /\ pc' \in {"recv", "crashed"} /\ cur \in Frame
  BY BoundsAssumption DEF AddFrameFreed, shared, TypeInv, TypeOK, ControlOK, Busy, Routed, Frame
<1>2. live' = live /\ \A d : NextHop(d)' = NextHop(d) /\ (Withheld(d)' <=> Withheld(d))
  BY <1>1 DEF live, NextHop, Withheld
<1>3. UniquePending' /\ CachedXorPending' /\ KnownMacs' /\ LookupsHold'
  BY <1>1, <1>2 DEF UniquePending, CachedXorPending, KnownMacs, LookupsHold
<1>4. QueuesMatch'
  BY <1>1, <1>2 DEF QueuesMatch, withheld_frames
<1>5. CASE UNCHANGED <<cur, fate>>
  <2>1. \A d : Answered(d)' <=> Answered(d)
    BY <1>5 DEF Answered
  <2>2. ForwardMac' /\ Conservation'
    BY <1>1, <1>2, <1>5, <2>1 DEF ForwardMac, Conservation
  <2> QED
    BY <1>3, <1>4, <2>2
<1>6. CASE fate' = [fate EXCEPT ![cur] = Answer("lost")] /\ cur' = 0
  <2>1. /\ fate'[cur] = Answer("lost") /\ Answer("lost") # Nothing
        /\ \A d \in Frame : d # cur => fate'[d] = fate[d]
    BY <1>1, <1>6, OutcomeMembers DEF TypeInv, TypeOK
  <2>2. ForwardMac'
    <3>1. fate'[cur].kind # "forwarded"
      BY <2>1 DEF Answer
    <3> QED
      BY <1>1, <1>2, <2>1, <3>1 DEF ForwardMac
  <2>3. \A d \in Frame : d # 0
    BY BoundsAssumption DEF Frame
  <2>4. ASSUME NEW e \in Frame
        PROVE  /\ e <= received' <=> (cur' = e \/ Withheld(e)' \/ Answered(e)')
               /\ ~(cur' = e /\ Withheld(e)')
               /\ ~(cur' = e /\ Answered(e)')
               /\ ~(Withheld(e)' /\ Answered(e)')
    <3>1. CASE e = cur
      <4>1. Answered(e)'
        BY <2>1, <3>1 DEF Answered
      <4> QED
        BY <1>1, <1>2, <1>6, <2>3, <3>1, <4>1 DEF Conservation
    <3>2. CASE e # cur
      <4>1. Answered(e)' <=> Answered(e)
        BY <2>1, <3>2 DEF Answered
      <4> QED
        BY <1>1, <1>2, <1>6, <2>3, <3>2, <4>1 DEF Conservation
    <3> QED
      BY <3>1, <3>2
  <2>5. Conservation'
    BY <1>1, <1>2, <2>4 DEF Conservation
  <2> QED
    BY <1>3, <1>4, <2>2, <2>5
<1> QED
  BY <1>5, <1>6 DEF AddFrameFreed

(* The request at position i is answered and freed: out says what is sent  *)
(* in answer to each datagram withheld in it.                              *)
LEMMA SafeSettle ==
  ASSUME TypeInv, SafeInv, NEW i \in DOMAIN pending, NEW out,
         UNCHANGED <<cur, received, hdr, asked, announced>>,
         pending' = RemoveAt(pending, i),
         req' = [req EXCEPT ![pending[i]] = Freed],
         fate' = [d \in Frame |-> IF d \in withheld_frames(pending[i])
                                  THEN out[d] ELSE fate[d]],
         \A d \in withheld_frames(pending[i]) :
           /\ out[d] # Nothing
           /\ out[d].kind = "forwarded" => <<NextHop(d), out[d].mac>> \in announced
  PROVE  /\ live' = live \ {pending[i]} /\ pending[i] \in live
         /\ \A q \in live' : req'[q] = req[q]
         /\ \A d : NextHop(d)' = NextHop(d)
         /\ UniquePending' /\ ForwardMac' /\ Conservation' /\ QueuesMatch'
<1> USE DEF SafeInv
<1> DEFINE r == pending[i]
<1>1. /\ live' = live \ {r} /\ r \in live /\ r \in ReqId
      /\ \A j \in DOMAIN pending' : \E k \in DOMAIN pending :
           k # i /\ k = (IF j < i THEN j ELSE j + 1) /\ pending'[j] = pending[k]
  <2>1. r \in live /\ r \in ReqId
    BY DEF live, ToSet, TypeInv, TypeOK
  <2> QED
    BY <2>1, Unlink DEF TypeInv
<1>2. \A q \in live' : q \in live /\ q \in ReqId /\ q # r /\ req'[q] = req[q]
  BY <1>1, LiveRequests DEF TypeInv, TypeOK
<1>3. \A d : NextHop(d)' = NextHop(d)
  BY DEF NextHop
<1>4. UniquePending'
  <2>1. ASSUME NEW j \in DOMAIN pending', NEW k \in DOMAIN pending',
               req'[pending'[j]].ip = req'[pending'[k]].ip
        PROVE  j = k
    <3>1. PICK a \in DOMAIN pending : a = (IF j < i THEN j ELSE j + 1) /\ pending'[j] = pending[a]
      BY <1>1
    <3>2. PICK b \in DOMAIN pending : b = (IF k < i THEN k ELSE k + 1) /\ pending'[k] = pending[b]
      BY <1>1
    <3>3. pending'[j] \in live' /\ pending'[k] \in live'
      BY DEF live, ToSet
    <3>4. req[pending[a]].ip = req[pending[b]].ip
      BY <1>2, <2>1, <3>1, <3>2, <3>3
    <3>5. a = b
      BY <3>4 DEF UniquePending
    <3>6. i \in Nat /\ j \in Nat /\ k \in Nat
      <4>1. pending \in Seq(ReqId) /\ pending' \in Seq(ReqId)
        BY RemoveAtType DEF TypeInv, TypeOK
      <4> QED
        BY <4>1
    <3> QED
      BY <3>1, <3>2, <3>5, <3>6
  <2> QED
    BY <2>1 DEF UniquePending
<1>5. ForwardMac'
  <2>1. \A d \in Frame : fate'[d] = IF d \in withheld_frames(r) THEN out[d] ELSE fate[d]
    OBVIOUS
  <2> QED
    BY <1>3, <2>1 DEF ForwardMac
<1>6. Conservation'
  <2>1. \A d : Withheld(d) <=> (Withheld(d)' \/ d \in withheld_frames(r))
    <3>1. \A q \in live' : req'[q].frames = req[q].frames
      BY <1>2
    <3> QED
      BY <1>1, <3>1 DEF Withheld, withheld_frames
  <2>2. \A d : ~(Withheld(d)' /\ d \in withheld_frames(r))
    <3> SUFFICES ASSUME NEW d, Withheld(d)', d \in withheld_frames(r) PROVE FALSE
      OBVIOUS
    <3>1. PICK q \in live' : d \in ToSet(req'[q].frames)
      BY DEF Withheld
    <3>2. q \in live /\ q # r /\ d \in ToSet(req[q].frames)
      BY <1>2, <3>1
    <3> QED
      BY <1>1, <3>2 DEF Conservation, ToSet, withheld_frames
  <2>3. \A d \in Frame : Answered(d)' <=> (Answered(d) \/ d \in withheld_frames(r))
    BY DEF Answered
  <2>4. \A q, s \in live' : \A m \in DOMAIN req'[q].frames, n \in DOMAIN req'[s].frames :
          req'[q].frames[m] = req'[s].frames[n] => q = s /\ m = n
    BY <1>2 DEF Conservation
  <2> QED
    BY <2>1, <2>2, <2>3, <2>4 DEF Conservation
<1>7. QueuesMatch'
  <2>1. \A q \in live' : withheld_frames(q)' = withheld_frames(q)
    BY <1>2 DEF withheld_frames
  <2> QED
    BY <1>2, <1>3, <2>1 DEF QueuesMatch
<1> QED
  BY <1>1, <1>2, <1>3, <1>4, <1>5, <1>6, <1>7

(* The second half of the ARP reply handler.                               *)
LEMMA SafeStepDrain ==
  ASSUME TypeInv, SafeInv, Drain
  PROVE  SafeInv'
<1> USE DEF SafeInv
<1> DEFINE hit == pending_req_lookup(reply[1])
<1>1. /\ UNCHANGED <<cur, received, hdr, asked, announced, arpcache, valid>>
      /\ pc = "drain" /\ pc' = "recv"
  BY DEF Drain
<1>2. reply \in announced /\ reply = <<reply[1], reply[2]>> /\ reply[2] \in Mac
  BY <1>1 DEF TypeInv, ControlOK, TypeOK
<1>3. KnownMacs' /\ LookupsHold'
  BY <1>1 DEF KnownMacs, LookupsHold
<1>4. CASE hit = {} /\ UNCHANGED <<pending, req, fate>>
  <2>1. /\ live' = live /\ \A d : NextHop(d)' = NextHop(d)
        /\ UniquePending' /\ ForwardMac' /\ Conservation' /\ QueuesMatch'
    BY <1>1, <1>4, SafeQuiet
  <2>2. \A r \in live : req[r].ip # reply[1]
    <3>1. DOMAIN pending \subseteq Nat
      BY DEF TypeInv, TypeOK
    <3> QED
      BY <1>4, <3>1, FirstExists, LiveRequests DEF pending_req_lookup, TypeInv
  <2>3. CachedXorPending'
    BY <1>1, <1>4, <2>1, <2>2 DEF CachedXorPending
  <2> QED
    BY <1>3, <2>1, <2>3
<1>5. ASSUME NEW i \in hit,
             fate' = [d \in Frame |->
               IF d \in withheld_frames(pending[i])
               THEN forward_ip_datagram(d, reply[2]) ELSE fate[d]],
             pending' = RemoveAt(pending, i),
             req' = [req EXCEPT ![pending[i]] = Freed]
      PROVE  SafeInv'
  <2>0. PICK out : out = [d \in Frame |-> forward_ip_datagram(d, reply[2])]
    OBVIOUS
  <2>1. i \in DOMAIN pending /\ req[pending[i]].ip = reply[1]
    BY DEF pending_req_lookup, FirstOf
  <2>2. pending[i] \in live
    BY <2>1 DEF live, ToSet
  <2>3. withheld_frames(pending[i]) \subseteq Frame
    BY <2>2, LiveRequests DEF TypeInv
  <2>4. \A d \in withheld_frames(pending[i]) : hdr[d] \in Header /\ NextHop(d) = reply[1]
    BY <2>1, <2>2, LiveRequests DEF withheld_frames, ToSet, TypeInv, ControlOK, Routed, QueuesMatch
  <2>5. \A d \in withheld_frames(pending[i]) :
          /\ out[d] # Nothing
          /\ out[d].kind = "forwarded" => <<NextHop(d), out[d].mac>> \in announced
    BY <1>2, <2>0, <2>3, <2>4, OutcomeType
  <2>6. fate' = [d \in Frame |-> IF d \in withheld_frames(pending[i])
                                 THEN out[d] ELSE fate[d]]
    BY <1>5, <2>0
  <2>7. /\ live' = live \ {pending[i]} /\ \A q \in live' : req'[q] = req[q]
        /\ UniquePending' /\ ForwardMac' /\ Conservation' /\ QueuesMatch'
    <3>1. i \in DOMAIN pending /\ UNCHANGED <<cur, received, hdr, asked, announced>>
      BY <1>1, <2>1
    <3>2. pending' = RemoveAt(pending, i) /\ req' = [req EXCEPT ![pending[i]] = Freed]
      BY <1>5
    <3> HIDE DEF hit, SafeInv
    <3> QED
      BY <3>1, <3>2, <2>5, <2>6, SafeSettle
  <2>8. CachedXorPending'
    <3>1. \A q \in live' : req[q].ip # reply[1]
      BY <2>1, <2>7, LiveRequests DEF UniquePending, TypeInv
    <3> QED
      BY <1>1, <2>7, <3>1 DEF CachedXorPending
  <2> QED
    BY <1>3, <2>7, <2>8
<1> QED
  BY <1>4, <1>5 DEF Drain

(* The ARP thread repeats a request.                                       *)
LEMMA SafeStepArpResend ==
  ASSUME TypeInv, SafeInv, ArpResend
  PROVE  SafeInv'
<1> USE DEF SafeInv
<1>1. PICK r : r = pending[arp_elt]
  OBVIOUS
<1>2. /\ UNCHANGED <<pending, pc, cur, entry, preq, reply, received, hdr, fate,
                     announced, arpcache, valid>>
      /\ r \in live /\ arp_elt \in DOMAIN pending
      /\ req' = [req EXCEPT ![r] = [req[r] EXCEPT !.times_sent = req[r].times_sent + 1]]
      /\ asked' = [asked EXCEPT ![req[r].ip] = asked[req[r].ip] + 1]
  BY <1>1 DEF ArpResend, send_arp_request, mainv, live, ToSet
<1>3. \A q \in live : q \in ReqId /\ req[q] \in Request /\ req[q].ip \in IP
  BY LiveRequests DEF TypeInv
<1>4. /\ \A q \in live : req'[q].ip = req[q].ip /\ req'[q].frames = req[q].frames
      /\ \A q \in live : q # r => req'[q].times_sent = req[q].times_sent
      /\ req'[r].times_sent = req[r].times_sent + 1
  BY <1>2, <1>3 DEF TypeInv, TypeOK, Request
<1>5. /\ live' = live
      /\ \A d : NextHop(d)' = NextHop(d) /\ (Answered(d)' <=> Answered(d))
      /\ NextHop(cur)' = NextHop(cur)
  BY <1>2 DEF live, NextHop, Answered
<1>6. UniquePending'
  <2>1. \A i \in DOMAIN pending : pending[i] \in live
    BY DEF live, ToSet
  <2> QED
    BY <1>2, <1>4, <2>1 DEF UniquePending
<1>7. CachedXorPending' /\ KnownMacs' /\ ForwardMac' /\ LookupsHold'
  BY <1>2, <1>4, <1>5 DEF CachedXorPending, KnownMacs, ForwardMac, LookupsHold
<1>8. Conservation'
  <2>1. \A d : Withheld(d)' <=> Withheld(d)
    BY <1>4, <1>5 DEF Withheld
  <2> QED
    BY <1>2, <1>4, <1>5, <2>1 DEF Conservation
<1>9. QueuesMatch'
  <2>1. \A q \in live : q # r => req[q].ip # req[r].ip
    BY <1>2, LiveRequests DEF UniquePending, TypeInv
  <2>2. /\ asked'[req[r].ip] = asked[req[r].ip] + 1
        /\ \A q \in live : q # r => asked'[req[q].ip] = asked[req[q].ip]
    BY <1>2, <1>3, <2>1 DEF TypeInv, TypeOK
  <2>3. \A q \in live : asked'[req'[q].ip] = req'[q].times_sent
    BY <1>2, <1>4, <2>2 DEF QueuesMatch
  <2>4. \A q \in live : withheld_frames(q)' = withheld_frames(q)
    BY <1>4 DEF withheld_frames
  <2> QED
    BY <1>4, <1>5, <2>3, <2>4 DEF QueuesMatch
<1> QED
  BY <1>6, <1>7, <1>8, <1>9

(* The ARP thread gives a request up.                                      *)
LEMMA SafeStepArpGiveUp ==
  ASSUME TypeInv, SafeInv, ArpGiveUp
  PROVE  SafeInv'
<1> USE DEF SafeInv
<1> DEFINE out == [d \in Frame |-> Answer("host_unreachable")]
<1>1. PICK i \in DOMAIN pending : i = arp_elt
  BY DEF ArpGiveUp
<1>2. /\ UNCHANGED <<pc, cur, entry, preq, reply, received, hdr, asked, announced, arpcache, valid>>
      /\ pending' = RemoveAt(pending, i)
      /\ req' = [req EXCEPT ![pending[i]] = Freed]
      /\ fate' = [d \in Frame |-> IF d \in withheld_frames(pending[i])
                                  THEN Answer("host_unreachable") ELSE fate[d]]
  BY <1>1 DEF ArpGiveUp, mainv, arpv
<1>3. withheld_frames(pending[i]) \subseteq Frame
  BY LiveRequests DEF TypeInv, live, ToSet
<1>4. fate' = [d \in Frame |-> IF d \in withheld_frames(pending[i])
                               THEN out[d] ELSE fate[d]]
  BY <1>2
<1>5. \A d \in withheld_frames(pending[i]) : out[d] # Nothing /\ out[d].kind # "forwarded"
  BY <1>3, OutcomeMembers DEF Answer
<1> HIDE DEF out
<1>6. /\ live' = live \ {pending[i]} /\ \A q \in live' : req'[q] = req[q]
      /\ \A d : NextHop(d)' = NextHop(d)
      /\ UniquePending' /\ ForwardMac' /\ Conservation' /\ QueuesMatch'
  BY <1>2, <1>4, <1>5, SafeSettle
<1>7. NextHop(cur)' = NextHop(cur)
  BY <1>2 DEF NextHop
<1>8. CachedXorPending' /\ KnownMacs' /\ LookupsHold'
  BY <1>2, <1>6, <1>7 DEF CachedXorPending, KnownMacs, LookupsHold
<1> QED
  BY <1>6, <1>8

(* Every step keeps the safety invariant: the lemmas above, by action.     *)
LEMMA SafeStep == TypeInv /\ SafeInv /\ [Next]_vars => SafeInv'
  BY SafeStepRecvDatagram, SafeStepQuiet, SafeStepForward, SafeStepNewRequest,
     SafeStepAddFrame, SafeStepAddFrameFreed, SafeStepDrain, SafeStepArpResend,
     SafeStepArpGiveUp
     DEF Next, MainStep, ArpStep, Stopped

(* The inductive invariant holds throughout.                               *)
LEMMA SafeInvariant == Spec => [](TypeInv /\ SafeInv)
<1>1. Init => TypeInv /\ SafeInv
  BY TypeInit, SafeInit
<1>2. TypeInv /\ SafeInv /\ [Next]_vars => (TypeInv /\ SafeInv)'
  BY TypeStep, SafeStep
<1> QED
  BY <1>1, <1>2, PTL DEF Spec

(* However many datagrams arrive and however the two threads interleave,   *)
(* no datagram is dropped without trace or answered twice.                 *)
THEOREM NothingMislaid == Spec => []Conservation
  BY SafeInvariant, PTL DEF SafeInv

(* The list of pending requests never holds an address twice.              *)
THEOREM OneRequestPerAddress == Spec => []UniquePending
  BY SafeInvariant, PTL DEF SafeInv

(* Outside the ARP reply handler no address is resolved and pending.       *)
THEOREM ResolvedOrPending == Spec => []CachedXorPending
  BY SafeInvariant, PTL DEF SafeInv

(* The unlocked read of the cache entry yields an announced MAC.           *)
THEOREM ForwardedToAnnouncedMac == Spec => []ForwardMac
  BY SafeInvariant, PTL DEF SafeInv

(* What is carried across an unlock still agrees with the tables.          *)
THEOREM CarriedStateHolds == Spec => []CarriedState
<1>1. SafeInv => CarriedState
  BY DEF SafeInv, CarriedState
<1> QED
  BY SafeInvariant, <1>1, PTL

(* Host Unreachable for a withheld datagram comes from ArpGiveUp alone,    *)
(* and then the request went out exactly MAX_TIMES_SENT times.             *)
THEOREM GivesUpAfterFive == Spec => GiveUpAfterFive
<1> DEFINE A == \A d \in Frame : Withheld(d) /\ fate'[d].kind = "host_unreachable"
                  /\ ~Answered(d) => asked[NextHop(d)] = MAX_TIMES_SENT
<1>1. ASSUME TypeInv, SafeInv, [Next]_vars PROVE [A]_vars
  <2> SUFFICES ASSUME Next, NEW d \in Frame, Withheld(d), ~Answered(d),
                      fate'[d].kind = "host_unreachable"
               PROVE  asked[NextHop(d)] = MAX_TIMES_SENT
    BY <1>1
  <2> USE <1>1 DEF SafeInv
  <2>1. fate[d].kind # "host_unreachable"
    BY DEF Answered, Nothing, Answer
  <2>2. d <= received /\ d # cur
    BY DEF Conservation
  <2>3. CASE UNCHANGED fate
    BY <2>1, <2>3
  <2>4. CASE RecvDatagram
    <3>1. d # received + 1 /\ received + 1 \in Frame
      BY <2>2, <2>4, BoundsAssumption DEF RecvDatagram, TypeInv, TypeOK, Frame
    <3>2. fate'[d] = fate[d]
      BY <2>4, <3>1 DEF RecvDatagram, TypeInv, TypeOK
    <3> QED
      BY <2>1, <3>2
  <2>5. CASE Forward \/ AddFrameFreed
    <3>1. fate'[d] = fate[d]
      BY <2>2, <2>5 DEF Forward, AddFrameFreed, TypeInv, TypeOK
    <3> QED
      BY <2>1, <3>1
  <2>6. CASE Drain
    <3>1. fate'[d] = fate[d] \/ fate'[d] = forward_ip_datagram(d, reply[2])
      BY <2>6 DEF Drain, TypeInv, TypeOK
    <3>2. forward_ip_datagram(d, reply[2]).kind # "host_unreachable"
      BY DEF forward_ip_datagram, Answer
    <3> QED
      BY <2>1, <3>1, <3>2
  <2>7. CASE ArpGiveUp
    <3>1. PICK r : r = pending[arp_elt]
      OBVIOUS
    <3>2. /\ r \in live /\ req[r].times_sent >= MAX_TIMES_SENT
          /\ d \notin withheld_frames(r) => fate'[d] = fate[d]
      BY <2>7, <3>1 DEF ArpGiveUp, sent_enough, live, ToSet
    <3>3. d \in withheld_frames(r)
      BY <2>1, <3>2
    <3>4. asked[NextHop(d)] = req[r].times_sent
      BY <3>2, <3>3 DEF QueuesMatch
    <3>5. req[r].times_sent \in 0..MAX_TIMES_SENT
      BY <3>2, LiveRequests, RequestType DEF TypeInv
    <3> QED
      BY <3>2, <3>4, <3>5, BoundsAssumption
  <2>8. \/ UNCHANGED fate \/ RecvDatagram \/ Forward \/ AddFrameFreed \/ Drain \/ ArpGiveUp
    BY DEF Next, MainStep, ArpStep, Stopped, RecvArpReply, CacheLookup, PendingLookup,
           NewRequest, AddFrame, CacheAdd, ArpLock, ArpResend, ArpUnlock, Tick, vars, histv
  <2> QED
    BY <2>3, <2>4, <2>5, <2>6, <2>7, <2>8
<1> QED
  BY SafeInvariant, <1>1, PTL DEF Spec, GiveUpAfterFive

-----------------------------------------------------------------------------
(* Why datagrams keep their order.  The datagram in hand is the newest, so *)
(* it comes last in the queue it is added to; and when the cache answered  *)
(* for it, nothing waits for the same next hop, since requests only go     *)
(* away while the main thread holds the datagram.                          *)
NewestInHand == cur # 0 => cur = received
NoneWaits == pc = "forward" => \A r \in live : req[r].ip # NextHop(cur)
Sorted(f) == \A i, j \in DOMAIN f : i < j => f[i] < f[j]
QueuesSorted == \A r \in live : Sorted(req[r].frames)
OrderInv == NewestInHand /\ NoneWaits /\ QueuesSorted

LEMMA OrderInit == Init => OrderInv
  BY DEF Init, OrderInv, NewestInHand, NoneWaits, QueuesSorted, live, ToSet

(* A step after which there are no new requests, and the same queues.      *)
LEMMA OrderKept ==
  ASSUME OrderInv, live' \subseteq live,
         \A r \in live' : req'[r].frames = req[r].frames /\ req'[r].ip = req[r].ip,
         UNCHANGED <<received, hdr>>, cur' = cur \/ cur' = 0,
         pc' = "forward" => pc = "forward" /\ cur' = cur
  PROVE  OrderInv'
  BY DEF OrderInv, NewestInHand, NoneWaits, QueuesSorted, NextHop

LEMMA OrderStep ==
  ASSUME TypeInv, SafeInv, OrderInv, [Next]_vars
  PROVE  OrderInv'
<1> USE DEF shared, mainv, arpv, histv, TypeInv
<1>0. /\ pending \in Seq(ReqId) /\ req \in [ReqId -> Request] /\ received \in Nat
      /\ \A r \in live : r \in ReqId /\ req[r] \in Request
      /\ cur \in Frame \cup {0} /\ pc \in Point
  BY BoundsAssumption, LiveRequests DEF TypeOK
<1>1. CASE RecvDatagram
  <2>1. cur = 0 /\ cur' \in {0, received'} /\ pc' # "forward" /\ UNCHANGED <<pending, req>>
    BY <1>1 DEF RecvDatagram, ControlOK, Busy
  <2> QED
    BY <2>1 DEF OrderInv, NewestInHand, NoneWaits, QueuesSorted, live
<1>2. CASE CacheLookup
  <2>1. UNCHANGED <<pending, req, cur, received, hdr, valid, arpcache>> /\ pc = "cache_lookup"
    BY <1>2 DEF CacheLookup
  <2>2. CASE pc' # "forward"
    <3>1. live' = live
      BY <2>1 DEF live
    <3> QED
      BY <2>1, <2>2, <3>1, OrderKept
  <2>3. CASE pc' = "forward"
    <3>1. PICK s \in arp_cache_lookup(NextHop(cur)) : TRUE
      BY <1>2, <2>3 DEF CacheLookup
    <3>2. s \in valid /\ arpcache[s].ip = NextHop(cur)
      BY <3>1 DEF arp_cache_lookup, FirstOf
    <3>3. \A r \in live : req[r].ip # NextHop(cur)
      BY <2>1, <3>2 DEF SafeInv, CachedXorPending
    <3> QED
      BY <2>1, <3>3 DEF OrderInv, NewestInHand, NoneWaits, QueuesSorted, live, NextHop
  <2> QED
    BY <2>2, <2>3
<1>3. CASE Forward \/ PendingLookup \/ AddFrameFreed \/ RecvArpReply \/ CacheAdd
  <2>1. UNCHANGED <<pending, req, received, hdr>> /\ pc' # "forward" /\ (cur' = cur \/ cur' = 0)
    BY <1>3 DEF Forward, PendingLookup, AddFrameFreed, RecvArpReply, CacheAdd
  <2>2. live' = live
    BY <2>1 DEF live
  <2> QED
    BY <2>1, <2>2, OrderKept
<1>4. CASE NewRequest
  <2>1. PICK r \in ReqId \ live :
          /\ req' = [req EXCEPT ![r] = pending_req_add(NextHop(cur), cur)]
          /\ pending' = Append(pending, r)
    BY <1>4 DEF NewRequest
  <2>2. live' = live \cup {r}
    <3>1. /\ DOMAIN pending' = DOMAIN pending \cup {Len(pending) + 1}
          /\ pending'[Len(pending) + 1] = r /\ \A i \in DOMAIN pending : pending'[i] = pending[i]
      BY <1>0, <2>1
    <3> QED
      BY <3>1 DEF live, ToSet
  <2>3. /\ req'[r].frames = <<cur>> /\ \A q \in live : req'[q] = req[q]
    BY <1>0, <2>1 DEF pending_req_add
  <2>4. Sorted(<<cur>>)
    BY DEF Sorted
  <2>5. cur' = 0 /\ pc' = "recv"
    BY <1>4 DEF NewRequest
  <2> QED
    BY <2>2, <2>3, <2>4, <2>5 DEF OrderInv, NewestInHand, NoneWaits, QueuesSorted
<1>5. CASE AddFrame
  <2>1. /\ req' = [req EXCEPT ![preq] = [req[preq] EXCEPT !.frames = Append(req[preq].frames, cur)]]
        /\ preq \in live /\ UNCHANGED pending /\ cur' = 0 /\ pc' = "recv" /\ pc = "add_frame"
    BY <1>5 DEF AddFrame, add_frame
  <2>2. live' = live
    BY <2>1 DEF live
  <2>3. PICK f \in Seq(Frame) : f = req[preq].frames
    BY <2>1, LiveRequests
  <2>4. req'[preq].frames = Append(f, cur) /\ \A q \in live : q # preq => req'[q] = req[q]
    BY <1>0, <2>1, <2>3 DEF Request
  <2>5. cur = received /\ cur \in Nat /\ cur # 0
    BY <1>0, <2>1, BoundsAssumption DEF OrderInv, NewestInHand, ControlOK, Busy, Routed
  <2>6. ASSUME NEW i \in DOMAIN f
        PROVE  f[i] \in Nat /\ f[i] < cur
    <3>1. f[i] \in Frame /\ Withheld(f[i])
      BY <2>1, <2>3 DEF Withheld, ToSet
    <3>2. f[i] <= received /\ f[i] # cur /\ f[i] \in Nat
      BY <3>1, BoundsAssumption DEF SafeInv, Conservation, Frame
    <3> QED
      BY <2>5, <3>2
  <2>7. /\ DOMAIN Append(f, cur) = 1..(Len(f) + 1) /\ DOMAIN f = 1..Len(f) /\ Len(f) \in Nat
        /\ Append(f, cur)[Len(f) + 1] = cur
        /\ \A i \in DOMAIN f : Append(f, cur)[i] = f[i]
    BY <2>3, <2>5
  <2>8. Sorted(f)
    BY <2>1, <2>3 DEF OrderInv, QueuesSorted
  <2>9. Sorted(Append(f, cur))
    <3> SUFFICES ASSUME NEW i \in 1..(Len(f) + 1), NEW j \in 1..(Len(f) + 1), i < j
                 PROVE  Append(f, cur)[i] < Append(f, cur)[j]
      BY <2>7 DEF Sorted
    <3>1. i \in DOMAIN f
      BY <2>7
    <3>2. CASE j = Len(f) + 1
      BY <2>6, <2>7, <3>1, <3>2
    <3>3. CASE j # Len(f) + 1
      <4>1. j \in DOMAIN f
        BY <2>7, <3>3
      <4> QED
        BY <2>7, <2>8, <3>1, <4>1 DEF Sorted
    <3> QED
      BY <3>2, <3>3
  <2> QED
    BY <2>1, <2>2, <2>4, <2>9 DEF OrderInv, NewestInHand, NoneWaits, QueuesSorted
<1>6. CASE Drain
  <2>1. UNCHANGED <<received, hdr, cur>> /\ pc' = "recv"
    BY <1>6 DEF Drain
  <2>2. CASE UNCHANGED <<pending, req>>
    <3>1. live' = live
      BY <2>2 DEF live
    <3> QED
      BY <2>1, <2>2, <3>1, OrderKept
  <2>3. ASSUME NEW i \in pending_req_lookup(reply[1]), pending' = RemoveAt(pending, i),
               req' = [req EXCEPT ![pending[i]] = Freed]
        PROVE  OrderInv'
    <3>1. i \in DOMAIN pending
      BY DEF pending_req_lookup, FirstOf
    <3>2. live' = live \ {pending[i]}
      BY <2>3, <3>1, Unlink DEF SafeInv
    <3>3. \A q \in live' : req'[q] = req[q]
      BY <1>0, <2>3, <3>2
    <3> QED
      BY <2>1, <3>2, <3>3, OrderKept
  <2> QED
    BY <1>6, <2>2, <2>3 DEF Drain
<1>7. CASE ArpResend
  <2>1. PICK r : r = pending[arp_elt]
    OBVIOUS
  <2>2. /\ UNCHANGED <<pending, cur, pc, received, hdr>> /\ arp_elt \in DOMAIN pending
        /\ req' = [req EXCEPT ![r] = [req[r] EXCEPT !.times_sent = @ + 1]]
    BY <1>7, <2>1 DEF ArpResend
  <2>3. r \in live /\ live' = live
    BY <2>1, <2>2 DEF live, ToSet
  <2>4. \A q \in live : req'[q].frames = req[q].frames /\ req'[q].ip = req[q].ip
    BY <1>0, <2>2, <2>3 DEF Request
  <2> QED
    BY <2>2, <2>3, <2>4, OrderKept
<1>8. CASE ArpGiveUp
  <2>1. /\ UNCHANGED <<cur, pc, received, hdr>> /\ arp_elt \in DOMAIN pending
        /\ pending' = RemoveAt(pending, arp_elt) /\ req' = [req EXCEPT ![pending[arp_elt]] = Freed]
    BY <1>8 DEF ArpGiveUp
  <2>2. live' = live \ {pending[arp_elt]}
    BY <2>1, Unlink DEF SafeInv
  <2>3. \A q \in live' : req'[q] = req[q]
    BY <1>0, <2>1, <2>2
  <2> QED
    BY <2>1, <2>2, <2>3, OrderKept
<1>9. CASE ArpLock \/ ArpUnlock \/ Tick \/ UNCHANGED vars
  <2>1. UNCHANGED <<pending, req, received, hdr, cur, pc>>
    BY <1>9 DEF ArpLock, ArpUnlock, Tick, vars
  <2>2. live' = live
    BY <2>1 DEF live
  <2> QED
    BY <2>1, <2>2, OrderKept
<1> QED
  BY <1>1, <1>2, <1>3, <1>4, <1>5, <1>6, <1>7, <1>8, <1>9 DEF Next, MainStep, ArpStep, Stopped

(* The order of arrival is the order of departure for each next hop: the   *)
(* cache and the queues never let a datagram pass an earlier one, although *)
(* the handler looks into them in separate critical sections.              *)
THEOREM DatagramsKeepOrder == Spec => NoOvertaking
<1> DEFINE A == \A d \in Frame : \A e \in 1..(d - 1) :
                  /\ ~Answered(d) /\ fate'[d].kind = "forwarded"
                  /\ NextHop(e)' = NextHop(d)'
                  /\ hdr'[e].dst \notin {IfaceIp[i] : i \in Iface}
                  => /\ Answered(e)'
                     /\ ~Answered(e) =>
                          \E r \in live : \E i, j \in DOMAIN req[r].frames :
                            i < j /\ req[r].frames[i] = e /\ req[r].frames[j] = d
<1>1. ASSUME TypeInv, SafeInv, OrderInv, [Next]_vars PROVE [A]_vars
  <2> SUFFICES ASSUME Next, NEW d \in Frame, NEW e \in 1..(d - 1), ~Answered(d),
                      fate'[d].kind = "forwarded", NextHop(e)' = NextHop(d)'
               PROVE  /\ Answered(e)'
                      /\ ~Answered(e) =>
                           \E r \in live : \E i, j \in DOMAIN req[r].frames :
                             i < j /\ req[r].frames[i] = e /\ req[r].frames[j] = d
    BY <1>1
  <2> USE <1>1 DEF shared, mainv, arpv, histv, TypeInv
  <2>0. /\ d \in Nat /\ e \in Nat /\ e < d /\ e \in Frame /\ received \in Nat
        /\ fate \in [Frame -> Outcome]
    BY BoundsAssumption DEF Frame, TypeOK
  <2>1. fate[d].kind # "forwarded" /\ fate'[d] # fate[d]
    BY DEF Answered, Nothing, Answer
  <2>2. CASE RecvDatagram
    <3>1. PICK h \in Header : fate' = [fate EXCEPT ![received'] = first_answer(h)]
      BY <2>2 DEF RecvDatagram
    <3>2. fate'[d] = first_answer(h)
      BY <2>0, <2>1, <3>1
    <3> QED
      BY <3>2, FirstAnswerKind
  <2>3. CASE AddFrameFreed
    <3>1. fate'[d] = fate[d] \/ fate'[d] = Answer("lost")
      BY <2>0, <2>3 DEF AddFrameFreed
    <3> QED
      BY <2>1, <3>1 DEF Answer
  <2>4. CASE ArpGiveUp
    <3>1. fate'[d] = fate[d] \/ fate'[d] = Answer("host_unreachable")
      BY <2>4 DEF ArpGiveUp
    <3> QED
      BY <2>1, <3>1 DEF Answer
  <2>5. CASE Forward
    <3>1. /\ d = cur /\ UNCHANGED hdr /\ pc = "forward"
          /\ \A x \in Frame : x # cur => fate'[x] = fate[x]
      BY <2>0, <2>1, <2>5 DEF Forward
    <3>2. e <= received /\ e # cur
      BY <2>0, <3>1 DEF SafeInv, Conservation
    <3>3. ~Withheld(e)
      <4> SUFFICES ASSUME NEW r \in live, e \in ToSet(req[r].frames)
                   PROVE  FALSE
        BY DEF Withheld
      <4>1. NextHop(e) = req[r].ip /\ NextHop(e) = NextHop(cur)
        BY <3>1 DEF SafeInv, QueuesMatch, withheld_frames, NextHop
      <4> QED
        BY <3>1, <4>1 DEF OrderInv, NoneWaits
    <3>4. Answered(e)
      BY <2>0, <3>2, <3>3 DEF SafeInv, Conservation
    <3> QED
      BY <2>0, <3>1, <3>2, <3>4 DEF Answered
  <2>6. CASE Drain
    <3>1. PICK i \in pending_req_lookup(reply[1]) :
            fate' = [x \in Frame |-> IF x \in withheld_frames(pending[i])
                                     THEN forward_ip_datagram(x, reply[2]) ELSE fate[x]]
      BY <2>1, <2>6 DEF Drain
    <3>2. i \in DOMAIN pending /\ UNCHANGED hdr /\ cur = 0 /\ reply \in announced
      BY <2>6, <3>1 DEF pending_req_lookup, FirstOf, Drain, ControlOK, Busy
    <3>3. PICK r \in live : r = pending[i]
      BY <3>2 DEF live, ToSet
    <3>4. d \in withheld_frames(r) /\ NextHop(d) = req[r].ip
      BY <2>1, <3>1, <3>3 DEF SafeInv, QueuesMatch
    <3>5. NextHop(e) = req[r].ip
      BY <3>2, <3>4 DEF NextHop
    <3>6. e <= received /\ (Withheld(e) \/ Answered(e))
      <4>1. d <= received
        BY <3>3, <3>4 DEF SafeInv, Conservation, Withheld, withheld_frames
      <4>2. e <= received
        BY <2>0, <4>1
      <4>3. e # cur
        BY <2>0, <3>2
      <4> QED
        BY <2>0, <4>2, <4>3 DEF SafeInv, Conservation
    <3>7. CASE Withheld(e)
      <4>1. PICK s \in live : e \in ToSet(req[s].frames)
        BY <3>7 DEF Withheld
      <4>2. s = r
        <5>1. PICK k \in DOMAIN pending : s = pending[k]
          BY LiveRequests
        <5>2. req[s].ip = NextHop(e)
          BY <4>1 DEF SafeInv, QueuesMatch, withheld_frames
        <5> QED
          BY <3>2, <3>3, <3>5, <5>1, <5>2 DEF SafeInv, UniquePending
      <4>3. PICK k \in DOMAIN req[r].frames, l \in DOMAIN req[r].frames :
              req[r].frames[k] = e /\ req[r].frames[l] = d
        BY <3>4, <4>1, <4>2 DEF withheld_frames, ToSet
      <4>4. k < l
        <5>1. k \in Nat /\ l \in Nat
          BY LiveRequests
        <5>2. Sorted(req[r].frames)
          BY DEF OrderInv, QueuesSorted
        <5>3. ~(l <= k)
          BY <2>0, <4>3, <5>1, <5>2 DEF Sorted
        <5> QED
          BY <5>1, <5>3
      <4>5. Answered(e)'
        <5>1. fate'[e] = forward_ip_datagram(e, reply[2])
          BY <2>0, <3>1, <3>3, <4>1, <4>2 DEF withheld_frames
        <5>2. hdr[e] \in Header /\ reply[2] \in Mac
          BY <2>0, <3>2, <3>6 DEF ControlOK, TypeOK
        <5> QED
          BY <5>1, <5>2, OutcomeType DEF Answered
      <4> QED
        BY <4>3, <4>4, <4>5
    <3>8. CASE Answered(e) /\ ~Withheld(e)
      <4>1. e \notin withheld_frames(r)
        BY <3>8 DEF Withheld, withheld_frames
      <4>2. fate'[e] = fate[e]
        BY <2>0, <3>1, <3>3, <4>1
      <4> QED
        BY <3>8, <4>2 DEF Answered
    <3> QED
      BY <3>6, <3>7, <3>8
  <2>8. \/ UNCHANGED fate \/ RecvDatagram \/ Forward \/ AddFrameFreed \/ Drain \/ ArpGiveUp
    BY DEF Next, MainStep, ArpStep, Stopped, RecvArpReply, CacheLookup, PendingLookup,
           NewRequest, AddFrame, CacheAdd, ArpLock, ArpResend, ArpUnlock, Tick, vars
  <2> QED
    BY <2>1, <2>2, <2>3, <2>4, <2>5, <2>6, <2>8
<1>2. TypeInv /\ SafeInv /\ OrderInv /\ [Next]_vars => OrderInv'
  BY OrderStep
<1> QED
  BY SafeInvariant, OrderInit, <1>1, <1>2, PTL DEF Spec, NoOvertaking
=============================================================================
