------------------------------ MODULE MCRouter ------------------------------
(***************************************************************************)
(* A router with two interfaces and two next hops: host H1 is reached      *)
(* directly, H2 through gateway G; U has no route.                         *)
(***************************************************************************)
EXTENDS Router, TLC

CONSTANTS Z, I1, I2, H1, H2, G, U, M0, M1, M2, R1, R2

MCIP == {Z, I1, I2, H1, H2, G, U}
MCIfaceIp == ("e0" :> I1) @@ ("e1" :> I2)
MCRoute == [ip \in MCIP |->
  CASE ip = H1 -> [gw |-> Z, iface |-> "e0"]
    [] ip \in {H2, G} -> [gw |-> IF ip = H2 THEN G ELSE Z, iface |-> "e1"]
    [] OTHER -> NULL]

Pkt(dst, proto, ttl) == [in |-> "e0", dst |-> dst, proto |-> proto, ttl |-> ttl]

(* The ways that reach the shared tables.                                  *)
ForwardHeaders == {Pkt(H1, "tcp", 2), Pkt(H1, "tcp", 1), Pkt(H2, "tcp", 2)}
(* Every way the handler answers a datagram itself, and one that waits.    *)
MixedHeaders ==
  {Pkt(I1, "tcp", 2), Pkt(I1, "echo_request", 1), Pkt(I1, "echo_request", 2),
   Pkt(I1, "other_icmp", 2), Pkt(I1, "other", 2), Pkt(I2, "udp", 2),
   Pkt(U, "tcp", 2), Pkt(H1, "tcp", 2)}

ReqIdSymmetry == Permutations(ReqId)

OneHopAnnounce == {<<H1, M1>>, <<H1, M2>>}
MCAnnounce == {<<H1, M1>>, <<H1, M2>>, <<G, M1>>}
=============================================================================
