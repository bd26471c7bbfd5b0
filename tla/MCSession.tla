----------------------------- MODULE MCSession -----------------------------
(* Topology files for TLC.                                                 *)
EXTENDS Session

If(name) == [name |-> name, ip |-> 0, mask |-> 0]
Rt(name) == [destination |-> 0, gateway |-> 0, mask |-> 0, metric |-> 0, iface |-> name]
Rtr(id, ifs, rts) == [id |-> id, type |-> "router", interfaces |-> ifs, rtable |-> rts]
Sw(id) == [id |-> id, type |-> "switch"]
Hst(id, name) == [id |-> id, hostname |-> "h", interfaces |-> <<If(name)>>]
Lnk(a, i, b, j) == [from |-> [id |-> a, interface |-> i], to |-> [id |-> b, interface |-> j]]
Doc(s, h, l) == [switches |-> s, hosts |-> h, links |-> l]

(* Two routers: one with two interfaces and two routes, one with one.      *)
R1 == Rtr(1, <<If(7), If(3)>>, <<Rt(7), Rt(3)>>)
R2 == Rtr(2, <<If(5)>>, <<Rt(5)>>)
H9 == Hst(9, 1)
Lone(r) == Doc(<<r>>, <<H9>>, <<Lnk(9, 1, 2, 5)>>)

MCDocuments ==
  {Doc(<<R1, Sw(8), R2>>, <<H9>>,
       <<Lnk(1, 3, 2, 5), Lnk(9, 1, 1, 7), [from |-> [id |-> 8], to |-> [id |-> 9, interface |-> 1]]>>),
   \* an interface without a link; no interfaces; an unknown interface in a
   \* route, in a link; an unknown node; missing fields
   Doc(<<R1>>, <<H9>>, <<Lnk(9, 1, 1, 7)>>),
   Doc(<<Rtr(2, <<>>, <<>>)>>, <<>>, <<>>),
   Lone(Rtr(2, <<If(5)>>, <<Rt(6)>>)),
   Lone(Rtr(2, <<If(6)>>, <<Rt(6)>>)),
   Lone(Rtr(3, <<If(5)>>, <<Rt(5)>>)),
   Lone([id |-> 2, type |-> "router", interfaces |-> <<If(5)>>]),
   Lone([id |-> 2, interfaces |-> <<If(5)>>]),
   \* two routers with one id
   Doc(<<R2, R2>>, <<>>, <<>>)}
=============================================================================
