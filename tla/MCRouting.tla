----------------------------- MODULE MCRouting -----------------------------
(***************************************************************************)
(* Tables of networks around four addresses, at prefix lengths on and off  *)
(* octet boundaries.  Most are network addresses, as in the topologies the *)
(* repository ships; two have bits behind the prefix.                      *)
(***************************************************************************)
EXTENDS Routing

CONSTANT Lengths

A1 == <<10, 1, 128, 7>>
A2 == <<10, 1, 127, 7>>
A3 == <<10, 1, 128, 135>>
A4 == <<192, 168, 1, 255>>

MCAddress == {A1, A2, A3, A4}

Network(a, p) == [dest |-> [k \in Octets |->
                              (a[k] \div 2^(8 - BitsIn(p, k))) * 2^(8 - BitsIn(p, k))],
                  plen |-> p]
MCEntry == {Network(a, p) : a \in MCAddress, p \in Lengths}
           \cup {[dest |-> A1, plen |-> p] : p \in {8, 25}}
=============================================================================
