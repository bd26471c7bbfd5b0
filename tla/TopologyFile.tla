---------------------------- MODULE TopologyFile ----------------------------
(***************************************************************************)
(* topology.py: the topology file as the controller reads it, the network  *)
(* mininet builds from it, and the ports a RouterController finds.         *)
(*                                                                         *)
(* A JSON object is a record, and a missing field one it does not have.    *)
(* Names of interfaces are numbers, ordered as the strings are; addresses  *)
(* are left out.                                                           *)
(***************************************************************************)
EXTENDS Integers, Sequences, SequencesExt, FiniteSets

Has(d, fields) == fields \subseteq DOMAIN d
NoIface == -1    \* a link that names no interface

(* Interface.from_dict, RTableEntry.from_dict                              *)
interface_from_dict(d) == Has(d, {"name", "ip", "mask"})
rtable_entry_from_dict(d) == Has(d, {"destination", "gateway", "mask", "metric", "iface"})

interfaces(d) == {d.interfaces[k].name : k \in DOMAIN d.interfaces}

(* Router.add_rtable_entry refuses an interface the router does not have.  *)
add_rtable_entry(router, rte) == rte.iface \in interfaces(router)

(* from_dict of the nodes: whether it raises nothing.                      *)
switch_from_dict(d) == Has(d, {"id"})
host_from_dict(d) ==
  Has(d, {"id", "hostname", "interfaces"})
    /\ \A k \in DOMAIN d.interfaces : interface_from_dict(d.interfaces[k])
router_from_dict(d) ==
  /\ Has(d, {"id", "interfaces", "rtable"})
  /\ \A k \in DOMAIN d.interfaces : interface_from_dict(d.interfaces[k])
  /\ \A k \in DOMAIN d.rtable : rtable_entry_from_dict(d.rtable[k]) /\ add_rtable_entry(d, d.rtable[k])

(* Topology.nodes: of nodes with one id the last one added.                *)
added(doc) == doc.switches \o doc.hosts
ids(doc) == {added(doc)[k].id : k \in DOMAIN added(doc)}
node(doc, id) == CHOOSE k \in DOMAIN added(doc) :
  added(doc)[k].id = id /\ \A j \in DOMAIN added(doc) : added(doc)[j].id = id => j <= k
node_interfaces(doc, id) ==
  LET d == added(doc)[node(doc, id)] IN IF "interfaces" \in DOMAIN d THEN interfaces(d) ELSE {}

(* Topology.add_link, for both ends of a link.                             *)
End(d) == [id |-> d.id, iface |-> IF "interface" \in DOMAIN d THEN d.interface ELSE NoIface]
ends(l) == <<End(l.from), End(l.to)>>
add_link(doc, l) ==
  \A k \in 1..2 : /\ ends(l)[k].id \in ids(doc)
                  /\ ends(l)[k].iface \in node_interfaces(doc, ends(l)[k].id) \cup {NoIface}

(* Topology.from_json returns; otherwise it raises and the controller is   *)
(* not launched.                                                           *)
from_json(doc) ==
  /\ Has(doc, {"switches", "hosts", "links"})
  /\ \A k \in DOMAIN doc.switches :
       /\ Has(doc.switches[k], {"type"})
       /\ \/ doc.switches[k].type = "switch" /\ switch_from_dict(doc.switches[k])
          \/ doc.switches[k].type = "router" /\ router_from_dict(doc.switches[k])
  /\ \A k \in DOMAIN doc.hosts : host_from_dict(doc.hosts[k])
  /\ \A k \in DOMAIN doc.links : add_link(doc, doc.links[k])

(* The routers of the topology, in order, as the client sees them.         *)
routers_of(doc) ==
  LET rs == SelectSeq(doc.switches, LAMBDA d : d.type = "router")
  IN [n \in DOMAIN rs |-> [id |-> rs[n].id, interfaces |-> interfaces(rs[n]),
                           rtable |-> [k \in DOMAIN rs[n].rtable |-> rs[n].rtable[k].iface]]]

(* start_switch looks a router up by its id, and finds it unless another   *)
(* node with that id was added later.                                      *)
found(doc, n) ==
  \E k \in DOMAIN doc.switches :
    /\ doc.switches[k].type = "router"
    /\ Cardinality({j \in 1..k : doc.switches[j].type = "router"}) = n
    /\ node(doc, doc.switches[k].id) = k

(* to_mininet_topology makes a port for every end of a link, named after   *)
(* its interface, and RouterController.__init__ finds the interfaces of a  *)
(* router by the names of the ports.  Ports mininet names by itself are    *)
(* taken to match no interface.                                            *)
port_iface(doc, n) ==
  {i \in routers_of(doc)[n].interfaces :
     \E k \in DOMAIN doc.links, e \in 1..2 :
       ends(doc.links[k])[e] = [id |-> routers_of(doc)[n].id, iface |-> i]}

(* launch: the topology, or none if the file is refused.                   *)
load(doc) ==
  IF ~from_json(doc) THEN <<>>
  ELSE [n \in DOMAIN routers_of(doc) |->
          [interfaces |-> routers_of(doc)[n].interfaces, rtable |-> routers_of(doc)[n].rtable,
           found |-> found(doc, n), ports |-> port_iface(doc, n)]]
=============================================================================
