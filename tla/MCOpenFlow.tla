----------------------------- MODULE MCOpenFlow -----------------------------
(* Switches for the model checker: one that comes back while its old        *)
(* connection is open, two that differ, one whose ports change, one that    *)
(* mixes the parts of two statistics replies, and one that greets twice.    *)
EXTENDS OpenFlow, TLC

CONSTANTS c1, c2

part(xid, n, last) == [t |-> "STATS_REPLY", xid |-> xid, part |-> n, last |-> last]
plain == [dpid |-> (c1 :> 1), ports |-> (1 :> TRUE), hellos |-> 1, changes |-> 0, stats |-> <<>>]

MCSwitches ==
  { [plain EXCEPT !.dpid = c1 :> 1 @@ c2 :> 1],
    [plain EXCEPT !.dpid = c1 :> 1 @@ c2 :> 2],
    [plain EXCEPT !.changes = 3],
    [plain EXCEPT !.stats = <<part(1, 1, FALSE), part(2, 1, TRUE), part(1, 2, TRUE), part(3, 1, TRUE)>>],
    [plain EXCEPT !.hellos = 2] }
=============================================================================
