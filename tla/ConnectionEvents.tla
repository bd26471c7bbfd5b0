-------------------------- MODULE ConnectionEvents --------------------------
(***************************************************************************)
(* What a component that listens to core.openflow may rely on: for each    *)
(* connection ConnectionUp is raised at most once, ConnectionDown is       *)
(* raised at most once, and never an Up after a Down.  A Down may come     *)
(* without an Up, for a switch that was lost while it was connecting.      *)
(***************************************************************************)
CONSTANT Connections
VARIABLE status    \* connection -> the last event raised: quiet, up, down

Init == status = [c \in Connections |-> "quiet"]

RaiseUp(c) == status[c] = "quiet" /\ status' = [status EXCEPT ![c] = "up"]

(* Several connections go down together when POX stops.                    *)
RaiseDown(lost) ==
  /\ \A c \in lost : status[c] # "down"
  /\ status' = [c \in Connections |-> IF c \in lost THEN "down" ELSE status[c]]

Next ==
  \/ \E c \in Connections : RaiseUp(c)
  \/ \E lost \in SUBSET Connections : RaiseDown(lost)
Spec == Init /\ [][Next]_status
=============================================================================
