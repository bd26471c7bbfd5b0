------------------------------- MODULE MCWire -------------------------------
(***************************************************************************)
(* The three parts of POX that turn objects into bytes and back, which     *)
(* share nothing: a behaviour relays one frame, asks one question about an *)
(* address, or sends messages over one stream.                             *)
(***************************************************************************)
EXTENDS MCCodec, MCPacket

VARIABLE about
wire_vars == <<about, vars, address_vars, stream_vars>>

WireInit ==
  /\ about \in {"frame", "address", "message"}
  /\ Init /\ (about # "frame" => frame = AnyFrame)
  /\ StreamInit
  /\ \/ about = "address" /\ AskInit
     \/ about \in {"frame", "message"} /\ asked = NoQuestion /\ answer = NoAnswer

WireNext ==
  /\ \/ about = "frame" /\ Next /\ UNCHANGED <<address_vars, stream_vars>>
     \/ about = "address" /\ Ask /\ UNCHANGED <<vars, stream_vars>>
     \/ about = "message" /\ StreamNext /\ UNCHANGED <<vars, address_vars>>
  /\ UNCHANGED about

WireSpec == WireInit /\ [][WireNext]_wire_vars
=============================================================================
