----------------------------- MODULE MCFraming -----------------------------
(***************************************************************************)
(* Every stream of N messages with payloads of 0 to MaxPayload bytes.      *)
(***************************************************************************)
EXTENDS Framing, Functions

Offset(l, k) == HeaderLen * (k - 1) + FoldFunctionOnSet(+, 0, l, 1..(k - 1))

MCStreams ==
  {[len |-> l, start |-> [k \in 1..(N + 1) |-> Offset(l, k)]] :
     l \in [1..N -> 0..MaxPayload]}
=============================================================================
