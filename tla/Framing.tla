------------------------------ MODULE Framing ------------------------------
(***************************************************************************)
(* Cutting the TCP byte stream into messages.  A message is a header of    *)
(* four bytes, which carries the payload length, and the payload.  Both    *)
(* ends read the stream with recv, which returns any non-empty part of     *)
(* what has not been read, and copy it byte by byte into msg_buffer:       *)
(* chirouter_server_process_messages in server.c and received_messages in  *)
(* client.py.  The loops differ in one line: the server's sets len to zero *)
(* after every recv.                                                       *)
(*                                                                         *)
(* A stream of messages is given by the payload length and the offset of   *)
(* each message; what the bytes say matters only for the headers.          *)
(***************************************************************************)
EXTENDS Integers, Sequences

CONSTANTS
  N,          \* bound: how many messages the peer sends
  MaxPayload, \* longest payload
  Streams,    \* the streams considered: [len: payload lengths, start: offsets]
  RecvSize    \* size of recv_buffer, 4096 in the code

HeaderLen == 4

(* start[k] is the offset of message k, start[N + 1] the stream's length.  *)
(* That offsets grow follows from the equation; it is spelled out because  *)
(* the induction it takes is beyond the prover.                            *)
IsStream(st) ==
  /\ st.len \in [1..N -> 0..MaxPayload]
  /\ st.start \in [1..(N + 1) -> Nat]
  /\ st.start[1] = 0
  /\ \A k \in 1..N : st.start[k + 1] = st.start[k] + HeaderLen + st.len[k]
  /\ \A j, k \in 1..(N + 1) : j < k => st.start[j] < st.start[k]

ASSUME StreamAssumption ==
  /\ N \in Nat \ {0} /\ MaxPayload \in Nat /\ RecvSize \in Nat \ {0}
  /\ \A st \in Streams : IsStream(st)

VARIABLES
  stream,   \* what the peer sends
  pos,      \* how many bytes have been copied into msg_buffer so far
  chunk,    \* how many bytes of recv_buffer are still to be copied
  bufpos,   \* bytes in msg_buffer
  reading,  \* "header" or "payload": the flag reading_header
  len,      \* payload length, from the header
  out       \* history: the messages handed on, as <<offset, payload length>>

vars == <<stream, pos, chunk, bufpos, reading, len, out>>

Total == stream.start[N + 1]

Init ==
  /\ stream \in Streams
  /\ pos = 0 /\ chunk = 0 /\ bufpos = 0
  /\ reading = "header" /\ len = 0
  /\ out = <<>>

(* recv returns n bytes.                                                   *)
Receive(n) ==
  /\ chunk = 0 /\ pos < Total
  /\ n <= RecvSize /\ n <= Total - pos
  /\ chunk' = n
  /\ UNCHANGED <<stream, pos, bufpos, reading, out>>

ServerRecv ==
  \E n \in 1..RecvSize : Receive(n) /\ len' = 0

ClientRecv ==
  \E n \in 1..RecvSize : Receive(n) /\ UNCHANGED len

(* What the two length bytes in msg_buffer say.  Bytes that are not those  *)
(* of a header can say anything.                                           *)
payload_length ==
  LET off == pos + 1 - HeaderLen
      here == {k \in 1..N : stream.start[k] = off}
  IN IF here = {} THEN 0..MaxPayload ELSE {stream.len[k] : k \in here}

(* Faults: one byte short; one byte late.                                  *)
complete_early(b, l) == b = HeaderLen + l - 1
complete_late(b, l) == b = HeaderLen + l + 1

(* The message in msg_buffer is complete.                                  *)
complete(b, l) == b = HeaderLen + l

(* One turn of the copying loop: a byte, then the header if this was its   *)
(* last byte, then the message if this was its last.                       *)
CopyByte ==
  /\ chunk > 0
  /\ chunk' = chunk - 1 /\ pos' = pos + 1
  /\ LET header == reading = "header" /\ bufpos + 1 = HeaderLen
     IN \E l \in (IF header THEN payload_length ELSE {len}) :
          \/ /\ (header \/ reading = "payload") /\ complete(bufpos + 1, l)
             /\ out' = Append(out, <<pos + 1 - HeaderLen - l, l>>)
             /\ reading' = "header" /\ bufpos' = 0 /\ len' = 0
          \/ /\ ~((header \/ reading = "payload") /\ complete(bufpos + 1, l))
             /\ reading' = IF header THEN "payload" ELSE reading
             /\ bufpos' = bufpos + 1 /\ len' = l
             /\ UNCHANGED out
  /\ UNCHANGED stream

(* The peer has sent everything and the reader waits in recv.              *)
Drained == chunk = 0 /\ pos = Total /\ UNCHANGED vars

ClientNext == ClientRecv \/ CopyByte \/ Drained

ClientSpec == Init /\ [][ClientNext]_vars

(* The server's loop, on streams shorter than the 4096 bytes of            *)
(* msg_buffer.                                                             *)
ServerNext == ServerRecv \/ CopyByte \/ Drained

ServerSpec == Init /\ [][ServerNext]_vars

(* The reading thread runs and TCP delivers what was sent.                 *)
ClientFairSpec == ClientSpec /\ WF_vars(ClientRecv) /\ WF_vars(CopyByte)

-----------------------------------------------------------------------------
(* Ranges of the parser's variables; in particular msg_buffer never fills  *)
(* beyond one message.                                                     *)
TypeOK ==
  /\ stream \in Streams
  /\ pos \in Nat /\ chunk \in 0..RecvSize
  /\ bufpos \in 0..(HeaderLen + MaxPayload - 1)
  /\ reading \in {"header", "payload"}
  /\ len \in 0..MaxPayload
  /\ out \in Seq(Int \X (0..MaxPayload))

(* Whatever recv returns, the messages handed on are the messages sent, in *)
(* order, none cut, merged, repeated or left out.                          *)
InOrder ==
  /\ Len(out) <= N
  /\ \A k \in 1..Len(out) : out[k] = <<stream.start[k], stream.len[k]>>

(* A message is handed on with its last byte: the reader never waits in    *)
(* recv with a complete message in its hands.                              *)
Prompt ==
  Len(out) <= N =>
    /\ stream.start[Len(out) + 1] <= pos
    /\ Len(out) < N => pos < stream.start[Len(out) + 2]

(* Every message of the stream is handed on.                               *)
AllDelivered == <>(Len(out) = N)

=============================================================================
