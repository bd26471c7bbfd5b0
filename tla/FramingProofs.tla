--------------------------- MODULE FramingProofs ---------------------------
(***************************************************************************)
(* The client's reassembly loop (received_messages in client.py) for any   *)
(* stream and any way the bytes arrive.                                    *)
(***************************************************************************)
EXTENDS Framing, TLAPS

(* Between two bytes: msg_buffer holds exactly what has been read of the   *)
(* message after the last one handed on, and len is that message's payload *)
(* length once the header is in.                                           *)
InStep ==
  /\ Len(out) <= N
  /\ pos + chunk <= Total
  /\ bufpos = pos - stream.start[Len(out) + 1]
  /\ reading = "header" => bufpos < HeaderLen
  /\ reading = "payload" =>
       /\ Len(out) < N
       /\ len = stream.len[Len(out) + 1]
       /\ HeaderLen <= bufpos /\ bufpos < HeaderLen + len

IInv == TypeOK /\ InOrder /\ InStep

(* Before the first byte everything is empty.                              *)
LEMMA FramingInit == Init => IInv
  <1> SUFFICES ASSUME Init PROVE IInv
    OBVIOUS
  <1> USE StreamAssumption DEF Init
  <1>1. /\ stream \in Streams /\ stream.start[1] = 0
        /\ stream.start \in [1..(N + 1) -> Nat]
    BY DEF IsStream
  <1>2. Total \in Nat
    BY <1>1 DEF Total
  <1>3. TypeOK
    BY DEF TypeOK, HeaderLen
  <1>4. InOrder
    BY DEF InOrder
  <1>5. InStep
    BY <1>1, <1>2 DEF InStep, HeaderLen
  <1> QED
    BY <1>3, <1>4, <1>5 DEF IInv

(* The last header byte arrives: the bytes in front of the parser are the  *)
(* header of the next message, so the length read is that message's.       *)
LEMMA HeaderRead ==
  ASSUME IInv, Len(out) < N, reading = "header", bufpos + 1 = HeaderLen
  PROVE  payload_length = {stream.len[Len(out) + 1]}
  <1>k. PICK k : k = Len(out) + 1
    OBVIOUS
  <1>1. /\ stream.start \in [1..(N + 1) -> Nat] /\ stream.len \in [1..N -> 0..MaxPayload]
        /\ \A i, j \in 1..(N + 1) : i < j => stream.start[i] < stream.start[j]
    BY StreamAssumption DEF IInv, TypeOK, IsStream
  <1>2. out \in Seq(Int \X (0..MaxPayload)) /\ N \in Nat
    BY StreamAssumption DEF IInv, TypeOK
  <1>3. k \in 1..N /\ k \in 1..(N + 1) /\ stream.start[k] \in Nat
    BY <1>1, <1>2, <1>k
  <1>a. PICK a \in Nat : a = stream.start[k]
    BY <1>3
  <1>b. bufpos = pos - a /\ pos \in Nat
    BY <1>a, <1>k DEF IInv, InStep, TypeOK
  <1>4. pos + 1 - HeaderLen = stream.start[k]
    BY <1>a, <1>b DEF HeaderLen
  <1>5. \A i \in 1..N : stream.start[i] = stream.start[k] <=> i = k
    <2> TAKE i \in 1..N
    <2>1. i \in 1..(N + 1) /\ stream.start[i] \in Nat /\ stream.start[k] \in Nat
      BY <1>1, <1>2, <1>3
    <2>2. CASE i < k  BY <2>1, <2>2, <1>1, <1>3
    <2>3. CASE k < i  BY <2>1, <2>3, <1>1, <1>3
    <2>4. CASE i = k  BY <2>4
    <2> QED BY <2>1, <2>2, <2>3, <2>4, <1>2, <1>3
  <1>6. {i \in 1..N : stream.start[i] = pos + 1 - HeaderLen} = {k}
    BY <1>3, <1>4, <1>5
  <1>7. payload_length = {stream.len[i] : i \in {k}}
    BY <1>6 DEF payload_length
  <1> QED
    BY <1>7, <1>k

(* A byte is copied.                                                       *)
LEMMA CopyStep == IInv /\ CopyByte => IInv'
  <1> SUFFICES ASSUME IInv, CopyByte PROVE IInv'
    OBVIOUS
  <1>d. PICK k : k = Len(out) + 1
    OBVIOUS
  <1>t. /\ stream \in Streams /\ pos \in Nat /\ chunk \in 0..RecvSize
        /\ bufpos \in 0..(HeaderLen + MaxPayload - 1)
        /\ reading \in {"header", "payload"} /\ len \in 0..MaxPayload
        /\ out \in Seq(Int \X (0..MaxPayload))
        /\ N \in Nat /\ MaxPayload \in Nat /\ RecvSize \in Nat /\ Len(out) \in Nat
    BY StreamAssumption DEF IInv, TypeOK
  <1>s. /\ stream.start \in [1..(N + 1) -> Nat] /\ stream.len \in [1..N -> 0..MaxPayload]
        /\ \A i \in 1..N : stream.start[i + 1] = stream.start[i] + HeaderLen + stream.len[i]
    BY StreamAssumption, <1>t DEF IsStream
  <1>i. /\ Len(out) <= N /\ pos + chunk <= Total
        /\ bufpos = pos - stream.start[k]
        /\ reading = "header" => bufpos < HeaderLen
        /\ reading = "payload" => /\ Len(out) < N /\ len = stream.len[k]
                                  /\ HeaderLen <= bufpos /\ bufpos < HeaderLen + len
    BY <1>d DEF IInv, InStep
  <1>c. /\ chunk > 0 /\ chunk' = chunk - 1 /\ pos' = pos + 1 /\ stream' = stream
    BY DEF CopyByte
  <1>b. bufpos \in Nat
    BY <1>t DEF HeaderLen
  <1>n. Len(out) < N
    <2> SUFFICES ASSUME Len(out) = N PROVE FALSE
      BY <1>t, <1>i
    <2>1. stream.start[N + 1] \in Nat /\ Total = stream.start[k]
      BY <1>s, <1>t, <1>d DEF Total
    <2>2. PICK t \in Nat : t = Total
      BY <2>1 DEF Total
    <2>3. pos - t \in Nat
      BY <2>1, <2>2, <1>i, <1>t DEF HeaderLen
    <2> QED
      BY <2>2, <2>3, <1>i, <1>c, <1>t
  <1>r. k \in 1..N /\ k \in 1..(N + 1) /\ k + 1 \in 1..(N + 1) /\ N + 1 \in 1..(N + 1)
    BY <1>n, <1>t, <1>d
  <1>k. /\ stream.start[k] \in Nat /\ stream.len[k] \in 0..MaxPayload
        /\ stream.start[k + 1] = stream.start[k] + HeaderLen + stream.len[k]
        /\ stream.start[N + 1] \in Nat
    BY <1>r, <1>s
  <1>a. PICK a \in Nat : a = stream.start[k]
    BY <1>k
  <1>m. PICK m \in 0..MaxPayload : m = stream.len[k]
    BY <1>k
  <1>z. stream.start[k + 1] = a + 4 + m /\ bufpos = pos - a
    BY <1>k, <1>a, <1>m, <1>i DEF HeaderLen
  <1> DEFINE header == reading = "header" /\ bufpos + 1 = HeaderLen
  <1>p. PICK l \in (IF header THEN payload_length ELSE {len}) :
          \/ /\ (header \/ reading = "payload") /\ complete(bufpos + 1, l)
             /\ out' = Append(out, <<pos + 1 - HeaderLen - l, l>>)
             /\ reading' = "header" /\ bufpos' = 0 /\ len' = 0
          \/ /\ ~((header \/ reading = "payload") /\ complete(bufpos + 1, l))
             /\ reading' = IF header THEN "payload" ELSE reading
             /\ bufpos' = bufpos + 1 /\ len' = l
             /\ out' = out
    BY DEF CopyByte
  <1>l. /\ header \/ reading = "payload" => l = m
        /\ ~(header \/ reading = "payload") => l = len
        /\ l \in 0..MaxPayload
    <2>1. CASE header
      BY <2>1, <1>p, <1>n, <1>m, <1>d, HeaderRead
    <2>2. CASE ~header
      BY <2>2, <1>p, <1>i, <1>m, <1>t
    <2> QED BY <2>1, <2>2
  <1>tot. Total' = Total /\ Total \in Nat
    BY <1>c, <1>k DEF Total
  <1>chunk. chunk' \in 0..RecvSize /\ pos' \in Nat /\ pos' + chunk' <= Total'
    BY <1>c, <1>t, <1>i, <1>tot
  <1>1. CASE (header \/ reading = "payload") /\ complete(bufpos + 1, l)
    <2>1. /\ out' = Append(out, <<pos + 1 - HeaderLen - l, l>>)
          /\ reading' = "header" /\ bufpos' = 0 /\ len' = 0 /\ l = m
          /\ bufpos + 1 = HeaderLen + l
      BY <1>1, <1>p, <1>l DEF complete
    <2> DEFINE e == <<pos + 1 - HeaderLen - l, l>>
    <2>2. pos + 1 - HeaderLen - l = a
      BY <2>1, <1>z, <1>t, <1>l DEF HeaderLen
    <2>3. e \in Int \X (0..MaxPayload) /\ e = <<stream.start[k], stream.len[k]>>
      BY <2>1, <2>2, <1>a, <1>m, <1>l
    <2> HIDE DEF e
    <2>4. /\ out' = Append(out, e) /\ out' \in Seq(Int \X (0..MaxPayload))
          /\ Len(out') = k
          /\ out'[k] = e /\ \A i \in 1..Len(out) : out'[i] = out[i]
      BY <2>1, <2>3, <1>t, <1>d DEF e
    <2>5. TypeOK'
      BY <2>1, <2>4, <1>chunk, <1>c, <1>t DEF TypeOK, HeaderLen
    <2>6. InOrder'
      <3>1. \A i \in 1..Len(out) : out[i] = <<stream.start[i], stream.len[i]>>
        BY DEF IInv, InOrder
      <3>2. \A i \in 1..k : i \in 1..Len(out) \/ i = k
        BY <1>t, <1>d
      <3>3. \A i \in 1..Len(out') : out'[i] = <<stream'.start[i], stream'.len[i]>>
        BY <3>1, <3>2, <2>3, <2>4, <1>c
      <3> QED BY <3>3, <2>4, <1>r DEF InOrder
    <2>7. stream'.start[Len(out') + 1] = pos' /\ pos' \in Nat
      <3>1. pos + 1 = a + 4 + m
        BY <2>1, <1>z, <1>t, <1>l DEF HeaderLen
      <3>2. stream'.start[Len(out') + 1] = stream.start[k + 1]
        BY <2>4, <1>c
      <3> QED BY <3>1, <3>2, <1>z, <1>c, <1>t
    <2>8. InStep'
      BY <2>1, <2>4, <2>7, <1>chunk, <1>r DEF InStep, HeaderLen
    <2> QED BY <2>5, <2>6, <2>8 DEF IInv
  <1>2. CASE ~((header \/ reading = "payload") /\ complete(bufpos + 1, l))
    <2>1. /\ reading' = IF header THEN "payload" ELSE reading
          /\ bufpos' = bufpos + 1 /\ len' = l /\ out' = out
      BY <1>2, <1>p
    <2>2. bufpos' = pos' - stream'.start[Len(out') + 1]
      <3>1. stream'.start[Len(out') + 1] = a
        BY <2>1, <1>c, <1>d, <1>a
      <3> QED BY <3>1, <2>1, <1>c, <1>z, <1>t
    <2>3. reading' = "header" => bufpos' < HeaderLen
      BY <2>1, <1>i, <1>t DEF HeaderLen
    <2>4. reading' = "payload" =>
             /\ len' = stream'.len[Len(out') + 1]
             /\ HeaderLen <= bufpos' /\ bufpos' < HeaderLen + len'
      <3> SUFFICES ASSUME reading' = "payload"
                   PROVE  /\ len' = stream'.len[Len(out') + 1]
                          /\ HeaderLen <= bufpos' /\ bufpos' < HeaderLen + len'
        OBVIOUS
      <3>1. header \/ reading = "payload"
        BY <2>1
      <3>2. l = m /\ stream'.len[Len(out') + 1] = m
        BY <3>1, <1>l, <2>1, <1>c, <1>d, <1>m
      <3>3. bufpos + 1 # 4 + m
        BY <3>1, <3>2, <1>2 DEF complete, HeaderLen
      <3>4. 4 <= bufpos + 1 /\ bufpos < 4 + m
        <4>1. CASE header
          BY <4>1, <1>b DEF HeaderLen
        <4>2. CASE reading = "payload"
          <5>1. len = m /\ 4 <= bufpos /\ bufpos < 4 + len
            BY <4>2, <1>i, <1>m DEF HeaderLen
          <5> QED BY <5>1, <1>b
        <4> QED BY <3>1, <4>1, <4>2
      <3> QED BY <3>2, <3>3, <3>4, <2>1, <1>b DEF HeaderLen
    <2>5. bufpos' \in 0..(HeaderLen + MaxPayload - 1) /\ reading' \in {"header", "payload"}
      BY <2>1, <2>3, <2>4, <1>l, <1>t DEF HeaderLen
    <2>6. TypeOK'
      BY <2>1, <2>5, <1>chunk, <1>c, <1>t, <1>l DEF TypeOK
    <2>7. InOrder'
      BY <2>1, <1>c DEF InOrder, IInv
    <2>8. InStep'
      BY <2>1, <2>2, <2>3, <2>4, <1>chunk, <1>n, <1>t DEF InStep
    <2> QED BY <2>6, <2>7, <2>8 DEF IInv
  <1> QED
    BY <1>1, <1>2

(* No step of the client's loop leaves the invariant.                      *)
LEMMA FramingStep == IInv /\ [ClientNext]_vars => IInv'
  <1> SUFFICES ASSUME IInv, [ClientNext]_vars PROVE IInv'
    OBVIOUS
  <1>1. CASE ClientRecv
    <2>1. PICK n \in 1..RecvSize : Receive(n)
      BY <1>1 DEF ClientRecv
    <2>2. /\ UNCHANGED <<stream, pos, bufpos, reading, len, out>>
          /\ chunk' = n /\ n <= Total - pos /\ Total' = Total
      BY <2>1, <1>1 DEF ClientRecv, Receive, Total
    <2>3. Total \in Nat /\ pos \in Nat
      BY StreamAssumption DEF IInv, TypeOK, Total, IsStream
    <2>4. TypeOK'
      BY <2>2, StreamAssumption DEF IInv, TypeOK
    <2>5. InOrder'
      BY <2>2 DEF IInv, InOrder
    <2>6. InStep'
      BY <2>2, <2>3, StreamAssumption DEF IInv, InStep
    <2> QED BY <2>4, <2>5, <2>6 DEF IInv
  <1>2. CASE CopyByte
    BY <1>2, CopyStep
  <1>3. CASE UNCHANGED vars
    BY <1>3 DEF vars, IInv, TypeOK, InOrder, InStep, Total
  <1> QED
    BY <1>1, <1>2, <1>3 DEF ClientNext, Drained

(* The parser's variables keep their ranges: one message at most in        *)
(* msg_buffer.                                                             *)
THEOREM FramingType == ClientSpec => []TypeOK
  <1>1. IInv => TypeOK
    BY DEF IInv
  <1> QED
    BY FramingInit, FramingStep, <1>1, PTL DEF ClientSpec

(* The client hands on the messages sent, in order, however the stream is  *)
(* split between calls of recv.                                            *)
THEOREM FramingInOrder == ClientSpec => []InOrder
  <1>1. IInv => InOrder
    BY DEF IInv
  <1> QED
    BY FramingInit, FramingStep, <1>1, PTL DEF ClientSpec

(* The client never goes back to recv with a complete message unhandled.   *)
THEOREM FramingPrompt == ClientSpec => []Prompt
  <1>1. IInv => Prompt
    <2> SUFFICES ASSUME IInv PROVE Prompt
      OBVIOUS
    <2>1. /\ stream.start \in [1..(N + 1) -> Nat] /\ stream.len \in [1..N -> 0..MaxPayload]
          /\ \A i \in 1..N : stream.start[i + 1] = stream.start[i] + HeaderLen + stream.len[i]
          /\ N \in Nat /\ Len(out) \in Nat /\ pos \in Nat /\ len \in Nat
          /\ bufpos \in Nat /\ reading \in {"header", "payload"}
      BY StreamAssumption DEF IInv, TypeOK, IsStream, HeaderLen
    <2>2. /\ Len(out) <= N
          /\ bufpos = pos - stream.start[Len(out) + 1]
      BY DEF IInv, InStep
    <2>3. stream.start[Len(out) + 1] <= pos
      BY <2>1, <2>2
    <2>4. ASSUME Len(out) < N PROVE pos < stream.start[Len(out) + 2]
      <3>1. /\ Len(out) + 1 \in 1..N /\ Len(out) + 2 = (Len(out) + 1) + 1
            /\ stream.len[Len(out) + 1] \in Nat
        BY <2>1, <2>4
      <3>2. stream.start[Len(out) + 2] = stream.start[Len(out) + 1] + HeaderLen + stream.len[Len(out) + 1]
        BY <2>1, <3>1
      <3>3. PICK m \in Nat : m = stream.len[Len(out) + 1]
        BY <3>1
      <3>4. PICK a \in Nat : a = stream.start[Len(out) + 1]
        BY <2>1, <3>1
      <3>5. /\ reading = "header" => bufpos < HeaderLen
            /\ reading = "payload" => len = m /\ bufpos < HeaderLen + len
        BY <3>3 DEF IInv, InStep
      <3>7. stream.start[Len(out) + 2] = a + 4 + m
        BY <3>2, <3>3, <3>4 DEF HeaderLen
      <3>6. bufpos = pos - a
        BY <2>2, <3>4
      <3>b. bufpos \in Nat /\ reading \in {"header", "payload"} /\ pos \in Nat
        BY <2>1
      <3>h. CASE reading = "header"
        <4>1. bufpos < 4
          BY <3>h, <3>5 DEF HeaderLen
        <4> QED BY <4>1, <3>6, <3>7, <3>b
      <3>p. CASE reading = "payload"
        <4>1. bufpos < 4 + m
          BY <3>p, <3>5 DEF HeaderLen
        <4> QED BY <4>1, <3>6, <3>7, <3>b
      <3> QED BY <3>b, <3>h, <3>p
    <2> QED BY <2>3, <2>4 DEF Prompt
  <1> QED
    BY FramingInit, FramingStep, <1>1, PTL DEF ClientSpec
=============================================================================
