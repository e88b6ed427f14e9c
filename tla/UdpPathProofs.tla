--------------------------- MODULE UdpPathProofs ---------------------------
(***************************************************************************)
(* The wire format is proved for every number of values of a byte, so for  *)
(* the 256 of the code, and for every header and payload.                  *)
(***************************************************************************)
EXTENDS UdpPath, TLAPS

\* The two facts about division that positional notation rests on.
LEMMA DivMod ==
    ASSUME NEW v \in Nat
    PROVE  /\ v \div ByteValues \in Nat
           /\ v % ByteValues \in 0 .. (ByteValues - 1)
           /\ (v \div ByteValues) * ByteValues + (v % ByteValues) = v
BY ByteValuesAssumption, SMTT(30)

LEMMA DivDiv ==
    ASSUME NEW v \in Nat, NEW m \in Nat, m > 0
    PROVE  v \div (m * ByteValues) = (v \div m) \div ByteValues
BY ByteValuesAssumption, SMTT(30)

\* What writeU32 (Utils.cpp) writes, readU32 reads back.
LEMMA U32RoundTrip ==
    ASSUME NEW v \in U32
    PROVE  /\ writeU32(v)[1] \in Nat /\ writeU32(v)[2] \in Nat
           /\ writeU32(v)[3] \in Nat /\ writeU32(v)[4] \in Nat
           /\ ((writeU32(v)[1] * ByteValues + writeU32(v)[2]) * ByteValues
                 + writeU32(v)[3]) * ByteValues + writeU32(v)[4] = v
<1> DEFINE q1 == v \div ByteValues
           q2 == q1 \div ByteValues
           q3 == q2 \div ByteValues
           q4 == q3 \div ByteValues
           B == ByteValues
<1>0. v \in Nat /\ B \in Nat /\ B > 1 /\ v < B * B * B * B
  BY ByteValuesAssumption DEF U32
<1>1. /\ q1 \in Nat /\ q2 \in Nat /\ q3 \in Nat /\ q4 \in Nat
      /\ v = q1 * B + (v % B) /\ q1 = q2 * B + (q1 % B)
      /\ q2 = q3 * B + (q2 % B) /\ q3 = q4 * B + (q3 % B)
      /\ v % B \in 0 .. (B - 1) /\ q1 % B \in 0 .. (B - 1)
      /\ q2 % B \in 0 .. (B - 1) /\ q3 % B \in 0 .. (B - 1)
  <2>1. v \in Nat BY <1>0, Zenon
  <2>2. q1 \in Nat BY <2>1, DivMod, Zenon
  <2>3. q2 \in Nat BY <2>2, DivMod, Zenon
  <2>4. q3 \in Nat BY <2>3, DivMod, Zenon
  <2> QED BY <2>1, <2>2, <2>3, <2>4, DivMod, Zenon
<1>2. /\ v \div (B * B) = q2 /\ v \div (B * B * B) = q3
      /\ v \div (B * B * B * B) = q4
  <2>1. B * B \in Nat /\ B * B > 0 BY <1>0
  <2>2. B * B * B \in Nat /\ B * B * B > 0 BY <2>1, <1>0
  <2>3. v \div (B * B) = q2 BY <1>0, DivDiv
  <2>4. v \div (B * B * B) = q3 BY <1>0, <2>1, <2>3, DivDiv, Zenon
  <2> QED BY <1>0, <2>2, <2>3, <2>4, DivDiv, Zenon
<1>3. q4 = 0
  <2> DEFINE W == B * B * B * B
  <2>1. W \in Nat /\ W > 0 /\ v < W BY <1>0
  <2> HIDE DEF W
  <2>2. v \div W = 0 BY <1>0, <2>1
  <2> QED BY <2>2, <1>2, Zenon DEF W
<1>4. writeU32(v) = <<q3 % B, q2 % B, q1 % B, v % B>>
  BY <1>2, Zenon DEF writeU32
<1>5. q3 = q3 % B BY <1>1, <1>3, <1>0
<1> HIDE DEF q1, q2, q3, q4
<1> QED BY <1>0, <1>1, <1>4, <1>5

\* The four bytes from position o + 1 on, read as a number.
LEMMA FieldRoundTrip ==
    ASSUME NEW v \in U32, NEW bytes, NEW o \in Nat,
           bytes[o + 1] = writeU32(v)[1], bytes[o + 2] = writeU32(v)[2],
           bytes[o + 3] = writeU32(v)[3], bytes[o + 4] = writeU32(v)[4]
    PROVE  readU32(bytes, o) = v
<1>1. ((writeU32(v)[1] * ByteValues + writeU32(v)[2]) * ByteValues
                 + writeU32(v)[3]) * ByteValues + writeU32(v)[4] = v
  BY U32RoundTrip, Zenon
<1> QED BY <1>1, Zenon DEF readU32

\* The types of the fields of a header, and of the bytes it is written as.
LEMMA HeaderTyped ==
    ASSUME NEW h \in Header
    PROVE  /\ h.conn_id \in U32 /\ h.seq \in U32 /\ h.ack \in U32
           /\ h.channel_id \in U32 /\ h.ack_bits \in U64
           /\ h.ack_bits.high \in U32 /\ h.ack_bits.low \in U32
           /\ \A i \in 1 .. 28 : HeaderByte(h, i) \in Nat
<1>1. /\ h.conn_id \in U32 /\ h.seq \in U32 /\ h.ack \in U32
      /\ h.channel_id \in U32 /\ h.ack_bits \in U64
      /\ h.channel_type \in Octet /\ h.flags \in Octet
      /\ h.header_len \in Octet /\ h.reserved \in Octet
  BY Zenon DEF Header
<1>2. h.ack_bits.high \in U32 /\ h.ack_bits.low \in U32
  BY <1>1, Zenon DEF U64
<1>3. /\ h.channel_type \in Nat /\ h.flags \in Nat
      /\ h.header_len \in Nat /\ h.reserved \in Nat
  <2>1. \A x \in Octet : x \in Nat BY DEF Octet
  <2> QED BY <1>1, <2>1, Zenon
<1>4. \A v \in U32, k \in 1 .. 4 : writeU32(v)[k] \in Nat
  <2> SUFFICES ASSUME NEW v \in U32, NEW k \in 1 .. 4 PROVE writeU32(v)[k] \in Nat
    BY Zenon
  <2>1. /\ writeU32(v)[1] \in Nat /\ writeU32(v)[2] \in Nat
        /\ writeU32(v)[3] \in Nat /\ writeU32(v)[4] \in Nat
    BY U32RoundTrip, Zenon
  <2> QED BY <2>1
<1>5. ASSUME NEW i \in 1 .. 28 PROVE HeaderByte(h, i) \in Nat
  <2>1. CASE i \in 1 .. 4
    <3>1. HeaderByte(h, i) = writeU32(h.conn_id)[i] BY <2>1 DEF HeaderByte
    <3> QED BY <2>1, <3>1, <1>1, <1>4, Zenon
  <2>2. CASE i \in 5 .. 8
    <3>1. HeaderByte(h, i) = writeU32(h.seq)[i - 4] BY <2>2 DEF HeaderByte
    <3>2. i - 4 \in 1 .. 4 BY <2>2
    <3> QED BY <3>1, <3>2, <1>1, <1>4, Zenon
  <2>3. CASE i \in 9 .. 12
    <3>1. HeaderByte(h, i) = writeU32(h.ack)[i - 8] BY <2>3 DEF HeaderByte
    <3>2. i - 8 \in 1 .. 4 BY <2>3
    <3> QED BY <3>1, <3>2, <1>1, <1>4, Zenon
  <2>4. CASE i \in 13 .. 16
    <3>1. HeaderByte(h, i) = writeU32(h.ack_bits.high)[i - 12]
      BY <2>4 DEF HeaderByte, writeU64
    <3>2. i - 12 \in 1 .. 4 BY <2>4
    <3> QED BY <3>1, <3>2, <1>2, <1>4, Zenon
  <2>5. CASE i \in 17 .. 20
    <3>1. HeaderByte(h, i) = writeU32(h.ack_bits.low)[i - 16]
      BY <2>5 DEF HeaderByte, writeU64
    <3>2. i - 16 \in 1 .. 4 BY <2>5
    <3> QED BY <3>1, <3>2, <1>2, <1>4, Zenon
  <2>6. CASE i \in 21 .. 24
    <3>1. HeaderByte(h, i) = writeU32(h.channel_id)[i - 20] BY <2>6 DEF HeaderByte
    <3>2. i - 20 \in 1 .. 4 BY <2>6
    <3> QED BY <3>1, <3>2, <1>1, <1>4, Zenon
  <2>7. CASE i \in 25 .. 28
    BY <2>7, <1>3 DEF HeaderByte
  <2> QED BY <2>1, <2>2, <2>3, <2>4, <2>5, <2>6, <2>7
<1> QED BY <1>1, <1>2, <1>5, Zenon

\* decode (Codec.cpp) returns exactly what encode was given, provided the
\* header is valid, and nothing otherwise.
LEMMA RoundTrip ==
    ASSUME NEW h \in Header, NEW p \in Seq(Octet)
    PROVE  /\ encode(h, p) \in Seq(Nat)
           /\ Len(encode(h, p)) = kHeaderLength + Len(p)
           /\ decode(encode(h, p)) =
                IF isValidHeader(h) THEN {[header |-> h, payload |-> p]} ELSE {}
<1> DEFINE b == encode(h, p)
           n == 28 + Len(p)
<1>1. Len(p) \in Nat /\ n \in Nat /\ n >= 28
  OBVIOUS
<1>2. b = [i \in 1 .. n |-> IF i <= 28 THEN HeaderByte(h, i) ELSE p[i - 28]]
  BY Zenon DEF encode, kHeaderLength
<1>3. \A i \in 1 .. 28 : b[i] = HeaderByte(h, i)
  <2> HIDE DEF n, b
  <2> QED BY <1>1, <1>2
<1>4. \A i \in 1 .. Len(p) : b[28 + i] = p[i]
  <2>1. \A i \in 1 .. Len(p) : 28 + i \in 1 .. n /\ 28 + i > 28 /\ (28 + i) - 28 = i
    BY <1>1
  <2> HIDE DEF b, n
  <2> QED BY <1>1, <1>2, <2>1
<1>5. \A i \in 1 .. Len(p) : p[i] \in Nat
  <2>1. \A i \in 1 .. Len(p) : p[i] \in Octet OBVIOUS
  <2>2. \A x \in Octet : x \in Nat BY DEF Octet
  <2> QED BY <2>1, <2>2, Zenon
<1>6. b \in Seq(Nat) /\ Len(b) = n
  <2>1. ASSUME NEW i \in 1 .. n
        PROVE  (IF i <= 28 THEN HeaderByte(h, i) ELSE p[i - 28]) \in Nat
    <3>1. CASE i <= 28
      <4>1. i \in 1 .. 28 BY <3>1, <1>1
      <4> QED BY <4>1, <3>1, HeaderTyped, Zenon
    <3>2. CASE i > 28
      <4>1. i - 28 \in 1 .. Len(p) BY <3>2, <1>1
      <4> QED BY <3>2, <4>1, <1>5, <1>1
    <3> QED BY <3>1, <3>2, <1>1
  <2> HIDE DEF n, b
  <2> QED BY <1>1, <1>2, <2>1
<1>7. HeaderOf(b) = h
  <2> HIDE DEF b
  <2>0. /\ h.conn_id \in U32 /\ h.seq \in U32 /\ h.ack \in U32
        /\ h.channel_id \in U32 /\ h.ack_bits \in U64
        /\ h.ack_bits.high \in U32 /\ h.ack_bits.low \in U32
    BY HeaderTyped, Zenon
  <2>1. readU32(b, 0) = h.conn_id
    <3>1. /\ b[1] = writeU32(h.conn_id)[1] /\ b[2] = writeU32(h.conn_id)[2]
          /\ b[3] = writeU32(h.conn_id)[3] /\ b[4] = writeU32(h.conn_id)[4]
      BY <1>3 DEF HeaderByte
    <3> QED BY <3>1, <2>0, FieldRoundTrip
  <2>2. readU32(b, 4) = h.seq
    <3>1. /\ b[5] = writeU32(h.seq)[1] /\ b[6] = writeU32(h.seq)[2]
          /\ b[7] = writeU32(h.seq)[3] /\ b[8] = writeU32(h.seq)[4]
      BY <1>3 DEF HeaderByte
    <3> QED BY <3>1, <2>0, FieldRoundTrip
  <2>3. readU32(b, 8) = h.ack
    <3>1. /\ b[9] = writeU32(h.ack)[1] /\ b[10] = writeU32(h.ack)[2]
          /\ b[11] = writeU32(h.ack)[3] /\ b[12] = writeU32(h.ack)[4]
      BY <1>3 DEF HeaderByte
    <3> QED BY <3>1, <2>0, FieldRoundTrip
  <2>4. readU32(b, 12) = h.ack_bits.high
    <3>1. /\ b[13] = writeU32(h.ack_bits.high)[1] /\ b[14] = writeU32(h.ack_bits.high)[2]
          /\ b[15] = writeU32(h.ack_bits.high)[3] /\ b[16] = writeU32(h.ack_bits.high)[4]
      BY <1>3 DEF HeaderByte, writeU64
    <3> QED BY <3>1, <2>0, FieldRoundTrip
  <2>5. readU32(b, 16) = h.ack_bits.low
    <3>1. /\ b[17] = writeU32(h.ack_bits.low)[1] /\ b[18] = writeU32(h.ack_bits.low)[2]
          /\ b[19] = writeU32(h.ack_bits.low)[3] /\ b[20] = writeU32(h.ack_bits.low)[4]
      BY <1>3 DEF HeaderByte, writeU64
    <3> QED BY <3>1, <2>0, FieldRoundTrip
  <2>6. readU32(b, 20) = h.channel_id
    <3>1. /\ b[21] = writeU32(h.channel_id)[1] /\ b[22] = writeU32(h.channel_id)[2]
          /\ b[23] = writeU32(h.channel_id)[3] /\ b[24] = writeU32(h.channel_id)[4]
      BY <1>3 DEF HeaderByte
    <3> QED BY <3>1, <2>0, FieldRoundTrip
  <2>7. /\ b[25] = h.channel_type /\ b[26] = h.flags
        /\ b[27] = h.header_len /\ b[28] = h.reserved
    BY <1>3 DEF HeaderByte
  <2>8. readU64(b, 12) = h.ack_bits
    BY <2>0, <2>4, <2>5 DEF readU64, U64
  <2> QED BY <2>1, <2>2, <2>3, <2>6, <2>7, <2>8, Zenon DEF HeaderOf, Header
<1>8. SubSeq(b, 29, Len(b)) = p
  <2> HIDE DEF b
  <2>1. /\ SubSeq(b, 29, n) = [i \in 1 .. Len(p) |-> b[28 + i]]
    BY <1>1, <1>6
  <2> HIDE DEF n
  <2>2. p = [i \in 1 .. Len(p) |-> p[i]] OBVIOUS
  <2> QED BY <2>1, <2>2, <1>6, <1>4, Zenon
<1>9. decode(b) = IF isValidHeader(h) THEN {[header |-> h, payload |-> p]} ELSE {}
  <2>1. Len(b) >= kHeaderLength BY <1>1, <1>6, Zenon DEF kHeaderLength
  <2>2. SubSeq(b, kHeaderLength + 1, Len(b)) = p BY <1>8 DEF kHeaderLength
  <2> HIDE DEF b
  <2> QED BY <2>1, <2>2, <1>7, Zenon DEF decode
<1> QED BY <1>6, <1>9, Zenon DEF kHeaderLength

-----------------------------------------------------------------------------
\* The strengthening: whatever is under way is the encoding of a packet the
\* sender handed over or of a foreign header.  ReceivedAsSent alone says
\* nothing about the datagram the next Receive takes.
WireInv ==
    /\ sent \subseteq [header : Headers, payload : Payloads]
    /\ \A d \in net :
         \/ \E s \in sent : d = encode(s.header, s.payload)
         \/ \E h \in Foreign, p \in Payloads : d = encode(h, p)
         \/ d \in Short
    /\ ReceivedAsSent

\* A datagram that fits into the buffer is taken whole.
LEMMA FitsUncut ==
    ASSUME PayloadsFit, NEW h \in Header, NEW p \in Payloads
    PROVE  recv_from(encode(h, p), SocketBufferSize) = encode(h, p)
<1> DEFINE b == encode(h, p)
<1>0. p \in Seq(Octet) BY UdpPathAssumption, Zenon
<1>1. b \in Seq(Nat) /\ Len(b) = kHeaderLength + Len(p) BY <1>0, RoundTrip, Zenon
<1>2. Len(b) <= SocketBufferSize BY <1>1, <1>0, Zenon DEF PayloadsFit
<1>3. SubSeq(b, 1, Len(b)) = b
  <2> HIDE DEF b
  <2> QED BY <1>1
<1> HIDE DEF b
<1>4. recv_from(b, SocketBufferSize) = b BY <1>2, <1>3, Zenon DEF recv_from
<1> QED BY <1>4, Zenon DEF b

\* Under PayloadsFit, what one Receive decodes was sent.
LEMMA DecodedWasSent ==
    ASSUME PayloadsFit, WireInv, NEW d \in net
    PROVE  decode(recv_from(d, SocketBufferSize)) \subseteq sent
<1>1. CASE \E s \in sent : d = encode(s.header, s.payload)
  <2> PICK s \in sent : d = encode(s.header, s.payload) BY <1>1, Zenon
  <2>1. /\ s.header \in Headers /\ s.payload \in Payloads
        /\ s = [header |-> s.header, payload |-> s.payload]
    BY Zenon DEF WireInv
  <2>2. s.header \in Header /\ isValidHeader(s.header) /\ s.payload \in Seq(Octet)
    BY <2>1, UdpPathAssumption, Zenon
  <2>3. recv_from(d, SocketBufferSize) = d BY <2>1, <2>2, FitsUncut, Zenon
  <2>4. decode(d) = {[header |-> s.header, payload |-> s.payload]}
    BY <2>2, RoundTrip, Zenon
  <2> QED BY <2>1, <2>3, <2>4, Zenon
<1>2. CASE \E h \in Foreign, p \in Payloads : d = encode(h, p)
  <2> PICK h \in Foreign, p \in Payloads : d = encode(h, p) BY <1>2, Zenon
  <2>1. h \in Header /\ ~isValidHeader(h) /\ p \in Seq(Octet)
    BY UdpPathAssumption, Zenon
  <2>2. recv_from(d, SocketBufferSize) = d BY <2>1, FitsUncut, Zenon
  <2>3. decode(d) = {} BY <2>1, RoundTrip, Zenon
  <2> QED BY <2>2, <2>3, Zenon
<1>3. CASE d \in Short
  <2>1. d \in Seq(Octet) /\ Len(d) < kHeaderLength BY <1>3, UdpPathAssumption, Zenon
  <2>2. Len(d) <= SocketBufferSize /\ ~(Len(d) >= kHeaderLength) /\ SubSeq(d, 1, Len(d)) = d
    BY <2>1, UdpPathAssumption DEF kHeaderLength
  <2>3. recv_from(d, SocketBufferSize) = d BY <2>2, Zenon DEF recv_from
  <2>4. decode(d) = {} BY <2>2, Zenon DEF decode
  <2> QED BY <2>3, <2>4, Zenon
<1> QED BY <1>1, <1>2, <1>3, Zenon DEF WireInv

(***************************************************************************)
(* As long as every datagram fits into the receiver's buffer, a packet is  *)
(* decoded (Codec.cpp, decode) exactly as it was encoded, or not at all,   *)
(* whatever is lost, repeated, reordered or sent by other programs.        *)
(***************************************************************************)
THEOREM WireFaithful ==
    ASSUME PayloadsFit
    PROVE  Spec => []ReceivedAsSent
<1>1. Init => WireInv
  BY Zenon DEF Init, WireInv, ReceivedAsSent
<1>2. WireInv /\ [Next]_vars => WireInv'
  <2> SUFFICES ASSUME WireInv, [Next]_vars PROVE WireInv' BY Zenon
  <2>1. CASE \E h \in Headers, p \in Payloads : send_to(h, p)
    <3> PICK h \in Headers, p \in Payloads : send_to(h, p) BY <2>1, Zenon
    <3> DEFINE s == [header |-> h, payload |-> p]
    <3>1. /\ sent' = sent \cup {s} /\ net' \subseteq net \cup {encode(h, p)}
          /\ received' = received
      BY Zenon DEF send_to
    <3>2. s \in sent' /\ encode(s.header, s.payload) = encode(h, p)
      BY <3>1, Zenon
    <3>3. \A d \in net' :
            \/ \E x \in sent' : d = encode(x.header, x.payload)
            \/ \E f \in Foreign, q \in Payloads : d = encode(f, q)
            \/ d \in Short
      <4> HIDE DEF s
      <4> QED BY <3>1, <3>2, Zenon DEF WireInv
    <3>4. s \in [header : Headers, payload : Payloads] BY Zenon
    <3> HIDE DEF s
    <3> QED BY <3>1, <3>3, <3>4, Zenon DEF WireInv, ReceivedAsSent
  <2>2. CASE \E h \in Foreign, p \in Payloads : ForeignDatagram(h, p)
    BY <2>2, Zenon DEF ForeignDatagram, WireInv, ReceivedAsSent
  <2>3. CASE \E d \in Short : ShortDatagram(d)
    BY <2>3, Zenon DEF ShortDatagram, WireInv, ReceivedAsSent
  <2>4. CASE \E d \in net : Receive(d)
    <3> PICK d \in net : Receive(d) BY <2>4, Zenon
    <3>1. decode(recv_from(d, SocketBufferSize)) \subseteq sent
      BY DecodedWasSent, Zenon
    <3>2. /\ received' = received \cup decode(recv_from(d, SocketBufferSize))
          /\ net' \subseteq net /\ sent' = sent
      BY Zenon DEF Receive
    <3> QED BY <3>1, <3>2, Zenon DEF WireInv, ReceivedAsSent
  <2>5. CASE UNCHANGED vars
    BY <2>5, Zenon DEF vars, WireInv, ReceivedAsSent
  <2> QED BY <2>1, <2>2, <2>3, <2>4, <2>5, Zenon DEF Next
<1>3. WireInv => ReceivedAsSent BY Zenon DEF WireInv
<1> QED BY <1>1, <1>2, <1>3, PTL DEF Spec
=============================================================================
