------------------------------- MODULE Codec -------------------------------
(***************************************************************************)
(* The wire format of a packet (Codec.cpp, the byte helpers of Utils.cpp)  *)
(* and the socket that carries it (BsdUdpSocket.cpp).  Numbers of several  *)
(* bytes are written big-endian, byte by byte, at fixed offsets.           *)
(***************************************************************************)
EXTENDS Integers, Sequences

CONSTANT ByteValues    \* values of one byte of a number: 256 in the code

ASSUME ByteValuesAssumption == ByteValues \in Nat /\ ByteValues > 1

kHeaderLength == 28
Octet == 0 .. 255
U32 == 0 .. (ByteValues * ByteValues * ByteValues * ByteValues - 1)
\* The low and the high half of a 64-bit number.
U64 == [high : U32, low : U32]

Header == [conn_id : U32, seq : U32, ack : U32, ack_bits : U64,
           channel_id : U32, channel_type : Octet, flags : Octet,
           header_len : Octet, reserved : Octet]

writeU32(value) ==
    << (value \div (ByteValues * ByteValues * ByteValues)) % ByteValues,
       (value \div (ByteValues * ByteValues)) % ByteValues,
       (value \div ByteValues) % ByteValues,
       value % ByteValues >>

\* Offsets count from 0, as in the code; sequences count from 1.
readU32(bytes, offset) ==
    ((bytes[offset + 1] * ByteValues + bytes[offset + 2]) * ByteValues
        + bytes[offset + 3]) * ByteValues + bytes[offset + 4]

\* Eight bytes, the most significant first: the high half, then the low half.
writeU64(value) == << writeU32(value.high), writeU32(value.low) >>
readU64(bytes, offset) ==
    [high |-> readU32(bytes, offset), low |-> readU32(bytes, offset + 4)]

isValidHeader(header) ==
    /\ header.header_len = kHeaderLength
    /\ header.reserved = 0
    /\ header.channel_type <= 3
    /\ header.flags < 64          \* (flags & 0xc0) == 0

\* Byte i (from 1) of the fixed header.
HeaderByte(header, i) ==
    CASE i \in 1 .. 4   -> writeU32(header.conn_id)[i]
      [] i \in 5 .. 8   -> writeU32(header.seq)[i - 4]
      [] i \in 9 .. 12  -> writeU32(header.ack)[i - 8]
      [] i \in 13 .. 16 -> writeU64(header.ack_bits)[1][i - 12]
      [] i \in 17 .. 20 -> writeU64(header.ack_bits)[2][i - 16]
      [] i \in 21 .. 24 -> writeU32(header.channel_id)[i - 20]
      [] i = 25 -> header.channel_type
      [] i = 26 -> header.flags
      [] i = 27 -> header.header_len
      [] i = 28 -> header.reserved

encode(header, payload) ==
    [i \in 1 .. (kHeaderLength + Len(payload)) |->
        IF i <= kHeaderLength THEN HeaderByte(header, i)
                              ELSE payload[i - kHeaderLength]]

HeaderOf(bytes) ==
    [conn_id |-> readU32(bytes, 0), seq |-> readU32(bytes, 4),
     ack |-> readU32(bytes, 8), ack_bits |-> readU64(bytes, 12),
     channel_id |-> readU32(bytes, 20), channel_type |-> bytes[25],
     flags |-> bytes[26], header_len |-> bytes[27], reserved |-> bytes[28]]

\* Mutant: the header is not validated.
decode_unchecked(bytes) ==
    IF Len(bytes) >= kHeaderLength
    THEN {[header |-> HeaderOf(bytes),
           payload |-> SubSeq(bytes, kHeaderLength + 1, Len(bytes))]}
    ELSE {}

\* std::optional<PacketView>: at most one packet.
decode(bytes) ==
    IF Len(bytes) >= kHeaderLength /\ isValidHeader(HeaderOf(bytes))
    THEN {[header |-> HeaderOf(bytes),
           payload |-> SubSeq(bytes, kHeaderLength + 1, Len(bytes))]}
    ELSE {}

\* recvfrom into a buffer of buffer_size bytes: the rest of a longer datagram
\* is discarded, and the result says nothing about it.
recv_from(datagram, buffer_size) ==
    SubSeq(datagram, 1, IF Len(datagram) <= buffer_size
                        THEN Len(datagram) ELSE buffer_size)
=============================================================================
