------------------------------ MODULE Protocol ------------------------------
(***************************************************************************)
(* The wire vocabulary of RUDP (include/Rudp/Protocol.hpp): sequence       *)
(* numbers with wrap-around comparison, channel types, flags, headers.     *)
(* A bitmap (ack_bits, received_bits) is the set of the indices of its     *)
(* bits that are 1; a flags byte is the set of its flags.                  *)
(***************************************************************************)
EXTENDS Integers, Sequences, FiniteSets

CONSTANTS
  Half,               \* half of the sequence space: 2^31 in the code
  AckBitsWindow,      \* kAckBitsWindow: 64 in the code
  ReliableWindowSize, \* kReliableWindowSize: 64 in the code
  ConnId,             \* connection identifiers; 0 is "not assigned yet"
  ChannelId,          \* channel identifiers; 0 is the internal one
  Payload,            \* application payloads
  NoPayload,          \* the empty payload of control packets
  VersionOf           \* the 32-bit version a payload starts with

SeqMod == 2 * Half
Seqs == 0 .. SeqMod - 1
BitIndex == 0 .. AckBitsWindow - 1

\* "The payload is shorter than four bytes": it has no version to compare.
NoVersion == -1

ASSUME ProtocolAssumption ==
  /\ Half \in Nat
  /\ AckBitsWindow \in Nat \ {0}
  /\ ReliableWindowSize \in Nat \ {0}
  /\ ReliableWindowSize < Half
  /\ AckBitsWindow < Half
  /\ 0 \in ConnId
  /\ 0 \in ChannelId
  /\ NoPayload \in Payload
  /\ VersionOf \in [Payload -> Seqs \cup {NoVersion}]

-----------------------------------------------------------------------------
\* uint32_t arithmetic, on the ring of SeqMod numbers (0 <= n <= SeqMod).
SeqAdd(s, n) == IF s + n >= SeqMod THEN s + n - SeqMod ELSE s + n
SeqSub(a, b) == IF a >= b THEN a - b ELSE a - b + SeqMod

\* static_cast<int32_t>(lhs - rhs) < 0: the difference has its top bit set.
seq_lt(lhs, rhs) == SeqSub(lhs, rhs) >= Half
seq_le(lhs, rhs) == lhs = rhs \/ seq_lt(lhs, rhs)
seq_gt(lhs, rhs) == seq_lt(rhs, lhs)

ChannelType == {"ReliableOrdered", "ReliableUnordered", "Unreliable",
                "MonotonicState"}
isReliableChannel(type) == type \in {"ReliableOrdered", "ReliableUnordered"}

Flag == {"Syn", "Fin", "Rst", "Ping", "Pong", "Ack"}

\* A decoded datagram: header and payload.
Packet == [conn_id: ConnId, seq: Seqs, ack: Seqs, ack_bits: SUBSET BitIndex,
           channel_id: ChannelId, channel_type: ChannelType,
           flags: SUBSET Flag, payload: Payload]

\* What is handed to queue_send.
SendRequest == [channel_id: ChannelId, channel_type: ChannelType,
                payload: Payload]
=============================================================================
