------------------------------ MODULE UdpPath ------------------------------
(***************************************************************************)
(* Packets on their way from one application to another: encoded, handed   *)
(* to send_to, carried by UDP, taken by recv_from into a buffer of         *)
(* SocketBufferSize bytes and decoded.  The port is shared with datagrams  *)
(* that are no packets: too short for a header, or with fixed fields that  *)
(* do not fit (another version of the protocol).                           *)
(***************************************************************************)
EXTENDS Codec, FiniteSets

CONSTANTS Headers,          \* headers the sender uses
          Payloads,         \* payloads the sender uses
          Foreign,          \* headers of another version of the protocol
          Short,            \* datagrams shorter than a header
          SocketBufferSize, \* settings.runtime.socket_buffer_size
          MaxSent,          \* bound: packets handed to the socket
          MaxUnderWay       \* bound: datagrams under way at once

ASSUME UdpPathAssumption ==
    /\ Headers \subseteq {h \in Header : isValidHeader(h)}
    /\ Foreign \subseteq {h \in Header : ~isValidHeader(h)}
    /\ \A p \in Payloads : p \in Seq(Octet)
    /\ \A d \in Short : d \in Seq(Octet) /\ Len(d) < kHeaderLength
    /\ SocketBufferSize \in Nat /\ SocketBufferSize >= kHeaderLength

VARIABLES sent,      \* packets handed to send_to
          net,       \* datagrams under way
          received   \* packets the receiver decoded
vars == <<sent, net, received>>

PacketView == [header : Header, payload : Seq(Octet)]

Init == sent = {} /\ net = {} /\ received = {}

\* sendto succeeds, or it fails and the caller, which drops the result, goes
\* on as if it had succeeded.
send_to(header, payload) ==
    /\ Cardinality(sent) < MaxSent
    /\ Cardinality(net) < MaxUnderWay
    /\ sent' = sent \cup {[header |-> header, payload |-> payload]}
    /\ \/ net' = net \cup {encode(header, payload)}
       \/ net' = net
    /\ UNCHANGED received

\* A datagram of another version of the protocol reaches the port.
ForeignDatagram(header, payload) ==
    /\ Cardinality(net) < MaxUnderWay
    /\ net' = net \cup {encode(header, payload)}
    /\ UNCHANGED <<sent, received>>

ShortDatagram(datagram) ==
    /\ Cardinality(net) < MaxUnderWay
    /\ net' = net \cup {datagram}
    /\ UNCHANGED <<sent, received>>

\* The receiver's loop takes a datagram; UDP may deliver it again.
Receive(datagram) ==
    /\ received' = received \cup decode(recv_from(datagram, SocketBufferSize))
    /\ net' \in {net, net \ {datagram}}
    /\ UNCHANGED sent

Next == \/ \E h \in Headers, p \in Payloads : send_to(h, p)
        \/ \E h \in Foreign, p \in Payloads : ForeignDatagram(h, p)
        \/ \E d \in Short : ShortDatagram(d)
        \/ \E d \in net : Receive(d)

Spec == Init /\ [][Next]_vars

(***************************************************************************)
(* Every packet the receiver decodes is one that the sender encoded, with  *)
(* all its fields and its whole payload: encode, recv_from and decode      *)
(* neither change, confuse nor cut short what they carry, and no datagram  *)
(* that is shorter than a header or has an invalid one is taken for a      *)
(* packet.                                                                 *)
(***************************************************************************)
ReceivedAsSent == received \subseteq sent

\* The condition under which the property holds: the receiver's buffer has
\* room for the longest datagram of the sender.
PayloadsFit == \A p \in Payloads : kHeaderLength + Len(p) <= SocketBufferSize
=============================================================================
