---------------------------- MODULE MC_ServerApp ----------------------------
EXTENDS ServerApp

NoVersions == [p \in Payload |-> NoVersion]

EndpointSymmetry == Permutations(Endpoint)

InboundPacket(conn_id, seq, type, flags, payload) ==
  [conn_id |-> conn_id, seq |-> seq, ack |-> 4, ack_bits |-> {},
   channel_id |-> 0, channel_type |-> type, flags |-> flags,
   payload |-> payload]

\* What clients that draw 2 send to sessions that draw 3: SYN, then the final
\* ACK, one message, FIN and RST under every number the server may assign.
ClientPackets ==
  {InboundPacket(0, 2, "Unreliable", {"Syn"}, NoPayload)} \cup
  UNION {{InboundPacket(c, 0, "Unreliable", {"Ack"}, NoPayload),
          InboundPacket(c, 3, "ReliableUnordered", {}, "a"),
          InboundPacket(c, 4, "Unreliable", {"Fin"}, NoPayload),
          InboundPacket(c, 0, "Unreliable", {"Rst"}, NoPayload)} :
            c \in ConnId \ {0}}

ASSUME ClientsConform == PeersConform

TwoChannels == << [id |-> 0, type |-> "Unreliable", is_default |-> FALSE],
                  [id |-> 1, type |-> "Unreliable", is_default |-> TRUE] >>
=============================================================================
