--------------------------- MODULE MC_OpenSession ---------------------------
EXTENDS OpenSession

NoVersions == [p \in Payload |-> NoVersion]

Msg(conn_id, seq, ack, bits, type, flags, payload) ==
  [conn_id |-> conn_id, seq |-> seq, ack |-> ack, ack_bits |-> bits,
   channel_id |-> IF flags = {} THEN 1 ELSE 0, channel_type |-> type,
   flags |-> flags, payload |-> payload]

Control(conn_id, seq, ack, flags) ==
  Msg(conn_id, seq, ack, {}, "Unreliable", flags, NoPayload)

\* Every acknowledgement there is, on a packet that carries nothing else.
AckInbound ==
  {Msg(1, 0, ack, bits, "Unreliable", {"Pong"}, NoPayload) :
     ack \in Seqs, bits \in SUBSET BitIndex}
  \cup {Control(1, 3, 3, f) : f \in {{"Syn"}, {"Syn", "Ack"}, {"Ack"}}}

WindowRequests ==
  {[channel_id |-> 1, channel_type |-> "ReliableUnordered", payload |-> "a"]}

\* Ordered and unordered data with any sequence number, before and after the
\* session is established.
DataInbound ==
  {Msg(1, seq, 2, {}, type, {}, "a") :
     seq \in Seqs, type \in {"ReliableOrdered", "ReliableUnordered"}}

\* Every control packet, valid or not, under this and another conn_id.
ControlInbound ==
  {Control(c, seq, ack, f) :
     c \in {1, 2}, seq \in {0, 3}, ack \in {2, 3},
     f \in {{g} : g \in Flag} \cup {{"Syn", "Ack"}, {"Syn", "Fin"}}}

\* Three peers, one per behaviour: one that acknowledges anything while the
\* application sends, one that sends data in any order, and one that sends any
\* control packet while every deadline may pass.
VARIABLE peer

Peers ==
  [acks |-> [inbound |-> AckInbound, requests |-> WindowRequests,
             deadlines |-> {"rto"}, initial_seq |-> 4, conn_ids |-> {0, 1}],
   data |-> [inbound |-> DataInbound, requests |-> {},
             deadlines |-> {}, initial_seq |-> 1, conn_ids |-> {0, 1}],
   control |-> [inbound |-> ControlInbound, requests |-> {},
                deadlines |-> Deadlines, initial_seq |-> 2, conn_ids |-> ConnId]]

AllInbound == UNION {Peers[k].inbound : k \in DOMAIN Peers}
AllInitialSeqs == {Peers[k].initial_seq : k \in DOMAIN Peers}

MCInit ==
  /\ Init
  /\ peer \in DOMAIN Peers
  /\ session.tx.next_seq = Peers[peer].initial_seq
  /\ session.conn_id \in Peers[peer].conn_ids

\* The readings in which only the given deadlines have passed.
PeerClocks(deadlines) ==
  {c \in ClockReadings(session) :
     /\ \A d \in {"idle", "reliable_ack", "activity_ack", "probe"} \ deadlines : ~c[d]
     /\ "rto" \notin deadlines => c.expired = {}}

MCNext ==
  /\ \/ \E r \in Peers[peer].requests : QueueSend(r)
     \/ RequestClose
     \/ \E clock \in PeerClocks(Peers[peer].deadlines) : PollTx(clock)
     \/ \E p \in Peers[peer].inbound, lingering \in BOOLEAN :
          OnDatagramReceived(p, lingering)
     \/ DrainEvents
  /\ UNCHANGED peer

MCSpec == MCInit /\ [][MCNext]_<<vars, peer>>
=============================================================================
