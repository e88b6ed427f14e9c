---------------------------- MODULE OpenSession -----------------------------
(***************************************************************************)
(* One Session driven by its application and by an unconstrained peer: any *)
(* packet of Inbound may arrive at any time, so what holds here does not   *)
(* depend on what the peer or the network does.                            *)
(***************************************************************************)
EXTENDS Session

CONSTANTS
  Inbound,         \* the packets that may arrive
  Requests,        \* what the application may hand to queue_send
  InitialSeqs,     \* the initial sequence numbers the constructor may draw
  MaxPendingSend,  \* bound: requests waiting in pending_send
  MaxEvents        \* bound: events waiting to be drained

ASSUME OpenSessionAssumption ==
  /\ Inbound \subseteq Packet
  /\ Requests \subseteq SendRequest
  /\ InitialSeqs \subseteq Seqs
  /\ MaxPendingSend \in Nat
  /\ MaxEvents \in Nat

VARIABLES
  session,       \* state_ of the Session
  last_ordered   \* history: seq of the last ReliableOrdered payload that
                 \* drain_events handed to the application, -1 before that

vars == <<session, last_ordered>>

NoneYet == -1

\* A client starts without conn_id; the server manager assigns one.
Init ==
  /\ \E i \in InitialSeqs :
       \/ session = NewSession("Client", i)
       \/ \E c \in ConnId \ {0} :
            session = [NewSession("Server", i) EXCEPT !.conn_id = c]
  /\ last_ordered = NoneYet

QueueSend(request) ==
  /\ Len(session.tx.pending_send) < MaxPendingSend
  /\ session' = queue_send(session, request)
  /\ UNCHANGED last_ordered

RequestClose ==
  /\ session' = request_close(session)
  /\ UNCHANGED last_ordered

PollTx(clock) ==
  /\ Len(session.rx.pending_events) < MaxEvents
  /\ session' = poll_tx(session, clock).session
  /\ UNCHANGED last_ordered

OnDatagramReceived(p, lingering) ==
  /\ Len(session.rx.pending_events) < MaxEvents
  /\ session' = on_datagram_received(session, p, lingering)
  /\ UNCHANGED last_ordered

IsOrderedData(event) ==
  event.type = "DataReceived" /\ event.channel_type = "ReliableOrdered"

\* The number of the last ReliableOrdered payload among the first n of events,
\* or last if there is none.
LastOrdered(events, last, n) ==
  LET ordered == {i \in 1 .. n : IsOrderedData(events[i])}
  IN  IF ordered = {} THEN last ELSE events[Max(ordered)].seq

DrainEvents ==
  LET events == session.rx.pending_events
  IN  /\ session' = [session EXCEPT !.rx = drain_events(@)]
      /\ last_ordered' = LastOrdered(events, last_ordered, Len(events))

Next ==
  \/ \E r \in Requests : QueueSend(r)
  \/ RequestClose
  \/ \E clock \in ClockReadings(session) : PollTx(clock)
  \/ \E p \in Inbound, lingering \in BOOLEAN : OnDatagramReceived(p, lingering)
  \/ DrainEvents

Spec == Init /\ [][Next]_vars

-----------------------------------------------------------------------------
\* Every field of the session has the type the code gives it.
TypeOK ==
  /\ session \in SessionState
  /\ last_ordered \in Seqs \cup {NoneYet}

\* TxHandler: whatever acknowledgements arrive (stale, reordered, from the
\* future, across the wrap-around), every unacknowledged packet is one of the
\* last ReliableWindowSize sequence numbers and no two share a number, so a
\* new packet never collides with one in flight (emplace would then drop it).
InflightInWindow ==
  /\ \A e \in session.tx.inflight :
       SeqSub(session.tx.next_seq, e.seq) \in 1 .. ReliableWindowSize
  /\ \A e, f \in session.tx.inflight : e.seq = f.seq => e = f

\* TxHandler::on_remote_ack: nothing that the last processed ack covers is
\* still in flight. With it InflightInWindow is inductive.
InflightNotAcked ==
  \A e \in session.tx.inflight : ~seq_lt(e.seq, session.tx.remote_ack)

\* ConnectionStateMachine and poll: each role stays on its side of the
\* handshake, and the work it schedules for itself is its own: only a server
\* owes a SYN-ACK, only a client owes a final ACK or waits for a PONG.
RoleDiscipline ==
  IF session.role = "Client"
  THEN /\ session.connection_state # "HandshakeReceived"
       /\ ~session.tx.syn_ack_pending
  ELSE /\ session.connection_state # "HandshakeSent"
       /\ ~session.tx.final_ack_pending
       /\ ~session.tx.ping_pending /\ ~session.tx.ping_outstanding

\* RxHandler: the ReliableOrdered payloads reach the application in
\* consecutive sequence order, none repeated, skipped or swapped, whatever
\* the order in which the packets arrive.
OrderedConsecutive ==
  LET events == session.rx.pending_events
      before(n) == LastOrdered(events, last_ordered, n - 1)
  IN  /\ \A n \in DOMAIN events :
           IsOrderedData(events[n]) /\ before(n) # NoneYet =>
             events[n].seq = SeqAdd(before(n), 1)
      /\ before(Len(events) + 1) # NoneYet =>
           session.rx.next_ordered_delivery = SeqAdd(before(Len(events) + 1), 1)

\* RxHandler: a buffered ordered packet whose turn has come is never left
\* waiting for another arrival.
NothingDeliverableBuffered ==
  ~Buffered(session.rx, session.rx.next_ordered_delivery)
=============================================================================
