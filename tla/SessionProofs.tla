---------------------------- MODULE SessionProofs ----------------------------
(***************************************************************************)
(* What the functions of Session, TxHandler and RxHandler keep, for every  *)
(* value of the constants: every window size, sequence space, retry limit  *)
(* and threshold, every packet and every clock reading. The theorems about *)
(* the modules that own sessions rest on these lemmas.                     *)
(***************************************************************************)
EXTENDS Session, WellFoundedInduction, TLAPS

-----------------------------------------------------------------------------
\* Sequence arithmetic and minima

\* Adding on the ring stays on the ring.
LEMMA SeqAddType ==
  ASSUME NEW s \in Seqs, NEW n \in 0 .. SeqMod
  PROVE  SeqAdd(s, n) \in Seqs
BY ProtocolAssumption DEF Seqs, SeqMod, SeqAdd

\* A nonempty set of naturals has the minimum that Min denotes.
LEMMA MinOfNats ==
  ASSUME NEW S, S \subseteq Nat, S # {}
  PROVE  Min(S) \in S /\ \A y \in S : Min(S) <= y
<1>1. \E x \in S : \A y \in S : ~(<<y, x>> \in OpToRel(<, Nat))
  BY NatLessThanWellFounded, WFMin, Zenon
<1>2. PICK x \in S : \A y \in S : ~(<<y, x>> \in OpToRel(<, Nat))
  BY <1>1, Zenon
<1>3. \A y \in S : x <= y
  <2>1. TAKE y \in S
  <2>2. x \in Nat /\ y \in Nat
    BY Zenon
  <2>3. ~(y < x)
    BY <1>2, <2>2, Zenon DEF OpToRel
  <2>4. QED
    BY <2>2, <2>3
<1>4. QED
  BY <1>3, Zenon DEF Min

\* Induction on the rounds of a loop, for a set of rounds.
LEMMA Rounds ==
  ASSUME NEW N \in Nat, NEW S, 0 \in S, \A k \in 1 .. N : k - 1 \in S => k \in S
  PROVE  \A n \in 0 .. N : n \in S
<1> DEFINE Bad == {n \in 0 .. N : n \notin S}
<1>1. SUFFICES ASSUME Bad # {} PROVE FALSE BY Zenon
<1>2. Bad \subseteq Nat OBVIOUS
<1> DEFINE n == Min(Bad)
<1> HIDE DEF Bad
<1>3. n \in Bad /\ \A y \in Bad : n <= y BY <1>1, <1>2, MinOfNats, Zenon
<1> HIDE DEF n
<1>4. n \in 0 .. N /\ n \notin S BY <1>3, Zenon DEF Bad
<1>5. n # 0 BY <1>4, Zenon
<1>6. n \in 1 .. N /\ n - 1 \in 0 .. N /\ ~(n <= n - 1) BY <1>4, <1>5
<1>7. n - 1 \in S BY <1>3, <1>6, Zenon DEF Bad
<1> QED BY <1>4, <1>6, <1>7, Zenon

\* A nonempty set of naturals below a bound has a maximum.
LEMMA MaxOfBounded ==
  ASSUME NEW S, NEW n \in Nat, S \subseteq 0 .. n, S # {}
  PROVE  Max(S) \in S /\ \A y \in S : Max(S) >= y
<1> DEFINE T == {k \in 0 .. n : n - k \in S}
<1>1. T \subseteq Nat /\ T # {}
  <2>1. PICK x \in S : TRUE
    BY Zenon
  <2>2. n - x \in 0 .. n /\ n - (n - x) = x
    BY <2>1
  <2>3. n - x \in T
    BY <2>1, <2>2, Zenon
  <2>4. T \subseteq Nat
    OBVIOUS
  <2> HIDE DEF T
  <2>5. QED
    BY <2>3, <2>4, Zenon
<1>2. Min(T) \in T /\ \A y \in T : Min(T) <= y
  BY <1>1, MinOfNats, Zenon
<1> DEFINE m == Min(T)
<1>3. n - m \in S
  BY <1>2, Zenon
<1>4. \A y \in S : n - m >= y
  <2>1. TAKE y \in S
  <2>2. y \in 0 .. n /\ n - y \in 0 .. n /\ n - (n - y) = y
    OBVIOUS
  <2>3. n - y \in T
    BY <2>2, Zenon
  <2>4. m <= n - y /\ m \in 0 .. n
    BY <1>2, <2>3, Zenon
  <2>5. QED
    BY <2>2, <2>4
<1>5. QED
  BY <1>3, <1>4, Zenon DEF Max

-----------------------------------------------------------------------------
\* Types of the receive half

\* Emitting an event keeps the receive state well typed.
LEMMA EmitType ==
  ASSUME NEW rx \in RxSessionState, NEW event \in SessionEvent
  PROVE  emit(rx, event) \in RxSessionState
<1>1. Append(rx.pending_events, event) \in Seq(SessionEvent)
  BY DEF RxSessionState
<1>2. QED
  BY <1>1, Zenon DEF emit, RxSessionState

\* RxHandler::update_reliable_receive_state: the front stays a sequence number
\* and the bitmap within its width.
LEMMA UpdateReceiveType ==
  ASSUME NEW rx \in RxSessionState, NEW p \in Packet, NEW kind
  PROVE  update_reliable_receive_state(rx, p, kind) \in RxSessionState
<1> DEFINE front == [rx EXCEPT !.next_expected = ReceiveFront(rx, p)]
<1>1. ReceiveFront(rx, p) \in Seqs
  BY Zenon DEF ReceiveFront, RxSessionState, Packet
<1>2. front \in RxSessionState
  BY <1>1, Zenon DEF RxSessionState
<1>3. ASSUME NEW r \in RxSessionState
      PROVE  advance_receive_window(r) \in RxSessionState
  <2> DEFINE ones == TrailingOnes(r.received_bits)
  <2>1. {i \in 0 .. AckBitsWindow : i \notin r.received_bits} # {}
    <3>1. AckBitsWindow \in 0 .. AckBitsWindow /\ AckBitsWindow \notin BitIndex
      BY ProtocolAssumption DEF BitIndex
    <3>2. r.received_bits \subseteq BitIndex
      BY Zenon DEF RxSessionState
    <3>3. QED
      BY <3>1, <3>2, Zenon
  <2>2. {i \in 0 .. AckBitsWindow : i \notin r.received_bits} \subseteq Nat
    OBVIOUS
  <2>3. ones \in 0 .. AckBitsWindow
    BY <2>1, <2>2, MinOfNats, Zenon DEF TrailingOnes
  <2>4. 1 + ones \in 0 .. SeqMod
    BY <2>3, ProtocolAssumption DEF SeqMod
  <2>5. SeqAdd(r.next_expected, 1 + ones) \in Seqs
    BY <2>4, SeqAddType, Zenon DEF RxSessionState
  <2>6. {i \in BitIndex : i + ones \in r.received_bits} \in SUBSET BitIndex
    BY Zenon
  <2>7. QED
    BY <2>5, <2>6, Zenon DEF advance_receive_window, RxSessionState
<1>4. InAckBitmap(rx, p) => BitOf(rx, p) \in BitIndex
  <2>1. p.seq \in Seqs
    BY Zenon DEF Packet
  <2>2. QED
    BY <1>1, <2>1, ProtocolAssumption
    DEF InAckBitmap, BitOf, BitIndex, Seqs, SeqMod, seq_gt, seq_lt, SeqSub
<1>5. InAckBitmap(rx, p) =>
        [front EXCEPT !.received_bits = @ \cup {BitOf(rx, p)}] \in RxSessionState
  BY <1>2, <1>4, Zenon DEF RxSessionState
<1>6. QED
  BY <1>2, <1>3, <1>5, Zenon DEF update_reliable_receive_state

\* What DeliverableRun counts: every packet of the run is in the buffer.
LEMMA DeliverableRunProp ==
  ASSUME NEW rx \in RxSessionState
  PROVE  /\ DeliverableRun(rx) \in 0 .. SeqMod
         /\ \A n \in 0 .. DeliverableRun(rx) - 1 :
              Buffered(rx, SeqAdd(rx.next_ordered_delivery, n))
<1> DEFINE S == {n \in 0 .. SeqMod :
                  n = SeqMod \/ ~Buffered(rx, SeqAdd(rx.next_ordered_delivery, n))}
<1>1. SeqMod \in Nat
  BY ProtocolAssumption DEF SeqMod
<1>2. S \subseteq Nat /\ SeqMod \in S
  BY <1>1
<1>3. Min(S) \in S /\ \A y \in S : Min(S) <= y
  BY <1>2, MinOfNats, Zenon
<1>4. DeliverableRun(rx) = Min(S)
  BY Zenon DEF DeliverableRun
<1>5. ASSUME NEW n \in 0 .. Min(S) - 1
      PROVE  Buffered(rx, SeqAdd(rx.next_ordered_delivery, n))
  <2>1. Min(S) \in 0 .. SeqMod
    BY <1>3, Zenon
  <2>2. n \in 0 .. SeqMod /\ ~(Min(S) <= n)
    BY <1>1, <2>1
  <2>3. QED
    BY <1>3, <2>2, Zenon
<1>6. QED
  BY <1>3, <1>4, <1>5, Zenon

\* A received ordered packet is stored, and delivery starts with the first.
LEMMA FilledType ==
  ASSUME NEW rx \in RxSessionState, NEW p \in Packet
  PROVE  [ensure_ordered_delivery_started(p.seq, rx) EXCEPT
            !.ordered_reorder_buffer =
               {b \in @ : b.seq # p.seq} \cup
               {[seq |-> p.seq, channel_id |-> p.channel_id, payload |-> p.payload]}]
         \in RxSessionState
<1> DEFINE new == [seq |-> p.seq, channel_id |-> p.channel_id, payload |-> p.payload]
           started == ensure_ordered_delivery_started(p.seq, rx)
           stored == {b \in started.ordered_reorder_buffer : b.seq # p.seq} \cup {new}
<1>1. new \in BufferedPacket /\ p.seq \in Seqs
  BY Zenon DEF BufferedPacket, Packet
<1>2. started \in RxSessionState
  <2> DEFINE first == IF rx.ordered_delivery_started
                      THEN rx.next_ordered_delivery ELSE p.seq
  <2>1. first \in Seqs
    BY <1>1, Zenon DEF RxSessionState
  <2> HIDE DEF first
  <2>2. [rx EXCEPT !.next_ordered_delivery = first,
                   !.ordered_delivery_started = TRUE] \in RxSessionState
    BY <2>1, Zenon DEF RxSessionState
  <2>3. QED
    BY <2>2, Zenon DEF ensure_ordered_delivery_started, first
<1> HIDE DEF new, started
<1>3. stored \in SUBSET BufferedPacket
  BY <1>1, <1>2, Zenon DEF RxSessionState
<1> HIDE DEF stored
<1>4. [started EXCEPT !.ordered_reorder_buffer = stored] \in RxSessionState
  BY <1>2, <1>3, Zenon DEF RxSessionState
<1>5. QED
  BY <1>4, Zenon DEF new, started, stored

\* RxHandler::drain_contiguous_ordered and handle_reliable_ordered.
LEMMA OrderedType ==
  ASSUME NEW rx \in RxSessionState, NEW p \in Packet
  PROVE  handle_reliable_ordered(rx, p) \in RxSessionState
<1> DEFINE new == [seq |-> p.seq, channel_id |-> p.channel_id, payload |-> p.payload]
           filled == [ensure_ordered_delivery_started(p.seq, rx) EXCEPT
                        !.ordered_reorder_buffer = {b \in @ : b.seq # p.seq} \cup {new}]
<1>1. filled \in RxSessionState
  BY FilledType, Zenon
<1>2. ASSUME NEW r \in RxSessionState
      PROVE  drain_contiguous_ordered(r) \in RxSessionState
  <2> DEFINE run == DeliverableRun(r)
             at(i) == CHOOSE b \in r.ordered_reorder_buffer :
                        b.seq = SeqAdd(r.next_ordered_delivery, i - 1)
             event(i) == make_data_event(at(i).seq, at(i).channel_id,
                                         "ReliableOrdered", at(i).payload)
             events == [i \in 1 .. run |-> event(i)]
             rest == {b \in r.ordered_reorder_buffer :
                        SeqSub(b.seq, r.next_ordered_delivery) >= run}
  <2>1. run \in 0 .. SeqMod /\ SeqMod \in Nat
    BY DeliverableRunProp, ProtocolAssumption DEF SeqMod
  <2>2. ASSUME NEW i \in 1 .. run
        PROVE  event(i) \in SessionEvent
    <3>1. i - 1 \in 0 .. run - 1
      BY <2>1
    <3>2. Buffered(r, SeqAdd(r.next_ordered_delivery, i - 1))
      BY <3>1, DeliverableRunProp, Zenon
    <3>3. at(i) \in r.ordered_reorder_buffer
      BY <3>2, Zenon DEF Buffered
    <3>4. at(i) \in BufferedPacket
      BY <3>3, Zenon DEF RxSessionState
    <3> HIDE DEF at
    <3>5. QED
      BY <3>4, Zenon DEF make_data_event, SessionEvent, BufferedPacket, EventType, ChannelType
  <2>3. events \in Seq(SessionEvent)
    <3> HIDE DEF event, run
    <3>1. QED
      BY <2>1, <2>2
  <2>4. r.pending_events \o events \in Seq(SessionEvent)
    BY <2>3 DEF RxSessionState
  <2>5. SeqAdd(r.next_ordered_delivery, run) \in Seqs
    BY <2>1, SeqAddType, Zenon DEF RxSessionState
  <2>6. rest \in SUBSET BufferedPacket
    BY Zenon DEF RxSessionState
  <2> HIDE DEF events, rest, run
  <2>7. [r EXCEPT !.pending_events = r.pending_events \o events,
                  !.ordered_reorder_buffer = rest,
                  !.next_ordered_delivery = SeqAdd(r.next_ordered_delivery, run)]
        \in RxSessionState
    BY <2>4, <2>5, <2>6, Zenon DEF RxSessionState
  <2>8. QED
    BY <2>7, Zenon DEF drain_contiguous_ordered, events, rest, run
<1>3. handle_reliable_ordered(rx, p) = drain_contiguous_ordered(filled)
  BY Zenon DEF handle_reliable_ordered
<1>4. QED
  BY <1>1, <1>2, <1>3, Zenon

\* RxHandler::handle_unreliable, handle_reliable_unordered.
LEMMA DeliverNowType ==
  ASSUME NEW rx \in RxSessionState, NEW p \in Packet
  PROVE  DeliverNow(rx, p) \in RxSessionState
<1>1. make_data_event(p.seq, p.channel_id, p.channel_type, p.payload) \in SessionEvent
  BY Zenon DEF make_data_event, SessionEvent, EventType, Packet
<1>2. QED
  BY <1>1, EmitType, Zenon DEF DeliverNow

\* RxHandler::handle_monotonic_state.
LEMMA MonotonicType ==
  ASSUME NEW rx \in RxSessionState, NEW p \in Packet
  PROVE  handle_monotonic_state(rx, p) \in RxSessionState
<1> DEFINE version == VersionOf[p.payload]
           stored == [rx EXCEPT !.monotonic_versions[p.channel_id] = version]
<1>1. version \in Seqs \cup {NoVersion}
  BY ProtocolAssumption, Zenon DEF Packet
<1>2. [rx.monotonic_versions EXCEPT ![p.channel_id] = version]
      \in [ChannelId -> Seqs \cup {NoVersion}]
  BY <1>1, Zenon DEF RxSessionState
<1>3. stored \in RxSessionState
  BY <1>2, Zenon DEF RxSessionState
<1>4. DeliverNow(stored, p) \in RxSessionState
  BY <1>3, DeliverNowType, Zenon
<1>5. QED
  BY <1>4, Zenon DEF handle_monotonic_state

\* RxHandler::on_packet keeps the receive state well typed.
LEMMA OnPacketType ==
  ASSUME NEW rx \in RxSessionState, NEW p \in Packet, NEW kind
  PROVE  on_packet(rx, p, kind) \in RxSessionState
BY UpdateReceiveType, OrderedType, MonotonicType, DeliverNowType, Zenon DEF on_packet

-----------------------------------------------------------------------------
\* The send half: types, and the window invariant

\* The window invariant on the send state alone: InflightInWindow and
\* InflightNotAcked together, which is what makes it inductive. When a packet
\* is sent, remote_ack is less than a window behind next_seq, and nothing in
\* flight lies before remote_ack.
Window(tx) ==
  /\ \A e \in tx.inflight :
       /\ SeqSub(tx.next_seq, e.seq) \in 1 .. ReliableWindowSize
       /\ ~seq_lt(e.seq, tx.remote_ack)
  /\ \A e, f \in tx.inflight : e.seq = f.seq => e = f

\* Ring arithmetic behind the window: a number n that is in use, at most W
\* behind next and not before the acknowledged front, is less than W behind
\* next when the front is; so one step later it is still at most W behind.
LEMMA WindowStep ==
  ASSUME NEW next \in Seqs, NEW front \in Seqs, NEW n \in Seqs,
         SeqSub(next, n) \in 1 .. ReliableWindowSize,
         ~seq_lt(n, front),
         SeqSub(next, front) < ReliableWindowSize
  PROVE  /\ n # next
         /\ SeqSub(SeqAdd(next, 1), n) \in 1 .. ReliableWindowSize
BY ProtocolAssumption DEF Seqs, SeqMod, SeqAdd, SeqSub, seq_lt

\* The packet that is sent enters the window at its upper end.
LEMMA WindowTop ==
  ASSUME NEW next \in Seqs, NEW front \in Seqs,
         SeqSub(next, front) < ReliableWindowSize
  PROVE  /\ SeqSub(SeqAdd(next, 1), next) \in 1 .. ReliableWindowSize
         /\ ~seq_lt(next, front)
BY ProtocolAssumption DEF Seqs, SeqMod, SeqAdd, SeqSub, seq_lt

\* TxHandler: assigning next_seq to a reliable packet when the window is not
\* full stores it under a fresh key.
LEMMA TrackReliableOK ==
  ASSUME NEW tx \in TxSessionState, Window(tx), NEW p \in Packet,
         p.seq = tx.next_seq, ~reliable_window_full(tx)
  PROVE  TrackReliable(tx, p) \in TxSessionState /\ Window(TrackReliable(tx, p))
<1> DEFINE t == TrackReliable(tx, p)
           new == NewEntry(p)
<1>1. /\ tx.next_seq \in Seqs /\ tx.remote_ack \in Seqs
      /\ tx.inflight \in SUBSET TxEntry
      /\ \A e \in tx.inflight : e.seq \in Seqs
  BY Zenon DEF TxSessionState, TxEntry
<1>2. SeqSub(tx.next_seq, tx.remote_ack) < ReliableWindowSize
  BY <1>1, ProtocolAssumption DEF reliable_window_full, SeqSub, Seqs, SeqMod
<1>3. \A e \in tx.inflight :
        /\ e.seq # tx.next_seq
        /\ SeqSub(SeqAdd(tx.next_seq, 1), e.seq) \in 1 .. ReliableWindowSize
  BY <1>1, <1>2, WindowStep, Zenon DEF Window
<1>4. new \in TxEntry /\ new.seq = tx.next_seq
  BY TxAssumption DEF NewEntry, TxEntry, Packet
<1>5. /\ t.next_seq = SeqAdd(tx.next_seq, 1)
      /\ t.remote_ack = tx.remote_ack
      /\ t.inflight = tx.inflight \cup {new}
      /\ t = [tx EXCEPT !.next_seq = SeqAdd(tx.next_seq, 1),
                        !.inflight = tx.inflight \cup {new}]
  BY <1>3, Zenon DEF TrackReliable, TxSessionState
<1>6. SeqAdd(tx.next_seq, 1) \in Seqs
  <2>1. 1 \in 0 .. SeqMod
    BY ProtocolAssumption DEF SeqMod
  <2>2. QED
    BY <1>1, <2>1, SeqAddType, Zenon
<1>7. t \in TxSessionState
  <2> HIDE DEF new
  <2>1. tx.inflight \cup {new} \in SUBSET TxEntry
    BY <1>1, <1>4, Zenon
  <2>2. QED
    BY <1>5, <1>6, <2>1, Zenon DEF TxSessionState
<1>8. Window(t)
  <2> HIDE DEF t, new
  <2>1. /\ SeqSub(SeqAdd(tx.next_seq, 1), tx.next_seq) \in 1 .. ReliableWindowSize
        /\ ~seq_lt(tx.next_seq, tx.remote_ack)
    BY <1>1, <1>2, WindowTop, Zenon
  <2>2. QED
    BY <1>3, <1>4, <1>5, <2>1, Zenon DEF Window
<1>9. QED
  BY <1>7, <1>8, Zenon

\* TxHandler::on_remote_ack keeps the window invariant for any ack, stale or
\* from the future.
LEMMA OnRemoteAckOK ==
  ASSUME NEW tx \in TxSessionState, Window(tx),
         NEW ack \in Seqs, NEW ack_bits
  PROVE  /\ on_remote_ack(tx, ack, ack_bits) \in TxSessionState
         /\ Window(on_remote_ack(tx, ack, ack_bits))
<1> DEFINE t == on_remote_ack(tx, ack, ack_bits)
           kept == erase_acknowledged_inflight(tx.inflight, ack, ack_bits)
           gap(e) == ack_bits # {} /\ SeqSub(e.seq, ack) <= Max(ack_bits) + 1
           marked == mark_gap_fast_retransmit_candidates(kept, ack, ack_bits)
           mark(e) == IF gap(e) THEN GapEvidence(e) ELSE e
<1>1. tx.inflight \subseteq TxEntry
  BY Zenon DEF TxSessionState
<1>2. kept \subseteq tx.inflight /\ \A e \in kept : ~seq_lt(e.seq, ack)
  BY Zenon DEF erase_acknowledged_inflight, is_acknowledged_by_remote
<1>3. ASSUME NEW e \in TxEntry
      PROVE  GapEvidence(e) \in TxEntry /\ GapEvidence(e).seq = e.seq
  <2> DEFINE count == IF e.gap_evidence_count < FastRetxEvidenceThreshold
                      THEN e.gap_evidence_count + 1 ELSE e.gap_evidence_count
             fast == e.fast_retx_pending \/ count >= FastRetxEvidenceThreshold
  <2>1. count \in 0 .. FastRetxEvidenceThreshold
    BY TxAssumption DEF TxEntry
  <2>2. fast \in BOOLEAN
    BY Zenon
  <2>3. GapEvidence(e) = [e EXCEPT !.gap_evidence_count = count,
                                   !.fast_retx_pending = fast]
    BY Zenon DEF GapEvidence
  <2> HIDE DEF count, fast
  <2>4. QED
    BY <2>1, <2>2, <2>3, Zenon DEF TxEntry
<1>4. marked = {mark(e) : e \in kept}
  BY Zenon DEF mark_gap_fast_retransmit_candidates
<1>5. \A e \in kept : mark(e) \in TxEntry /\ mark(e).seq = e.seq
  BY <1>1, <1>2, <1>3, Zenon
<1> HIDE DEF kept, marked, mark
<1>6. marked \in SUBSET TxEntry
  BY <1>4, <1>5, Zenon
<1>7. t = [tx EXCEPT !.remote_ack = ack, !.inflight = marked]
  BY Zenon DEF on_remote_ack, marked, kept
<1>8. /\ t \in TxSessionState
      /\ t.next_seq = tx.next_seq /\ t.remote_ack = ack /\ t.inflight = marked
  BY <1>6, <1>7, Zenon DEF TxSessionState
<1>9. Window(t)
  <2> HIDE DEF t
  <2>1. \A e \in marked : /\ SeqSub(tx.next_seq, e.seq) \in 1 .. ReliableWindowSize
                          /\ ~seq_lt(e.seq, ack)
    BY <1>2, <1>4, <1>5 DEF Window
  <2>2. ASSUME NEW e \in marked, NEW f \in marked, e.seq = f.seq
        PROVE  e = f
    <3>1. PICK x \in kept : e = mark(x)
      BY <1>4, Zenon
    <3>2. PICK y \in kept : f = mark(y)
      BY <1>4, Zenon
    <3>3. x.seq = y.seq
      BY <1>5, <2>2, <3>1, <3>2, Zenon
    <3>4. x = y
      BY <1>2, <3>3, Zenon DEF Window
    <3>5. QED
      BY <3>1, <3>2, <3>4, Zenon
  <2>3. QED
    BY <1>8, <2>1, <2>2, Zenon DEF Window
<1>10. QED
  BY <1>8, <1>9, Zenon

-----------------------------------------------------------------------------
\* Whole-session stages: each operator of Session and TxHandler::poll keeps OK

\* A session that is well typed and whose send window is sound.
OK(s) == s \in SessionState /\ Window(s.tx)

\* A step that replaces tx by a well-behaved tx and leaves the rest alone.
LEMMA ReplaceTx ==
  ASSUME NEW s \in SessionState, NEW tx \in TxSessionState, Window(tx)
  PROVE  OK([s EXCEPT !.tx = tx])
BY Zenon DEF OK, SessionState

\* Pending flags of tx are outside the window invariant.
LEMMA WindowFrame ==
  ASSUME NEW tx, NEW t, Window(tx), t.next_seq = tx.next_seq,
         t.remote_ack = tx.remote_ack, t.inflight = tx.inflight
  PROVE  Window(t)
BY Zenon DEF Window

\* Outbound datagrams are packets.
LEMMA OutboundType ==
  ASSUME NEW s \in SessionState, NEW conn_id \in ConnId, NEW seq \in Seqs,
         NEW channel_id \in ChannelId, NEW channel_type \in ChannelType,
         NEW flags \in SUBSET Flag, NEW payload \in Payload
  PROVE  /\ Outbound(s, conn_id, seq, channel_id, channel_type, flags, payload)
              \in Packet
         /\ Outbound(s, conn_id, seq, channel_id, channel_type, flags,
                     payload).seq = seq
BY Zenon DEF Outbound, Packet, SessionState, RxSessionState

\* A control datagram is a packet with the given sequence number.
LEMMA ControlType ==
  ASSUME NEW s \in SessionState, NEW seq \in Seqs, NEW flags \in SUBSET Flag
  PROVE  ControlDatagram(s, seq, flags) \in Packet /\ ControlDatagram(s, seq, flags).seq = seq
<1>1. /\ s.conn_id \in ConnId /\ 0 \in ChannelId /\ "Unreliable" \in ChannelType
      /\ NoPayload \in Payload
  BY ProtocolAssumption, Zenon DEF SessionState, ChannelType
<1>2. QED
  BY <1>1, OutboundType DEF ControlDatagram

\* TxHandler::build_control_packet: a SYN or FIN takes the next sequence
\* number, every other control packet carries 0.
LEMMA BuildControlOK ==
  ASSUME NEW s, OK(s), NEW flags \in SUBSET Flag, CanBuildControl(s, flags)
  PROVE  /\ OK(build_control_packet(s, flags).session)
         /\ build_control_packet(s, flags).out \subseteq Packet
<1> DEFINE seq == IF consumes_reliable_seq(flags) THEN s.tx.next_seq ELSE 0
           p == ControlDatagram(s, seq, flags)
<1>1. s \in SessionState /\ s.tx \in TxSessionState /\ Window(s.tx)
  BY Zenon DEF OK, SessionState
<1>2. seq \in Seqs
  BY <1>1, ProtocolAssumption DEF TxSessionState, Seqs, SeqMod
<1>3. p \in Packet /\ p.seq = seq
  BY <1>1, <1>2, ControlType, Zenon
<1>4. /\ build_control_packet(s, flags).session =
           (IF consumes_reliable_seq(flags)
            THEN [s EXCEPT !.tx = TrackReliable(s.tx, p)] ELSE s)
      /\ build_control_packet(s, flags).out = {p}
  BY Zenon DEF build_control_packet, Polled
<1> HIDE DEF p
<1>5. CASE consumes_reliable_seq(flags)
  <2>1. ~reliable_window_full(s.tx)
    BY <1>5, Zenon DEF CanBuildControl
  <2>2. p.seq = s.tx.next_seq
    BY <1>3, <1>5, Zenon
  <2>3. TrackReliable(s.tx, p) \in TxSessionState /\ Window(TrackReliable(s.tx, p))
    BY <1>1, <1>3, <2>1, <2>2, TrackReliableOK, Zenon
  <2>4. QED
    BY <1>1, <1>3, <1>4, <1>5, <2>3, ReplaceTx, Zenon
<1>6. CASE ~consumes_reliable_seq(flags)
  BY <1>3, <1>4, <1>6, Zenon
<1>7. QED
  BY <1>5, <1>6, Zenon

\* A client that was Closed is HandshakeSent.
LEMMA EnterHandshakeOK ==
  ASSUME NEW s, OK(s)
  PROVE  OK(EnterHandshake(s)) /\ EnterHandshake(s).tx = s.tx
BY Zenon DEF EnterHandshake, OK, SessionState, ConnectionState

\* TxHandler::try_build_handshake, where it returns a packet.
LEMMA HandshakeOK ==
  ASSUME NEW s, OK(s), HandshakeReady(s)
  PROVE  /\ OK(try_build_handshake(s).session)
         /\ try_build_handshake(s).out \subseteq Packet
<1> DEFINE flags == HandshakeFlags(s)
           e == EnterHandshake(s)
           a == e.tx.syn_ack_pending /\ flags # {"Syn", "Ack"}
           b == e.tx.final_ack_pending /\ flags # {"Ack"}
           c == e.tx.fin_pending /\ flags # {"Fin"}
           tx == [e.tx EXCEPT !.syn_ack_pending = a, !.final_ack_pending = b,
                              !.fin_pending = c]
           cleared == [e EXCEPT !.tx = tx]
<1>1. OK(e) /\ e.tx = s.tx
  BY EnterHandshakeOK, Zenon
<1>2. a \in BOOLEAN /\ b \in BOOLEAN /\ c \in BOOLEAN
  BY Zenon
<1>3. e.tx \in TxSessionState /\ Window(e.tx)
  BY <1>1, Zenon DEF OK, SessionState
<1>4. try_build_handshake(s) = build_control_packet(cleared, flags)
  BY Zenon DEF try_build_handshake
<1>5. flags \in SUBSET Flag
  BY Zenon DEF HandshakeFlags, Flag
<1> HIDE DEF a, b, c, e, flags
<1>6. /\ tx \in TxSessionState /\ tx.next_seq = e.tx.next_seq
      /\ tx.remote_ack = e.tx.remote_ack /\ tx.inflight = e.tx.inflight
  BY <1>2, <1>3, ZenonT(60) DEF TxSessionState
<1>7. Window(tx)
  BY <1>3, <1>6, WindowFrame, Zenon
<1> HIDE DEF tx
<1>8. OK(cleared) /\ cleared.tx = tx
  BY <1>1, <1>6, <1>7, ReplaceTx, Zenon DEF OK, SessionState
<1>9. CanBuildControl(cleared, flags)
  BY <1>1, <1>6, <1>8, Zenon DEF HandshakeReady, CanBuildControl, reliable_window_full, flags
<1> HIDE DEF cleared
<1>10. QED
  BY <1>4, <1>5, <1>8, <1>9, BuildControlOK, Zenon

\* A set of in-flight entries has one with the least key.
LEMMA FirstBySeqIn ==
  ASSUME NEW entries, entries \subseteq TxEntry, entries # {}
  PROVE  FirstBySeq(entries) \in entries
<1> DEFINE S == {e.seq : e \in entries}
<1>1. S \subseteq Nat /\ S # {} BY DEF TxEntry, Seqs
<1>2. Min(S) \in S /\ \A y \in S : Min(S) <= y
  <2> HIDE DEF S
  <2> QED BY <1>1, MinOfNats, Zenon
<1>3. PICK x \in entries : x.seq = Min(S) BY <1>2, Zenon
<1>4. \A other \in entries : x.seq <= other.seq BY <1>2, <1>3, Zenon
<1> QED BY <1>4, Zenon DEF FirstBySeq

\* TxHandler::try_build_retransmit: the entry that is retransmitted keeps its
\* number; the one that exceeds the retry limit leaves the table.
LEMMA RetransmitOK ==
  ASSUME NEW s, OK(s), NEW expired, RetransmitDue(s, expired) # {}
  PROVE  /\ OK(try_build_retransmit(s, expired).session)
         /\ try_build_retransmit(s, expired).out \subseteq Packet
<1> DEFINE due == RetransmitDue(s, expired)
           e == FirstBySeq(due)
           others == s.tx.inflight \ {e}
           resent == [e EXCEPT !.retry_count = e.retry_count + 1,
                               !.gap_evidence_count = 0,
                               !.fast_retx_pending = FALSE]
           p == Outbound(s, e.conn_id, e.seq, e.channel_id, e.channel_type,
                         e.flags, e.payload)
<1>1. s \in SessionState /\ s.tx \in TxSessionState /\ Window(s.tx)
  BY Zenon DEF OK, SessionState
<1>2. due \subseteq s.tx.inflight /\ s.tx.inflight \subseteq TxEntry
  BY <1>1, Zenon DEF RetransmitDue, TxSessionState
<1>3. e \in due
  BY <1>2, FirstBySeqIn, Zenon
<1> HIDE DEF due, e
<1>4. e \in s.tx.inflight /\ e \in TxEntry
  BY <1>2, <1>3, Zenon
<1>5. ASSUME NEW inflight \in SUBSET TxEntry,
             \A x \in inflight : \E y \in s.tx.inflight : x.seq = y.seq,
             \A x, y \in inflight : x.seq = y.seq => x = y
      PROVE  OK([s EXCEPT !.tx.inflight = inflight])
  <2> DEFINE tx == [s.tx EXCEPT !.inflight = inflight]
  <2>1. /\ tx \in TxSessionState /\ tx.next_seq = s.tx.next_seq
        /\ tx.remote_ack = s.tx.remote_ack /\ tx.inflight = inflight
    BY <1>1, Zenon DEF TxSessionState
  <2> HIDE DEF tx
  <2>2. Window(tx)
    BY <1>1, <1>5, <2>1, Zenon DEF Window
  <2>3. OK([s EXCEPT !.tx = tx])
    BY <1>1, <2>1, <2>2, ReplaceTx, Zenon
  <2>4. QED
    BY <2>3, Zenon DEF tx
<1>6. CASE e.retry_count >= MaxRetransmitCount
  <2>1. OK([s EXCEPT !.tx.inflight = others])
    BY <1>1, <1>2, <1>5, Zenon DEF Window
  <2>2. /\ try_build_retransmit(s, expired).session = [s EXCEPT !.tx.inflight = others]
        /\ try_build_retransmit(s, expired).out = {}
    BY <1>6, Zenon DEF try_build_retransmit, e, due
  <2>3. QED
    BY <2>1, <2>2, Zenon
<1>7. CASE ~(e.retry_count >= MaxRetransmitCount)
  <2>1. resent \in TxEntry /\ resent.seq = e.seq
    <3>1. e.retry_count + 1 \in 0 .. MaxRetransmitCount
      BY <1>4, <1>7, TxAssumption DEF TxEntry
    <3>2. 0 \in 0 .. FastRetxEvidenceThreshold
      BY TxAssumption
    <3> DEFINE count == e.retry_count + 1
    <3> HIDE DEF count
    <3>3. [e EXCEPT !.retry_count = count, !.gap_evidence_count = 0,
                    !.fast_retx_pending = FALSE] \in TxEntry
      BY <1>4, <3>1, <3>2, Zenon DEF TxEntry, count
    <3>4. QED
      BY <1>4, <3>3, Zenon DEF TxEntry, count
  <2>2. /\ try_build_retransmit(s, expired).session =
             [s EXCEPT !.tx.inflight = others \cup {resent}]
        /\ try_build_retransmit(s, expired).out = {p}
    BY <1>7, Zenon DEF try_build_retransmit, e, due, Polled
  <2> HIDE DEF resent
  <2>3. OK([s EXCEPT !.tx.inflight = others \cup {resent}])
    <3>1. others \cup {resent} \in SUBSET TxEntry
      BY <1>2, <2>1, Zenon
    <3>2. \A x \in others \cup {resent} : \E y \in s.tx.inflight : x.seq = y.seq
      BY <1>4, <2>1, Zenon
    <3>3. \A x, y \in others \cup {resent} : x.seq = y.seq => x = y
      BY <1>1, <1>4, <2>1, Zenon DEF Window
    <3> HIDE DEF others
    <3>4. QED
      BY <1>5, <3>1, <3>2, <3>3, Zenon
  <2>4. p \in Packet
    BY <1>1, <1>4, OutboundType, Zenon DEF TxEntry
  <2>5. QED
    BY <2>2, <2>3, <2>4, Zenon
<1>8. QED
  BY <1>6, <1>7, Zenon

\* A step of poll that only clears or sets pending flags of tx.
LEMMA FlagsOK ==
  ASSUME NEW s, OK(s), NEW tx \in TxSessionState,
         tx.next_seq = s.tx.next_seq, tx.remote_ack = s.tx.remote_ack,
         tx.inflight = s.tx.inflight
  PROVE  OK([s EXCEPT !.tx = tx])
<1>1. Window(tx)
  BY WindowFrame, Zenon DEF OK
<1>2. QED
  BY <1>1, ReplaceTx, Zenon DEF OK

\* TxHandler::try_build_probe_lane and try_build_ack_only.
LEMMA UnsequencedOK ==
  ASSUME NEW s, OK(s)
  PROVE  /\ OK(try_build_probe_lane(s).session)
         /\ try_build_probe_lane(s).out \subseteq Packet
         /\ OK(try_build_ack_only(s).session)
         /\ try_build_ack_only(s).out \subseteq Packet
<1>1. s \in SessionState /\ s.tx \in TxSessionState
  BY Zenon DEF OK, SessionState
<1>2. /\ OK([s EXCEPT !.tx.pong_pending = FALSE])
      /\ OK([s EXCEPT !.tx.ping_pending = FALSE])
      /\ OK([s EXCEPT !.tx.ack_only_pending = FALSE])
  <2>1. OK([s EXCEPT !.tx = [s.tx EXCEPT !.pong_pending = FALSE]])
    BY <1>1, FlagsOK, Zenon DEF TxSessionState
  <2>2. OK([s EXCEPT !.tx = [s.tx EXCEPT !.ping_pending = FALSE]])
    BY <1>1, FlagsOK, Zenon DEF TxSessionState
  <2>3. OK([s EXCEPT !.tx = [s.tx EXCEPT !.ack_only_pending = FALSE]])
    BY <1>1, FlagsOK, Zenon DEF TxSessionState
  <2>4. QED
    BY <2>1, <2>2, <2>3, Zenon
<1>3. \A flags \in SUBSET Flag : ControlDatagram(s, 0, flags) \in Packet
  <2>1. 0 \in Seqs
    BY ProtocolAssumption DEF Seqs, SeqMod
  <2>2. QED
    BY <1>1, <2>1, ControlType, Zenon
<1>4. {"Pong"} \in SUBSET Flag /\ {"Ping"} \in SUBSET Flag /\ {"Ack"} \in SUBSET Flag
  BY Zenon DEF Flag
<1>5. /\ ControlDatagram(s, 0, {"Pong"}) \in Packet
      /\ ControlDatagram(s, 0, {"Ping"}) \in Packet
      /\ ControlDatagram(s, 0, {"Ack"}) \in Packet
  BY <1>3, <1>4, Zenon
<1>6. QED
  BY <1>2, <1>5, Zenon DEF try_build_probe_lane, try_build_ack_only, Polled

\* TxHandler::try_build_fresh, where it returns a packet.
LEMMA FreshOK ==
  ASSUME NEW s, OK(s), FreshReady(s)
  PROVE  OK(try_build_fresh(s).session) /\ try_build_fresh(s).out \subseteq Packet
<1> DEFINE request == Head(s.tx.pending_send)
           reliable == isReliableChannel(request.channel_type)
           seq == IF reliable THEN s.tx.next_seq ELSE 0
           p == Outbound(s, s.conn_id, seq, request.channel_id,
                         request.channel_type, {}, request.payload)
           popped == [s.tx EXCEPT !.pending_send = Tail(s.tx.pending_send)]
<1>1. s \in SessionState /\ s.tx \in TxSessionState /\ s.conn_id \in ConnId
  BY Zenon DEF OK, SessionState
<1>2. request \in SendRequest /\ Tail(s.tx.pending_send) \in Seq(SendRequest)
  BY <1>1 DEF FreshReady, TxSessionState
<1>3. seq \in Seqs
  BY <1>1, ProtocolAssumption DEF TxSessionState, Seqs, SeqMod
<1>4. p \in Packet /\ p.seq = seq
  BY <1>1, <1>2, <1>3, OutboundType DEF SendRequest
<1>5. /\ popped \in TxSessionState /\ popped.next_seq = s.tx.next_seq
      /\ popped.remote_ack = s.tx.remote_ack /\ popped.inflight = s.tx.inflight
  BY <1>1, <1>2, Zenon DEF TxSessionState
<1>6. Window(popped)
  BY <1>5, WindowFrame, Zenon DEF OK
<1>7. /\ try_build_fresh(s).session =
           [s EXCEPT !.tx = IF reliable THEN TrackReliable(popped, p) ELSE popped]
      /\ try_build_fresh(s).out = {p}
  BY Zenon DEF try_build_fresh, Polled
<1> HIDE DEF p, popped
<1>8. CASE reliable
  <2>1. ~reliable_window_full(popped)
    BY <1>5, <1>8, Zenon DEF FreshReady, reliable_window_full
  <2>2. TrackReliable(popped, p) \in TxSessionState /\ Window(TrackReliable(popped, p))
    BY <1>4, <1>5, <1>6, <1>8, <2>1, TrackReliableOK, Zenon
  <2>3. QED
    BY <1>1, <1>4, <1>7, <1>8, <2>2, ReplaceTx, Zenon
<1>9. CASE ~reliable
  BY <1>1, <1>4, <1>5, <1>6, <1>7, <1>9, ReplaceTx, Zenon
<1>10. QED
  BY <1>8, <1>9, Zenon

\* TxHandler::poll.
LEMMA PollOK ==
  ASSUME NEW s, OK(s), NEW expired
  PROVE  OK(poll(s, expired).session) /\ poll(s, expired).out \subseteq Packet
<1>1. OK(EnterHandshake(s))
  BY EnterHandshakeOK, Zenon
<1>2. \A t : Polled(t, {}).session = t /\ Polled(t, {}).out = {}
  BY Zenon DEF Polled
<1>3. QED
  BY <1>1, <1>2, HandshakeOK, RetransmitOK, UnsequencedOK, FreshOK, Zenon DEF poll

-----------------------------------------------------------------------------
\* Session::poll_tx

\* Emitting events and changing connection_state leave tx alone.
LEMMA EventOK ==
  ASSUME NEW s, OK(s), NEW state \in ConnectionState, NEW event \in SessionEvent
  PROVE  /\ OK([s EXCEPT !.connection_state = state])
         /\ OK([s EXCEPT !.rx = emit(s.rx, event)])
<1>1. emit(s.rx, event) \in RxSessionState
  BY EmitType, Zenon DEF OK, SessionState
<1>2. QED
  BY <1>1, Zenon DEF OK, SessionState

\* reset_for_conn_id_mismatch, mark_idle_timeout and the fatal error of poll_tx.
LEMMA ResetOK ==
  ASSUME NEW s, OK(s)
  PROVE  OK(Reset(s))
<1> DEFINE event == [type |-> "Error", seq |-> 0, channel_id |-> 0,
                     channel_type |-> "Unreliable", payload |-> NoPayload]
           r == [s EXCEPT !.connection_state = "Reset"]
<1>1. event \in SessionEvent
  BY ProtocolAssumption DEF SessionEvent, EventType, ChannelType, Seqs, SeqMod
<1>2. OK(r)
  BY EventOK, <1>1, Zenon DEF ConnectionState
<1> HIDE DEF r, event
<1>3. OK([r EXCEPT !.rx = emit(r.rx, event)])
  BY <1>1, <1>2, EventOK, Zenon DEF ConnectionState
<1>4. QED
  BY <1>3, Zenon DEF Reset, emit_local_error, r, event

\* schedule_pending_tx_work and apply_outbound_result touch flags only.
LEMMA ScheduleOK ==
  ASSUME NEW s, OK(s), NEW clock
  PROVE  OK(schedule_pending_tx_work(s, clock))
<1>1. s \in SessionState /\ s.tx \in TxSessionState
  BY Zenon DEF OK, SessionState
<1>2. OK([s EXCEPT !.tx = [s.tx EXCEPT !.ack_only_pending = TRUE,
                                       !.reliable_ack_pending = FALSE]])
  BY <1>1, FlagsOK, Zenon DEF TxSessionState
<1>3. OK([s EXCEPT !.tx = [s.tx EXCEPT !.ack_only_pending = TRUE]])
  BY <1>1, FlagsOK, Zenon DEF TxSessionState
<1>4. OK([s EXCEPT !.tx = [s.tx EXCEPT !.ping_pending = TRUE]])
  BY <1>1, FlagsOK, Zenon DEF TxSessionState
<1>5. [s EXCEPT !.tx.ack_only_pending = TRUE, !.tx.reliable_ack_pending = FALSE]
      = [s EXCEPT !.tx = [s.tx EXCEPT !.ack_only_pending = TRUE,
                                      !.reliable_ack_pending = FALSE]]
  BY <1>1, Zenon DEF SessionState, TxSessionState
<1>6. QED
  BY <1>2, <1>3, <1>4, <1>5, Zenon DEF schedule_pending_tx_work

\* apply_outbound_result: probe and acknowledgement bookkeeping after a poll.
LEMMA OutboundResultOK ==
  ASSUME NEW s, OK(s), NEW out
  PROVE  OK(apply_outbound_result(s, out))
<1> DEFINE sent(kind) == \E p \in out : classify_control_kind(p.flags) = kind
           a == s.tx.ping_outstanding \/ sent("Ping")
           b == s.tx.activity_ack_pending /\ out = {}
           c == s.tx.reliable_ack_pending /\ ~sent("Ack")
           tx == [s.tx EXCEPT !.ping_outstanding = a, !.activity_ack_pending = b,
                              !.reliable_ack_pending = c]
<1>1. s \in SessionState /\ s.tx \in TxSessionState
  BY Zenon DEF OK, SessionState
<1>2. a \in BOOLEAN /\ b \in BOOLEAN /\ c \in BOOLEAN
  BY Zenon
<1>3. apply_outbound_result(s, out) = [s EXCEPT !.tx = tx]
  <2> DEFINE A == a  B == b  C == c
  <2>1. apply_outbound_result(s, out) =
          [s EXCEPT !.tx.ping_outstanding = A, !.tx.activity_ack_pending = B,
                    !.tx.reliable_ack_pending = C]
    BY <1>1, Zenon DEF apply_outbound_result, SessionState, TxSessionState
  <2> HIDE DEF A, B, C
  <2>2. [s EXCEPT !.tx.ping_outstanding = A, !.tx.activity_ack_pending = B,
                  !.tx.reliable_ack_pending = C]
        = [s EXCEPT !.tx = [s.tx EXCEPT !.ping_outstanding = A,
                                        !.activity_ack_pending = B,
                                        !.reliable_ack_pending = C]]
    BY <1>1, Zenon DEF SessionState, TxSessionState
  <2>3. QED
    BY <2>1, <2>2, Zenon DEF A, B, C
<1> HIDE DEF a, b, c
<1>4. /\ tx \in TxSessionState /\ tx.next_seq = s.tx.next_seq
      /\ tx.remote_ack = s.tx.remote_ack /\ tx.inflight = s.tx.inflight
  BY <1>1, <1>2, ZenonT(60) DEF TxSessionState
<1> HIDE DEF tx
<1>5. QED
  BY <1>3, <1>4, FlagsOK, Zenon

\* Session::poll_tx.
LEMMA PollTxOK ==
  ASSUME NEW s, OK(s), NEW clock
  PROVE  OK(poll_tx(s, clock).session) /\ poll_tx(s, clock).out \subseteq Packet
<1> DEFINE polled == poll(schedule_pending_tx_work(s, clock), clock.expired)
<1>1. OK(polled.session) /\ polled.out \subseteq Packet
  BY ScheduleOK, PollOK, Zenon
<1> HIDE DEF polled
<1>2. OK(Reset(s)) /\ OK(Reset(polled.session))
  BY <1>1, ResetOK, Zenon
<1>3. OK(apply_outbound_result(polled.session, polled.out))
  BY <1>1, OutboundResultOK, Zenon
<1>4. QED
  BY <1>1, <1>2, <1>3, Zenon DEF poll_tx, polled

-----------------------------------------------------------------------------
\* Session::on_datagram_received

\* emit_control_event with the packet that caused it.
LEMMA ControlEventOK ==
  ASSUME NEW s, OK(s), NEW type \in EventType, NEW p \in Packet
  PROVE  OK(emit_control_event(s, type, p))
<1> DEFINE event == [type |-> type, seq |-> p.seq, channel_id |-> p.channel_id,
                     channel_type |-> p.channel_type, payload |-> NoPayload]
<1>1. event \in SessionEvent
  BY ProtocolAssumption, Zenon DEF SessionEvent, Packet
<1>2. "Reset" \in ConnectionState
  BY Zenon DEF ConnectionState
<1> HIDE DEF event
<1>3. OK([s EXCEPT !.rx = emit(s.rx, event)])
  BY <1>1, <1>2, EventOK, Zenon
<1>4. QED
  BY <1>3, Zenon DEF emit_control_event, event

\* handle_probe_receive: a PING asks for a PONG, a PONG settles the probe.
LEMMA ProbeReceiveOK ==
  ASSUME NEW s, OK(s), NEW kind
  PROVE  OK(handle_probe_receive(s, kind))
<1>1. s \in SessionState /\ s.tx \in TxSessionState
  BY Zenon DEF OK, SessionState
<1>2. OK([s EXCEPT !.tx = [s.tx EXCEPT !.pong_pending = TRUE]])
  BY <1>1, FlagsOK, Zenon DEF TxSessionState
<1>3. OK([s EXCEPT !.tx = [s.tx EXCEPT !.ping_outstanding = FALSE]])
  BY <1>1, FlagsOK, Zenon DEF TxSessionState
<1>4. QED
  BY <1>2, <1>3, Zenon DEF handle_probe_receive

\* apply_remote_ack and close_after_fin_acknowledgement.
LEMMA RemoteAckOK ==
  ASSUME NEW s, OK(s), NEW kind, NEW p \in Packet
  PROVE  OK(apply_remote_ack(s, kind, p))
<1> DEFINE acked == [s EXCEPT !.tx = on_remote_ack(s.tx, p.ack, p.ack_bits)]
           closed == [acked EXCEPT !.connection_state = "Closed"]
<1>1. s \in SessionState /\ s.tx \in TxSessionState /\ Window(s.tx) /\ p.ack \in Seqs
  BY Zenon DEF OK, SessionState, Packet
<1>2. OK(acked)
  BY <1>1, OnRemoteAckOK, ReplaceTx, Zenon
<1> HIDE DEF acked
<1>3. OK(closed)
  BY <1>2, Zenon DEF OK, SessionState, ConnectionState
<1> HIDE DEF closed
<1>4. OK(emit_control_event(closed, "ConnectionClosed", p))
  BY <1>3, ControlEventOK, Zenon DEF EventType
<1>5. QED
  BY <1>2, <1>4, Zenon DEF apply_remote_ack, acked, closed

\* What decide_connection_transition may answer.
LEMMA DecisionType ==
  ASSUME NEW role, NEW state, NEW kind
  PROVE  LET d == decide_connection_transition(role, state, kind)
         IN  /\ d.next_state \in ConnectionState \cup {"Keep"}
             /\ d.emit \in EventType \cup {"None"}
             /\ role = "Client" => /\ d.next_state # "HandshakeReceived"
                                   /\ d.schedule # "SynAck"
             /\ role # "Client" => d.schedule # "FinalAck"
             /\ d.next_state # "HandshakeSent"
BY Zenon DEF decide_connection_transition, Decision, ConnectionState, EventType

\* Session::apply_connection_decision.
LEMMA ConnectionDecisionOK ==
  ASSUME NEW s, OK(s), NEW p \in Packet, NEW d,
         d.next_state \in ConnectionState \cup {"Keep"},
         d.emit \in EventType \cup {"None"}
  PROVE  OK(apply_connection_decision(s, p, d))
<1> DEFINE state == IF d.next_state = "Keep" THEN s.connection_state ELSE d.next_state
           a == s.tx.syn_ack_pending \/ d.schedule = "SynAck"
           b == s.tx.final_ack_pending \/ d.schedule = "FinalAck"
           c == s.tx.ack_only_pending \/ d.schedule = "AckOnly"
           tx == [s.tx EXCEPT !.syn_ack_pending = a, !.final_ack_pending = b,
                              !.ack_only_pending = c]
           st == [s EXCEPT !.connection_state = state]
           moved == [st EXCEPT !.tx = tx]
<1>1. s \in SessionState /\ s.tx \in TxSessionState /\ s.connection_state \in ConnectionState
  BY Zenon DEF OK, SessionState
<1>2. a \in BOOLEAN /\ b \in BOOLEAN /\ c \in BOOLEAN
  BY Zenon
<1>3. state \in ConnectionState
  BY <1>1, Zenon
<1>4. apply_connection_decision(s, p, d) =
        IF d.emit = "None" THEN moved ELSE emit_control_event(moved, d.emit, p)
  <2> DEFINE A == a  B == b  C == c  S == state
             direct == [s EXCEPT !.connection_state = S, !.tx.syn_ack_pending = A,
                                 !.tx.final_ack_pending = B, !.tx.ack_only_pending = C]
  <2>1. apply_connection_decision(s, p, d) =
          IF d.emit = "None" THEN direct ELSE emit_control_event(direct, d.emit, p)
    BY <1>1, Zenon DEF apply_connection_decision, SessionState, TxSessionState
  <2> HIDE DEF A, B, C, S
  <2>2. direct = [[s EXCEPT !.connection_state = S] EXCEPT
                    !.tx = [s.tx EXCEPT !.syn_ack_pending = A,
                                        !.final_ack_pending = B,
                                        !.ack_only_pending = C]]
    BY <1>1, Zenon DEF SessionState, TxSessionState
  <2> HIDE DEF direct
  <2>3. QED
    BY <2>1, <2>2, Zenon DEF A, B, C, S
<1> HIDE DEF a, b, c, state
<1>5. OK(st) /\ st.tx = s.tx
  BY <1>1, <1>3, Zenon DEF OK, SessionState
<1>6. /\ tx \in TxSessionState /\ tx.next_seq = st.tx.next_seq
      /\ tx.remote_ack = st.tx.remote_ack /\ tx.inflight = st.tx.inflight
  BY <1>1, <1>2, <1>5, ZenonT(60) DEF TxSessionState
<1> HIDE DEF tx, st
<1>7. OK(moved)
  BY <1>5, <1>6, FlagsOK, Zenon
<1> HIDE DEF moved
<1>8. d.emit # "None" => OK(emit_control_event(moved, d.emit, p))
  BY <1>7, ControlEventOK, Zenon
<1>9. QED
  BY <1>4, <1>7, <1>8, Zenon

\* update_post_receive_liveness and schedule_receive_side_ack.
LEMMA ReceiveSideOK ==
  ASSUME NEW s, OK(s), NEW kind, NEW p
  PROVE  /\ OK(update_post_receive_liveness(s, kind))
         /\ OK(schedule_receive_side_ack(s, kind, p))
<1>1. s \in SessionState /\ s.tx \in TxSessionState
  BY Zenon DEF OK, SessionState
<1>2. OK([s EXCEPT !.tx = [s.tx EXCEPT !.activity_ack_pending = TRUE]])
  BY <1>1, FlagsOK, Zenon DEF TxSessionState
<1>3. OK([s EXCEPT !.tx = [s.tx EXCEPT !.reliable_ack_pending = TRUE]])
  BY <1>1, FlagsOK, Zenon DEF TxSessionState
<1>4. OK([s EXCEPT !.tx = [s.tx EXCEPT !.ack_only_pending = TRUE]])
  BY <1>1, FlagsOK, Zenon DEF TxSessionState
<1>5. QED
  BY <1>2, <1>3, <1>4, Zenon DEF update_post_receive_liveness, schedule_receive_side_ack

\* Session::on_datagram_received.
LEMMA OnDatagramOK ==
  ASSUME NEW s, OK(s), NEW p \in Packet, NEW lingering \in BOOLEAN
  PROVE  OK(on_datagram_received(s, p, lingering))
<1> DEFINE kind == classify_control_kind(p.flags)
           adopted == adopt_server_conn_id(s, kind, p)
           probed == handle_probe_receive(adopted, kind)
           acked == apply_remote_ack(probed, kind, p)
           decision == decide_connection_transition(acked.role,
                                                    acked.connection_state, kind)
           decided == apply_connection_decision(acked, p, decision)
           received == [decided EXCEPT !.rx = on_packet(decided.rx, p, kind)]
           live == update_post_receive_liveness(received, kind)
<1>1. OK(adopted)
  BY Zenon DEF adopt_server_conn_id, OK, SessionState, Packet
<1> HIDE DEF kind, adopted
<1>2. OK(Reset(adopted))
  BY <1>1, ResetOK, Zenon
<1>3. OK([adopted EXCEPT !.tx.final_ack_pending = @ \/ lingering])
  <2> DEFINE linger == adopted.tx.final_ack_pending \/ lingering
  <2>1. linger \in BOOLEAN
    BY Zenon
  <2> HIDE DEF linger
  <2>2. adopted \in SessionState /\ adopted.tx \in TxSessionState
    BY <1>1, Zenon DEF OK, SessionState
  <2> DEFINE tx == [adopted.tx EXCEPT !.final_ack_pending = linger]
  <2>3. /\ tx \in TxSessionState /\ tx.next_seq = adopted.tx.next_seq
        /\ tx.remote_ack = adopted.tx.remote_ack /\ tx.inflight = adopted.tx.inflight
    BY <2>1, <2>2, Zenon DEF TxSessionState
  <2> HIDE DEF tx
  <2>4. OK([adopted EXCEPT !.tx = tx])
    BY <1>1, <2>3, FlagsOK, Zenon
  <2>5. QED
    BY <2>4, Zenon DEF linger, tx
<1>4. OK(acked)
  BY <1>1, ProbeReceiveOK, RemoteAckOK, Zenon
<1> HIDE DEF acked
<1>5. OK(decided)
  BY <1>4, DecisionType, ConnectionDecisionOK, Zenon
<1> HIDE DEF decided
<1>6. OK(received)
  <2>1. on_packet(decided.rx, p, kind) \in RxSessionState
    BY <1>5, OnPacketType, Zenon DEF OK, SessionState
  <2>2. QED
    BY <1>5, <2>1, Zenon DEF OK, SessionState
<1> HIDE DEF received
<1>7. OK(schedule_receive_side_ack(live, kind, p))
  BY <1>6, ReceiveSideOK, Zenon
<1>8. schedule_receive_side_ack(live, kind, p) = process_packet(adopted, kind, p)
  BY Zenon DEF process_packet, live, received, decided, decision, acked, probed
<1>9. QED
  BY <1>2, <1>3, <1>7, <1>8, Zenon DEF on_datagram_received, adopted, kind

\* Session's constructor.
LEMMA NewSessionOK ==
  ASSUME NEW role \in SessionRole, NEW i \in Seqs
  PROVE  OK(NewSession(role, i))
<1>1. TxInit(i) \in TxSessionState
  BY DEF TxInit, TxSessionState
<1>2. Window(TxInit(i))
  BY Zenon DEF Window, TxInit
<1>3. RxInit \in RxSessionState
  BY ProtocolAssumption DEF RxInit, RxSessionState, Seqs, SeqMod
<1>4. QED
  BY <1>1, <1>2, <1>3, ProtocolAssumption
    , Zenon DEF OK, NewSession, SessionState, ConnectionState

\* Session::queue_send.
LEMMA QueueSendOK ==
  ASSUME NEW s, OK(s), NEW r \in SendRequest
  PROVE  OK(queue_send(s, r))
<1> DEFINE queue == Append(s.tx.pending_send, r)
           tx == [s.tx EXCEPT !.pending_send = queue]
<1>1. s \in SessionState /\ s.tx \in TxSessionState
  BY Zenon DEF OK, SessionState
<1>2. queue \in Seq(SendRequest)
  BY <1>1 DEF TxSessionState
<1> HIDE DEF queue
<1>3. /\ tx \in TxSessionState /\ tx.next_seq = s.tx.next_seq
      /\ tx.remote_ack = s.tx.remote_ack /\ tx.inflight = s.tx.inflight
  BY <1>1, <1>2, Zenon DEF TxSessionState
<1> HIDE DEF tx
<1>4. OK([s EXCEPT !.tx = tx])
  BY <1>3, FlagsOK, Zenon
<1>5. QED
  BY <1>4, Zenon DEF queue_send, queue_app_data, tx, queue

\* Session::request_close.
LEMMA RequestCloseOK ==
  ASSUME NEW s, OK(s)
  PROVE  OK(request_close(s))
<1> DEFINE tx == [s.tx EXCEPT !.fin_pending = TRUE]
           st == [s EXCEPT !.connection_state = "Closing"]
<1>1. s \in SessionState /\ s.tx \in TxSessionState
  BY Zenon DEF OK, SessionState
<1>2. OK(st) /\ st.tx = s.tx
  BY <1>1, Zenon DEF OK, SessionState, ConnectionState
<1>3. /\ tx \in TxSessionState /\ tx.next_seq = st.tx.next_seq
      /\ tx.remote_ack = st.tx.remote_ack /\ tx.inflight = st.tx.inflight
  BY <1>1, <1>2, Zenon DEF TxSessionState
<1>4. [s EXCEPT !.connection_state = "Closing", !.tx.fin_pending = TRUE] =
        [st EXCEPT !.tx = tx]
  BY <1>1, Zenon DEF SessionState
<1> HIDE DEF tx, st
<1>5. OK([st EXCEPT !.tx = tx])
  BY <1>2, <1>3, FlagsOK, Zenon
<1>6. QED
  BY <1>4, <1>5, Zenon DEF request_close
-----------------------------------------------------------------------------
\* The shape of a session

SessionFields == {"role", "conn_id", "connection_state", "tx", "rx"}
TxFields == {"next_seq", "remote_ack", "pending_send", "inflight",
             "syn_ack_pending", "final_ack_pending", "fin_pending",
             "ack_only_pending", "reliable_ack_pending", "activity_ack_pending",
             "ping_pending", "pong_pending", "ping_outstanding"}
RxFields == {"next_expected", "received_bits", "ordered_reorder_buffer",
             "next_ordered_delivery", "ordered_delivery_started",
             "monotonic_versions", "pending_events"}

Shape(s) == /\ DOMAIN s = SessionFields /\ s.role \in SessionRole
            /\ DOMAIN s.tx = TxFields /\ DOMAIN s.rx = RxFields

\* A session whose parts are well typed has its shape.
LEMMA TypedShape == ASSUME NEW s, OK(s) PROVE Shape(s)
  BY Zenon DEF OK, SessionState, TxSessionState, RxSessionState, Shape,
         SessionFields, TxFields, RxFields

-----------------------------------------------------------------------------
\* Role and number: no handler changes them, but for the client that adopts the
\* number of a SYN-ACK.
Identity(s, r, c) == DOMAIN s = SessionFields /\ s.role = r /\ s.conn_id = c

\* Reporting an error or a control event leaves the identity of the session.
LEMMA EmitKeeps ==
  ASSUME NEW s, NEW r, NEW c, Identity(s, r, c), NEW type, NEW p
  PROVE  /\ Identity(emit_local_error(s), r, c)
         /\ Identity(Reset(s), r, c)
         /\ Identity(emit_control_event(s, type, p), r, c)
  BY Zenon DEF Identity, SessionFields, emit_local_error, Reset, emit_control_event

\* on_datagram_received, step by step.
LEMMA ProbeKeeps ==
  ASSUME NEW s, NEW r, NEW c, Identity(s, r, c), NEW kind
  PROVE  Identity(handle_probe_receive(s, kind), r, c)
  BY Zenon DEF Identity, SessionFields, handle_probe_receive

LEMMA RemoteAckKeeps ==
  ASSUME NEW s, NEW r, NEW c, Identity(s, r, c), NEW kind, NEW p
  PROVE  Identity(apply_remote_ack(s, kind, p), r, c)
<1> DEFINE acked == [s EXCEPT !.tx = on_remote_ack(@, p.ack, p.ack_bits)]
           closed == [acked EXCEPT !.connection_state = "Closed"]
<1>1. Identity(acked, r, c) /\ Identity(closed, r, c)
  BY Zenon DEF Identity, SessionFields
<1>2. Identity(emit_control_event(closed, "ConnectionClosed", p), r, c)
  BY <1>1, EmitKeeps, Zenon
<1> QED BY <1>1, <1>2, Zenon DEF apply_remote_ack

LEMMA DecisionKeeps ==
  ASSUME NEW s, NEW r, NEW c, Identity(s, r, c), NEW p, NEW decision
  PROVE  Identity(apply_connection_decision(s, p, decision), r, c)
<1> DEFINE moved == [s EXCEPT
        !.connection_state =
           IF decision.next_state = "Keep" THEN @ ELSE decision.next_state,
        !.tx.syn_ack_pending = @ \/ decision.schedule = "SynAck",
        !.tx.final_ack_pending = @ \/ decision.schedule = "FinalAck",
        !.tx.ack_only_pending = @ \/ decision.schedule = "AckOnly"]
<1>1. Identity(moved, r, c)
  BY Zenon DEF Identity, SessionFields
<1>2. Identity(emit_control_event(moved, decision.emit, p), r, c)
  BY <1>1, EmitKeeps, Zenon
<1> QED BY <1>1, <1>2, Zenon DEF apply_connection_decision

LEMMA ProcessKeeps ==
  ASSUME NEW s, NEW r, NEW c, Identity(s, r, c), NEW kind, NEW p
  PROVE  Identity(process_packet(s, kind, p), r, c)
<1> DEFINE probed == handle_probe_receive(s, kind)
           acked == apply_remote_ack(probed, kind, p)
           decision == decide_connection_transition(acked.role,
                                                    acked.connection_state, kind)
           decided == apply_connection_decision(acked, p, decision)
           received == [decided EXCEPT !.rx = on_packet(@, p, kind)]
           live == update_post_receive_liveness(received, kind)
<1>1. Identity(probed, r, c) BY ProbeKeeps, Zenon
<1>2. Identity(acked, r, c) BY <1>1, RemoteAckKeeps, Zenon
<1>3. Identity(decided, r, c) BY <1>2, DecisionKeeps, Zenon
<1>4. Identity(received, r, c) BY <1>3, Zenon DEF Identity, SessionFields
<1>5. Identity(live, r, c)
  BY <1>4, Zenon DEF update_post_receive_liveness, Identity, SessionFields
<1>6. Identity(schedule_receive_side_ack(live, kind, p), r, c)
  BY <1>5, Zenon DEF schedule_receive_side_ack, Identity, SessionFields
<1> QED BY <1>6, Zenon DEF process_packet

\* A server's session never adopts a number.
LEMMA ServerNeverAdopts ==
  ASSUME NEW s, s.role = "Server", NEW p, NEW lingering
  PROVE  LET kind == classify_control_kind(p.flags)
         IN  on_datagram_received(s, p, lingering) =
               IF has_conn_id_mismatch(s, kind, p) THEN Reset(s)
               ELSE process_packet(s, kind, p)
  BY Zenon DEF on_datagram_received, adopt_server_conn_id, should_adopt_server_conn_id,
         is_duplicate_client_syn_ack

LEMMA ReceiveKeeps ==
  ASSUME NEW s, NEW c, Identity(s, "Server", c), NEW p, NEW lingering
  PROVE  Identity(on_datagram_received(s, p, lingering), "Server", c)
  BY ServerNeverAdopts, ProcessKeeps, EmitKeeps DEF Identity

\* poll_tx, step by step.
LEMMA HandshakeKeeps ==
  ASSUME NEW s, NEW r, NEW c, Identity(s, r, c)
  PROVE  /\ Identity(EnterHandshake(s), r, c)
         /\ Identity(try_build_handshake(s).session, r, c)
<1>1. Identity(EnterHandshake(s), r, c)
  BY Zenon DEF EnterHandshake, Identity, SessionFields
<1> DEFINE flags == HandshakeFlags(s)
           cleared == [EnterHandshake(s) EXCEPT
                    !.tx.syn_ack_pending = @ /\ flags # {"Syn", "Ack"},
                    !.tx.final_ack_pending = @ /\ flags # {"Ack"},
                    !.tx.fin_pending = @ /\ flags # {"Fin"}]
<1>2. Identity(cleared, r, c)
  BY <1>1, Zenon DEF Identity, SessionFields
<1> HIDE DEF cleared, flags
<1>3. Identity(build_control_packet(cleared, flags).session, r, c)
  BY <1>2, Zenon DEF build_control_packet, Polled, Identity, SessionFields
<1> QED BY <1>1, <1>3, Zenon DEF try_build_handshake, cleared, flags

LEMMA LanesKeep ==
  ASSUME NEW s, NEW r, NEW c, Identity(s, r, c), NEW expired
  PROVE  /\ Identity(try_build_retransmit(s, expired).session, r, c)
         /\ Identity(try_build_probe_lane(s).session, r, c)
         /\ Identity(try_build_ack_only(s).session, r, c)
         /\ Identity(try_build_fresh(s).session, r, c)
<1>1. Identity(try_build_retransmit(s, expired).session, r, c)
  BY Zenon DEF try_build_retransmit, Polled, Identity, SessionFields
<1>2. Identity(try_build_probe_lane(s).session, r, c)
  BY Zenon DEF try_build_probe_lane, Polled, Identity, SessionFields
<1>3. Identity(try_build_ack_only(s).session, r, c)
  BY Zenon DEF try_build_ack_only, Polled, Identity, SessionFields
<1>4. Identity(try_build_fresh(s).session, r, c)
  BY Zenon DEF try_build_fresh, Polled, Identity, SessionFields
<1> QED BY <1>1, <1>2, <1>3, <1>4, Zenon

LEMMA PollKeeps ==
  ASSUME NEW s, NEW r, NEW c, Identity(s, r, c), NEW clock
  PROVE  Identity(poll_tx(s, clock).session, r, c)
<1> DEFINE scheduled == schedule_pending_tx_work(s, clock)
           entered == EnterHandshake(scheduled)
           polled == poll(scheduled, clock.expired)
<1>1. Identity(scheduled, r, c)
  BY Zenon DEF schedule_pending_tx_work, Identity, SessionFields
<1> HIDE DEF scheduled
<1>2. Identity(entered, r, c) BY <1>1, HandshakeKeeps, Zenon
<1>3. Identity(try_build_handshake(scheduled).session, r, c)
  BY <1>1, HandshakeKeeps, Zenon
<1> HIDE DEF entered
<1>4. /\ Identity(try_build_retransmit(entered, clock.expired).session, r, c)
      /\ Identity(try_build_probe_lane(entered).session, r, c)
      /\ Identity(try_build_ack_only(entered).session, r, c)
      /\ Identity(try_build_fresh(entered).session, r, c)
  BY <1>2, LanesKeep, Zenon
<1>5. Polled(entered, {}).session = entered
  BY Zenon DEF Polled
<1>6. Identity(polled.session, r, c)
  BY <1>2, <1>3, <1>4, <1>5, Zenon DEF poll, entered
<1> HIDE DEF polled
<1>7. Identity(Reset(s), r, c) /\ Identity(Reset(polled.session), r, c)
  BY <1>6, EmitKeeps, Zenon
<1>8. Identity(apply_outbound_result(polled.session, polled.out), r, c)
  BY <1>6, Zenon DEF apply_outbound_result, Identity, SessionFields
<1> QED BY <1>7, <1>8, Zenon DEF poll_tx, polled, scheduled

-----------------------------------------------------------------------------
\* What poll_tx does to the connection state and the receive state: it resets
\* the session, sends nothing and reports an error, or it leaves both alone, but
\* for the client that leaves Closed to open the handshake.
PollMove(s) ==
  IF s.role = "Client" /\ s.connection_state = "Closed" THEN "HandshakeSent"
  ELSE s.connection_state

LEMMA PollStep ==
  ASSUME NEW s, NEW r, NEW c, Identity(s, r, c), NEW clock
  PROVE  LET result == poll_tx(s, clock)
         IN  \/ /\ result.session.connection_state = "Reset"
                /\ result.session.rx = Reset(s).rx
                /\ result.out = {}
             \/ /\ result.session.connection_state = PollMove(s)
                /\ result.session.rx = s.rx
<1> DEFINE scheduled == schedule_pending_tx_work(s, clock)
           entered == EnterHandshake(scheduled)
           polled == poll(scheduled, clock.expired)
           Moved(t) == /\ DOMAIN t = SessionFields
                       /\ t.connection_state = PollMove(s) /\ t.rx = s.rx
<1>1. /\ DOMAIN scheduled = SessionFields /\ scheduled.rx = s.rx
      /\ scheduled.role = s.role /\ scheduled.connection_state = s.connection_state
  BY Zenon DEF schedule_pending_tx_work, Identity, SessionFields
<1> HIDE DEF scheduled
<1>2. Moved(entered)
  BY <1>1 DEF EnterHandshake, HandshakeFlags, PollMove, SessionFields
<1>3. Moved(try_build_handshake(scheduled).session)
  <2> DEFINE flags == HandshakeFlags(scheduled)
             cleared == [entered EXCEPT
                    !.tx.syn_ack_pending = @ /\ flags # {"Syn", "Ack"},
                    !.tx.final_ack_pending = @ /\ flags # {"Ack"},
                    !.tx.fin_pending = @ /\ flags # {"Fin"}]
  <2> HIDE DEF entered
  <2>1. Moved(cleared) BY <1>2, Zenon DEF SessionFields
  <2> HIDE DEF cleared, flags
  <2>2. Moved(build_control_packet(cleared, flags).session)
    BY <2>1, Zenon DEF build_control_packet, Polled, SessionFields
  <2> HIDE DEF Moved
  <2> QED BY <2>2, Zenon DEF try_build_handshake, cleared, flags, entered
<1> HIDE DEF entered
<1>4. /\ Moved(try_build_retransmit(entered, clock.expired).session)
      /\ Moved(try_build_probe_lane(entered).session)
      /\ Moved(try_build_ack_only(entered).session)
      /\ Moved(try_build_fresh(entered).session)
      /\ Moved(Polled(entered, {}).session)
  BY <1>2, Zenon DEF try_build_retransmit, try_build_probe_lane, try_build_ack_only,
              try_build_fresh, Polled, SessionFields
<1> HIDE DEF Moved
<1>5. Moved(polled.session) BY <1>2, <1>3, <1>4, Zenon DEF poll, entered
<1> HIDE DEF polled
<1>6. /\ Reset(s).connection_state = "Reset"
      /\ Reset(polled.session).connection_state = "Reset"
      /\ Reset(polled.session).rx = Reset(s).rx
  BY <1>5, Zenon DEF Reset, emit_local_error, Moved, Identity, SessionFields
<1>7. LET t == apply_outbound_result(polled.session, polled.out)
      IN  t.connection_state = PollMove(s) /\ t.rx = s.rx
  BY <1>5, Zenon DEF apply_outbound_result, Moved, SessionFields
<1> QED BY <1>6, <1>7, Zenon DEF poll_tx, polled, scheduled

-----------------------------------------------------------------------------
\* The types of the events that wait to be drained.
EventTypes(rx) == {rx.pending_events[i].type : i \in DOMAIN rx.pending_events}

LEMMA EmitTypes ==
  ASSUME NEW rx \in RxSessionState, NEW event
  PROVE  EventTypes(emit(rx, event)) = EventTypes(rx) \cup {event.type}
<1> DEFINE events == rx.pending_events
<1>1. events \in Seq(SessionEvent) BY Zenon DEF RxSessionState
<1>2. emit(rx, event).pending_events = Append(events, event) BY Zenon DEF emit, RxSessionState
<1> HIDE DEF events
<1>3. /\ DOMAIN Append(events, event) = DOMAIN events \cup {Len(events) + 1}
      /\ Append(events, event)[Len(events) + 1] = event
      /\ \A i \in DOMAIN events : Append(events, event)[i] = events[i]
  BY <1>1
<1> QED BY <1>2, <1>3 DEF EventTypes, events

\* Session: the events of the control path.
LEMMA ControlTypes ==
  ASSUME NEW s, OK(s), NEW type, NEW p
  PROVE  /\ EventTypes(emit_control_event(s, type, p).rx) = EventTypes(s.rx) \cup {type}
         /\ EventTypes(Reset(s).rx) = EventTypes(s.rx) \cup {"Error"}
<1> DEFINE control == [type |-> type, seq |-> p.seq, channel_id |-> p.channel_id,
                       channel_type |-> p.channel_type, payload |-> NoPayload]
           error == [type |-> "Error", seq |-> 0, channel_id |-> 0,
                     channel_type |-> "Unreliable", payload |-> NoPayload]
<1>1. s.rx \in RxSessionState BY Zenon DEF OK, SessionState
<1>2. /\ emit_control_event(s, type, p).rx = emit(s.rx, control)
      /\ Reset(s).rx = emit(s.rx, error)
  BY Zenon DEF emit_control_event, Reset, emit_local_error, OK, SessionState
<1>3. control.type = type /\ error.type = "Error" BY Zenon
<1> HIDE DEF control, error
<1> QED BY <1>1, <1>2, <1>3, EmitTypes, Zenon

\* RxHandler::on_packet delivers data and reports nothing else; what waited
\* already is still there.
LEMMA OnPacketTypes ==
  ASSUME NEW rx \in RxSessionState, NEW p \in Packet, NEW kind
  PROVE  LET after == EventTypes(on_packet(rx, p, kind))
         IN  /\ EventTypes(rx) \subseteq after
             /\ after \subseteq EventTypes(rx) \cup {"DataReceived"}
<1> DEFINE Grows(r) == /\ EventTypes(rx) \subseteq EventTypes(r)
                       /\ EventTypes(r) \subseteq EventTypes(rx) \cup {"DataReceived"}
           updated == update_reliable_receive_state(rx, p, kind)
           version == VersionOf[p.payload]
           versioned == [updated EXCEPT !.monotonic_versions[p.channel_id] = version]
           event == make_data_event(p.seq, p.channel_id, p.channel_type, p.payload)
<1>1. updated \in RxSessionState BY UpdateReceiveType, Zenon
<1>2. updated.pending_events = rx.pending_events
  BY Zenon DEF update_reliable_receive_state, advance_receive_window, RxSessionState
<1> HIDE DEF updated
<1>3. Grows(handle_reliable_ordered(updated, p))
  <2> DEFINE new == [seq |-> p.seq, channel_id |-> p.channel_id, payload |-> p.payload]
             filled == [ensure_ordered_delivery_started(p.seq, updated) EXCEPT
                          !.ordered_reorder_buffer = {b \in @ : b.seq # p.seq} \cup {new}]
             run == DeliverableRun(filled)
             at(i) == CHOOSE b \in filled.ordered_reorder_buffer :
                        b.seq = SeqAdd(filled.next_ordered_delivery, i - 1)
             Ev(i) == make_data_event(at(i).seq, at(i).channel_id,
                                      "ReliableOrdered", at(i).payload)
             more == [i \in 1 .. run |-> Ev(i)]
             old == rx.pending_events
  <2>1. filled \in RxSessionState BY <1>1, FilledType, Zenon
  <2>2. filled.pending_events = old
    BY <1>1, <1>2, Zenon DEF ensure_ordered_delivery_started, RxSessionState
  <2>3. handle_reliable_ordered(updated, p) = drain_contiguous_ordered(filled)
    BY Zenon DEF handle_reliable_ordered
  <2> HIDE DEF filled
  <2>4. run \in Nat BY <2>1, DeliverableRunProp
  <2>5. drain_contiguous_ordered(filled).pending_events = old \o more
    BY <2>1, <2>2, Zenon DEF drain_contiguous_ordered, RxSessionState
  <2>6. \A i \in 1 .. run : Ev(i).type = "DataReceived" BY Zenon DEF make_data_event
  <2> HIDE DEF Ev, run
  <2>7. old \in Seq(SessionEvent) BY Zenon DEF RxSessionState
  <2>8. /\ DOMAIN old = 1 .. Len(old) /\ Len(old) \in Nat
        /\ DOMAIN (old \o more) = 1 .. Len(old) + run
        /\ \A i \in 1 .. Len(old) + run :
             (old \o more)[i] = IF i <= Len(old) THEN old[i] ELSE more[i - Len(old)]
    <3>1. more \in Seq({Ev(i) : i \in 1 .. run}) /\ Len(more) = run
      BY <2>4
    <3> HIDE DEF more
    <3> QED BY <2>4, <2>7, <3>1
  <2>9. \A i \in 1 .. run : more[i].type = "DataReceived" BY <2>6, Zenon
  <2> HIDE DEF more, old
  <2>10. ASSUME NEW i \in DOMAIN (old \o more)
         PROVE  (old \o more)[i].type \in EventTypes(rx) \cup {"DataReceived"}
    <3> DEFINE n == Len(old)
    <3>1. i \in 1 .. n + run /\ n \in Nat BY <2>8, Zenon
    <3>2. CASE i <= n BY <2>8, <3>1, <3>2 DEF EventTypes, old
    <3>3. CASE ~(i <= n)
      <4>1. i - n \in 1 .. run BY <2>4, <3>1, <3>3
      <4>2. (old \o more)[i] = more[i - n] BY <2>8, <3>1, <3>3, Zenon
      <4> QED BY <2>9, <4>1, <4>2, Zenon
    <3> QED BY <3>2, <3>3, Zenon
  <2>11. ASSUME NEW i \in DOMAIN old
         PROVE  i \in DOMAIN (old \o more) /\ (old \o more)[i] = old[i]
    BY <2>4, <2>8
  <2> QED BY <2>3, <2>5, <2>10, <2>11, Zenon DEF EventTypes, old
<1>4. Grows(updated) BY <1>2, Zenon DEF EventTypes
<1>5. versioned \in RxSessionState /\ versioned.pending_events = rx.pending_events
  <2>1. version \in Seqs \cup {NoVersion}
    BY ProtocolAssumption, Zenon DEF Packet
  <2>2. [updated.monotonic_versions EXCEPT ![p.channel_id] = version]
        \in [ChannelId -> Seqs \cup {NoVersion}]
    BY <1>1, <2>1, Zenon DEF RxSessionState
  <2> QED BY <1>1, <1>2, <2>2, Zenon DEF RxSessionState
<1>6. event.type = "DataReceived" BY Zenon DEF make_data_event
<1> HIDE DEF versioned, version, event
<1>7. Grows(DeliverNow(updated, p)) /\ Grows(DeliverNow(versioned, p))
  <2>1. /\ EventTypes(DeliverNow(updated, p)) = EventTypes(updated) \cup {"DataReceived"}
        /\ EventTypes(DeliverNow(versioned, p)) = EventTypes(versioned) \cup {"DataReceived"}
    BY <1>1, <1>5, <1>6, EmitTypes, Zenon DEF DeliverNow, event
  <2>2. EventTypes(updated) = EventTypes(rx) /\ EventTypes(versioned) = EventTypes(rx)
    BY <1>2, <1>5, Zenon DEF EventTypes
  <2> QED BY <2>1, <2>2, Zenon
<1> HIDE DEF Grows
<1>8. Grows(handle_monotonic_state(updated, p))
  BY <1>4, <1>7, Zenon DEF handle_monotonic_state, versioned, version
<1>9. Grows(on_packet(rx, p, kind))
  BY <1>3, <1>4, <1>7, <1>8, Zenon DEF on_packet, updated
<1> QED BY <1>9, Zenon DEF Grows

\* process_packet: an acknowledged FIN closes the session first, then the
\* connection state machine decides, and only data is delivered after that.
ProcessedAs(s, kind, t, state, told) ==
  LET d == decide_connection_transition(s.role, state, kind)
      reported == EventTypes(s.rx) \cup told \cup ({d.emit} \ {"None"})
  IN  /\ t.connection_state = IF d.next_state = "Keep" THEN state ELSE d.next_state
      /\ reported \subseteq EventTypes(t.rx)
      /\ EventTypes(t.rx) \subseteq reported \cup {"DataReceived"}

LEMMA ProcessStep ==
  ASSUME NEW s, OK(s), NEW kind, NEW p \in Packet
  PROVE  LET t == process_packet(s, kind, p)
         IN  \/ ProcessedAs(s, kind, t, s.connection_state, {})
             \/ /\ s.connection_state = "Closing" /\ kind # "Syn"
                /\ ProcessedAs(s, kind, t, "Closed", {"ConnectionClosed"})
<1> DEFINE probed == handle_probe_receive(s, kind)
           tx == on_remote_ack(probed.tx, p.ack, p.ack_bits)
           acked == [probed EXCEPT !.tx = tx]
           closed == [acked EXCEPT !.connection_state = "Closed"]
           after == apply_remote_ack(probed, kind, p)
           decision == decide_connection_transition(after.role,
                                                    after.connection_state, kind)
           decided == apply_connection_decision(after, p, decision)
           received == [decided EXCEPT !.rx = on_packet(@, p, kind)]
           live == update_post_receive_liveness(received, kind)
           final == schedule_receive_side_ack(live, kind, p)
<1>1. /\ OK(probed) /\ probed.rx = s.rx /\ probed.role = s.role
      /\ probed.connection_state = s.connection_state
  <2>1. OK(probed) BY ProbeReceiveOK, Zenon
  <2> QED BY <2>1, Zenon DEF handle_probe_receive, OK, SessionState
<1> HIDE DEF probed
<1>2. /\ OK(acked) /\ acked.rx = s.rx /\ acked.role = s.role
      /\ acked.connection_state = s.connection_state
  <2>1. tx \in TxSessionState /\ Window(tx)
    BY <1>1, OnRemoteAckOK, Zenon DEF OK, SessionState, Packet
  <2> HIDE DEF tx
  <2> QED BY <1>1, <2>1, Zenon DEF OK, SessionState
<1> HIDE DEF acked
<1>3. /\ OK(closed) /\ closed.rx = s.rx /\ closed.role = s.role
      /\ closed.connection_state = "Closed"
  BY <1>2, Zenon DEF OK, SessionState, ConnectionState
<1> HIDE DEF closed
<1>4. OK(after) BY <1>1, RemoteAckOK, Zenon
<1>5. \/ /\ after.role = s.role /\ after.connection_state = s.connection_state
         /\ EventTypes(after.rx) = EventTypes(s.rx)
      \/ /\ s.connection_state = "Closing" /\ kind # "Syn"
         /\ after.role = s.role /\ after.connection_state = "Closed"
         /\ EventTypes(after.rx) = EventTypes(s.rx) \cup {"ConnectionClosed"}
  <2> DEFINE told == emit_control_event(closed, "ConnectionClosed", p)
  <2>1. \/ after = probed \/ after = acked
        \/ after = told /\ s.connection_state = "Closing" /\ kind # "Syn"
    BY <1>1, Zenon DEF apply_remote_ack, acked, closed
  <2>2. told.role = s.role /\ told.connection_state = "Closed"
    BY <1>3, Zenon DEF emit_control_event, OK, SessionState
  <2>3. EventTypes(told.rx) = EventTypes(s.rx) \cup {"ConnectionClosed"}
    BY <1>3, ControlTypes
  <2> HIDE DEF told, after
  <2> QED BY <1>1, <1>2, <2>1, <2>2, <2>3, Zenon
<1> HIDE DEF after
<1>6. /\ decision.next_state \in ConnectionState \cup {"Keep"}
      /\ decision.emit \in EventType \cup {"None"}
  BY DecisionType, Zenon
<1> HIDE DEF decision
<1>7. OK(decided) BY <1>4, <1>6, ConnectionDecisionOK, Zenon
<1>8. /\ decided.connection_state = IF decision.next_state = "Keep"
                                    THEN after.connection_state ELSE decision.next_state
      /\ EventTypes(decided.rx) = EventTypes(after.rx) \cup ({decision.emit} \ {"None"})
  <2> DEFINE quiet == Decision(decision.next_state, decision.schedule, "None")
             moved == apply_connection_decision(after, p, quiet)
  <2>1. quiet.next_state = decision.next_state /\ quiet.emit = "None"
        /\ quiet.schedule = decision.schedule
    BY Zenon DEF Decision
  <2> HIDE DEF quiet
  <2>2. OK(moved) BY <1>4, <1>6, <2>1, ConnectionDecisionOK, Zenon
  <2>3. /\ moved.connection_state = IF decision.next_state = "Keep"
                                    THEN after.connection_state ELSE decision.next_state
        /\ moved.rx = after.rx
    BY <1>4, <2>1, Zenon DEF apply_connection_decision, OK, SessionState
  <2>4. decided = IF decision.emit = "None" THEN moved
                  ELSE emit_control_event(moved, decision.emit, p)
    BY <2>1 DEF apply_connection_decision
  <2> HIDE DEF moved, decided
  <2>5. EventTypes(emit_control_event(moved, decision.emit, p).rx)
          = EventTypes(after.rx) \cup {decision.emit}
    BY <2>2, <2>3, ControlTypes
  <2>6. emit_control_event(moved, decision.emit, p).connection_state = moved.connection_state
    BY <2>2, Zenon DEF emit_control_event, OK, SessionState
  <2> QED BY <2>3, <2>4, <2>5, <2>6, Zenon
<1> HIDE DEF decided
<1>9. /\ received.connection_state = decided.connection_state
      /\ DOMAIN received = SessionFields
      /\ EventTypes(decided.rx) \subseteq EventTypes(received.rx)
      /\ EventTypes(received.rx) \subseteq EventTypes(decided.rx) \cup {"DataReceived"}
  <2>1. decided.rx \in RxSessionState BY <1>7, Zenon DEF OK, SessionState
  <2>2. received.rx = on_packet(decided.rx, p, kind)
        /\ received.connection_state = decided.connection_state
        /\ DOMAIN received = SessionFields
    BY <1>7, Zenon DEF OK, SessionState, SessionFields
  <2> HIDE DEF received
  <2> QED BY <2>1, <2>2, OnPacketTypes, Zenon
<1> HIDE DEF received
<1>10. /\ live.rx = received.rx /\ live.connection_state = received.connection_state
       /\ DOMAIN live = SessionFields
  BY <1>9, Zenon DEF update_post_receive_liveness, SessionFields
<1> HIDE DEF live
<1>11. final.rx = live.rx /\ final.connection_state = live.connection_state
  BY <1>10, Zenon DEF schedule_receive_side_ack, SessionFields
<1>12. process_packet(s, kind, p) = final
  BY Zenon DEF process_packet, final, live, received, decided, decision, after, probed
<1> HIDE DEF final
<1> QED BY <1>5, <1>8, <1>9, <1>10, <1>11, <1>12, ZenonT(60) DEF ProcessedAs, decision
-----------------------------------------------------------------------------
\* Where payloads come from: what a session sends, and what it hands over.

Items(q) == {q[i] : i \in DOMAIN q}

LEMMA AppendItems ==
  ASSUME NEW R, NEW q \in Seq(R), NEW x
  PROVE  Items(Append(q, x)) = Items(q) \cup {x}
<1>1. /\ DOMAIN Append(q, x) = DOMAIN q \cup {Len(q) + 1}
      /\ Append(q, x)[Len(q) + 1] = x
      /\ \A i \in DOMAIN q : Append(q, x)[i] = q[i]
  OBVIOUS
<1> QED BY <1>1 DEF Items

LEMMA ConcatItems ==
  ASSUME NEW R, NEW q \in Seq(R), NEW r \in Seq(R)
  PROVE  Items(q \o r) \subseteq Items(q) \cup Items(r)
<1> DEFINE n == Len(q)
<1>1. n \in Nat /\ Len(r) \in Nat /\ DOMAIN q = 1 .. n /\ DOMAIN r = 1 .. Len(r) OBVIOUS
<1>2. /\ DOMAIN (q \o r) = 1 .. n + Len(r)
      /\ \A i \in 1 .. n + Len(r) : (q \o r)[i] = IF i <= n THEN q[i] ELSE r[i - n]
  OBVIOUS
<1> HIDE DEF n
<1>3. ASSUME NEW i \in 1 .. n + Len(r)
      PROVE  (i <= n => i \in 1 .. n) /\ (~(i <= n) => i - n \in 1 .. Len(r))
  BY <1>1
<1> QED BY <1>1, <1>2, <1>3, Zenon DEF Items

LEMMA HeadTailItems ==
  ASSUME NEW R, NEW q \in Seq(R), q # << >>
  PROVE  Head(q) \in Items(q) /\ Items(Tail(q)) \subseteq Items(q)
<1>1. /\ 1 \in DOMAIN q /\ Head(q) = q[1]
      /\ \A i \in DOMAIN Tail(q) : i + 1 \in DOMAIN q /\ Tail(q)[i] = q[i + 1]
  OBVIOUS
<1>2. Head(q) \in Items(q) BY <1>1, Zenon DEF Items
<1>3. Items(Tail(q)) \subseteq Items(q) BY <1>1 DEF Items
<1> QED BY <1>2, <1>3, Zenon

\* A packet, or what is kept to send it again, carries a number of C and, on a
\* reliable channel, a payload of S.
Carries(p, C, S) ==
  p.conn_id \in C /\ (isReliableChannel(p.channel_type) => p.payload \in S)

Labelled(packets, C, S) == \A p \in packets : Carries(p, C, S)

\* So does all that a send half may still send.
Sends(tx, C, S) ==
  /\ Labelled(tx.inflight, C, S)
  /\ \A r \in Items(tx.pending_send) :
       isReliableChannel(r.channel_type) => r.payload \in S

\* The reliable payloads that a receive half has delivered or holds are of S.
Holds(rx, S) ==
  /\ \A b \in rx.ordered_reorder_buffer : b.payload \in S
  /\ \A v \in Items(rx.pending_events) :
       v.type = "DataReceived" /\ isReliableChannel(v.channel_type) => v.payload \in S

LEMMA ControlCarries ==
  ASSUME NEW s, NEW C, s.conn_id \in C, NEW S, NEW seq, NEW flags
  PROVE  Carries(ControlDatagram(s, seq, flags), C, S)
  BY DEF Carries, ControlDatagram, Outbound, isReliableChannel

LEMMA TrackSends ==
  ASSUME NEW tx, DOMAIN tx = TxFields, NEW C, NEW S, Sends(tx, C, S),
         NEW p, Carries(p, C, S)
  PROVE  Sends(TrackReliable(tx, p), C, S)
<1>1. NewEntry(p).conn_id = p.conn_id /\ NewEntry(p).payload = p.payload
      /\ NewEntry(p).channel_type = p.channel_type
  BY Zenon DEF NewEntry
<1>2. Carries(NewEntry(p), C, S) BY <1>1, Zenon DEF Carries
<1>3. TrackReliable(tx, p).pending_send = tx.pending_send
  BY Zenon DEF TrackReliable, TxFields
<1>4. TrackReliable(tx, p).inflight \subseteq tx.inflight \cup {NewEntry(p)}
  BY DEF TrackReliable, TxFields
<1> QED BY <1>2, <1>3, <1>4, Zenon DEF Sends, Labelled

LEMMA HandshakeSends ==
  ASSUME NEW s, Shape(s), NEW C, s.conn_id \in C, NEW S, Sends(s.tx, C, S)
  PROVE  /\ Sends(try_build_handshake(s).session.tx, C, S)
         /\ Labelled(try_build_handshake(s).out, C, S)
<1> DEFINE flags == HandshakeFlags(s)
           entered == EnterHandshake(s)
           cleared == [entered EXCEPT
                    !.tx.syn_ack_pending = @ /\ flags # {"Syn", "Ack"},
                    !.tx.final_ack_pending = @ /\ flags # {"Ack"},
                    !.tx.fin_pending = @ /\ flags # {"Fin"}]
           p == ControlDatagram(cleared, IF consumes_reliable_seq(flags)
                                         THEN cleared.tx.next_seq ELSE 0, flags)
<1>1. Shape(entered) /\ entered.tx = s.tx /\ entered.conn_id = s.conn_id
  BY Zenon DEF EnterHandshake, Shape, SessionFields
<1> HIDE DEF flags, entered
<1>2. /\ Shape(cleared) /\ cleared.tx.inflight = s.tx.inflight
      /\ cleared.tx.pending_send = s.tx.pending_send
      /\ cleared.conn_id = s.conn_id
  BY <1>1, Zenon DEF Shape, SessionFields, TxFields
<1>3. /\ try_build_handshake(s).session =
          IF consumes_reliable_seq(flags)
          THEN [cleared EXCEPT !.tx = TrackReliable(cleared.tx, p)] ELSE cleared
      /\ try_build_handshake(s).out = {p}
  BY Zenon DEF try_build_handshake, build_control_packet, Polled, flags, entered
<1> HIDE DEF cleared
<1>4. Carries(p, C, S) BY <1>2, ControlCarries, Zenon
<1> HIDE DEF p
<1>5. Sends(cleared.tx, C, S) BY <1>2, Zenon DEF Sends
<1>6. Sends(TrackReliable(cleared.tx, p), C, S)
  BY <1>2, <1>4, <1>5, TrackSends, Zenon DEF Shape
<1>7. Sends(try_build_handshake(s).session.tx, C, S)
  BY <1>2, <1>3, <1>5, <1>6, Zenon DEF Shape, SessionFields
<1> QED BY <1>3, <1>4, <1>7, Zenon DEF Labelled

LEMMA RetransmitSends ==
  ASSUME NEW s, OK(s), NEW C, NEW S, Sends(s.tx, C, S), NEW expired,
         RetransmitDue(s, expired) # {}
  PROVE  /\ Sends(try_build_retransmit(s, expired).session.tx, C, S)
         /\ Labelled(try_build_retransmit(s, expired).out, C, S)
<1> DEFINE due == RetransmitDue(s, expired)
           e == FirstBySeq(due)
           others == s.tx.inflight \ {e}
           resent == [e EXCEPT !.retry_count = @ + 1, !.gap_evidence_count = 0,
                               !.fast_retx_pending = FALSE]
           p == Outbound(s, e.conn_id, e.seq, e.channel_id, e.channel_type,
                         e.flags, e.payload)
<1>1. e \in s.tx.inflight
  <2>1. due \subseteq s.tx.inflight BY Zenon DEF RetransmitDue
  <2>2. due \subseteq TxEntry /\ due # {}
    BY <2>1, Zenon DEF OK, SessionState, TxSessionState
  <2>3. e \in due BY <2>2, FirstBySeqIn, Zenon
  <2> QED BY <2>1, <2>3, Zenon
<1>2. e \in TxEntry /\ Carries(e, C, S)
  BY <1>1, Zenon DEF OK, SessionState, TxSessionState, Sends, Labelled
<1> HIDE DEF e, due
<1>3. /\ resent.conn_id = e.conn_id /\ resent.channel_type = e.channel_type
      /\ resent.payload = e.payload
  BY <1>2, Zenon DEF TxEntry
<1>4. /\ p.conn_id = e.conn_id /\ p.channel_type = e.channel_type
      /\ p.payload = e.payload
  BY Zenon DEF Outbound
<1>5. Carries(resent, C, S) /\ Carries(p, C, S) BY <1>2, <1>3, <1>4, Zenon DEF Carries
<1>6. Labelled(others, C, S) /\ Labelled(others \cup {resent}, C, S)
  BY <1>5, Zenon DEF Sends, Labelled
<1>7. /\ \/ try_build_retransmit(s, expired).session = [s EXCEPT !.tx.inflight = others]
         \/ try_build_retransmit(s, expired).session =
              [s EXCEPT !.tx.inflight = others \cup {resent}]
      /\ try_build_retransmit(s, expired).out \subseteq {p}
  BY Zenon DEF try_build_retransmit, Polled, e, due
<1> HIDE DEF others, resent, p
<1>8. ASSUME NEW entries, Labelled(entries, C, S)
      PROVE  Sends([s EXCEPT !.tx.inflight = entries].tx, C, S)
  <2>1. /\ [s EXCEPT !.tx.inflight = entries].tx.inflight = entries
        /\ [s EXCEPT !.tx.inflight = entries].tx.pending_send = s.tx.pending_send
    BY Zenon DEF OK, SessionState, TxSessionState
  <2> QED BY <1>8, <2>1, Zenon DEF Sends
<1>9. Sends(try_build_retransmit(s, expired).session.tx, C, S)
  BY <1>6, <1>7, <1>8, Zenon
<1>10. Labelled(try_build_retransmit(s, expired).out, C, S)
  BY <1>5, <1>7, Zenon DEF Labelled
<1> QED BY <1>9, <1>10, Zenon

LEMMA LanesSend ==
  ASSUME NEW s, OK(s), NEW C, s.conn_id \in C, NEW S, Sends(s.tx, C, S)
  PROVE  /\ Sends(try_build_probe_lane(s).session.tx, C, S)
         /\ Sends(try_build_ack_only(s).session.tx, C, S)
         /\ Labelled(try_build_probe_lane(s).out, C, S)
         /\ Labelled(try_build_ack_only(s).out, C, S)
<1>1. Shape(s) BY TypedShape, Zenon
<1>2. /\ try_build_probe_lane(s).session.tx.inflight = s.tx.inflight
      /\ try_build_probe_lane(s).session.tx.pending_send = s.tx.pending_send
  BY <1>1, Zenon DEF try_build_probe_lane, Polled, Shape, SessionFields, TxFields
<1>3. /\ try_build_ack_only(s).session.tx.inflight = s.tx.inflight
      /\ try_build_ack_only(s).session.tx.pending_send = s.tx.pending_send
  BY <1>1, Zenon DEF try_build_ack_only, Polled, Shape, SessionFields, TxFields
<1>4. /\ Carries(ControlDatagram(s, 0, {"Pong"}), C, S)
      /\ Carries(ControlDatagram(s, 0, {"Ping"}), C, S)
      /\ Carries(ControlDatagram(s, 0, {"Ack"}), C, S)
  BY ControlCarries, Zenon
<1>5. /\ Labelled(try_build_probe_lane(s).out, C, S)
      /\ Labelled(try_build_ack_only(s).out, C, S)
  BY <1>4, Zenon DEF try_build_probe_lane, try_build_ack_only, Polled, Labelled
<1> QED BY <1>2, <1>3, <1>5, Zenon DEF Sends

LEMMA FreshSends ==
  ASSUME NEW s, OK(s), NEW C, s.conn_id \in C, NEW S, Sends(s.tx, C, S), FreshReady(s)
  PROVE  /\ Sends(try_build_fresh(s).session.tx, C, S)
         /\ Labelled(try_build_fresh(s).out, C, S)
<1> DEFINE q == s.tx.pending_send
           request == Head(q)
           reliable == isReliableChannel(request.channel_type)
           p == Outbound(s, s.conn_id, IF reliable THEN s.tx.next_seq ELSE 0,
                         request.channel_id, request.channel_type, {},
                         request.payload)
           popped == [s.tx EXCEPT !.pending_send = Tail(@)]
<1>1. Shape(s) BY TypedShape, Zenon
<1>2. request \in Items(q) /\ Items(Tail(q)) \subseteq Items(q)
  <2>1. q \in Seq(SendRequest) /\ q # << >>
    BY Zenon DEF OK, SessionState, TxSessionState, FreshReady
  <2> HIDE DEF q
  <2> QED BY <2>1, HeadTailItems, Zenon
<1>3. /\ try_build_fresh(s).session =
           [s EXCEPT !.tx = IF reliable THEN TrackReliable(popped, p) ELSE popped]
      /\ try_build_fresh(s).out = {p}
  BY Zenon DEF try_build_fresh, Polled
<1>4. /\ DOMAIN popped = TxFields /\ popped.inflight = s.tx.inflight
      /\ popped.pending_send = Tail(q)
  BY <1>1, Zenon DEF Shape, TxFields
<1>5. /\ p.conn_id = s.conn_id /\ p.channel_type = request.channel_type
      /\ p.payload = request.payload
  BY Zenon DEF Outbound
<1> HIDE DEF popped, p, request, reliable
<1>6. Sends(popped, C, S) BY <1>2, <1>4, Zenon DEF Sends
<1>7. Carries(p, C, S) BY <1>2, <1>5, Zenon DEF Sends, Carries
<1>8. Sends(TrackReliable(popped, p), C, S) BY <1>4, <1>6, <1>7, TrackSends, Zenon
<1>9. Sends(try_build_fresh(s).session.tx, C, S)
  BY <1>1, <1>3, <1>6, <1>8, Zenon DEF Shape, SessionFields
<1> QED BY <1>3, <1>7, <1>9, Zenon DEF Labelled

\* Session::poll_tx.
LEMMA PollSends ==
  ASSUME NEW s, OK(s), NEW C, s.conn_id \in C, NEW S, Sends(s.tx, C, S), NEW clock
  PROVE  /\ Sends(poll_tx(s, clock).session.tx, C, S)
         /\ Labelled(poll_tx(s, clock).out, C, S)
<1> DEFINE scheduled == schedule_pending_tx_work(s, clock)
           entered == EnterHandshake(scheduled)
           polled == poll(scheduled, clock.expired)
           result == apply_outbound_result(polled.session, polled.out)
           Fine(r) == Sends(r.session.tx, C, S) /\ Labelled(r.out, C, S)
<1>1. OK(scheduled) BY ScheduleOK, Zenon
<1>2. /\ scheduled.conn_id = s.conn_id /\ scheduled.tx.inflight = s.tx.inflight
      /\ scheduled.tx.pending_send = s.tx.pending_send
  BY Zenon DEF schedule_pending_tx_work, OK, SessionState, TxSessionState
<1>3. Shape(scheduled) BY <1>1, TypedShape, Zenon
<1>4. OK(polled.session) BY <1>1, PollOK, Zenon
<1> HIDE DEF scheduled
<1>5. Sends(scheduled.tx, C, S) /\ scheduled.conn_id \in C BY <1>2, Zenon DEF Sends
<1>6. OK(entered) /\ entered.tx = scheduled.tx BY <1>1, EnterHandshakeOK, Zenon
<1>7. entered.conn_id \in C BY <1>3, <1>5, Zenon DEF EnterHandshake, Shape, SessionFields
<1> HIDE DEF entered
<1>8. Sends(entered.tx, C, S) BY <1>5, <1>6, Zenon
<1>9. Fine(try_build_handshake(scheduled)) BY <1>3, <1>5, HandshakeSends, Zenon
<1>10. Fine(try_build_probe_lane(entered)) /\ Fine(try_build_ack_only(entered))
  BY <1>6, <1>7, <1>8, LanesSend, Zenon
<1>11. FreshReady(entered) => Fine(try_build_fresh(entered))
  BY <1>6, <1>7, <1>8, FreshSends, Zenon
<1>12. RetransmitDue(entered, clock.expired) # {} =>
         Fine(try_build_retransmit(entered, clock.expired))
  BY <1>6, <1>8, RetransmitSends, Zenon
<1>13. Fine(Polled(entered, {})) BY <1>8, Zenon DEF Polled, Labelled
<1> HIDE DEF Fine
<1>14. Fine(polled) BY <1>9, <1>10, <1>11, <1>12, <1>13, Zenon DEF poll, entered
<1> HIDE DEF polled
<1>15. Sends(polled.session.tx, C, S) /\ Labelled(polled.out, C, S)
  BY <1>14, Zenon DEF Fine
<1>16. /\ result.tx.inflight = polled.session.tx.inflight
       /\ result.tx.pending_send = polled.session.tx.pending_send
  BY <1>4, Zenon DEF apply_outbound_result, OK, SessionState, TxSessionState
<1>17. Sends(result.tx, C, S) BY <1>15, <1>16, Zenon DEF Sends
<1>18. Reset(s).tx = s.tx /\ Reset(polled.session).tx = polled.session.tx
  BY <1>4, Zenon DEF Reset, emit_local_error, OK, SessionState
<1>19. Labelled({}, C, S) BY Zenon DEF Labelled
<1>20. \/ poll_tx(s, clock) = [session |-> Reset(s), out |-> {}]
       \/ poll_tx(s, clock) = [session |-> Reset(polled.session), out |-> {}]
       \/ poll_tx(s, clock) = [session |-> result, out |-> polled.out]
  BY Zenon DEF poll_tx, result, polled, scheduled
<1> HIDE DEF result
<1> QED BY <1>15, <1>17, <1>18, <1>19, <1>20

\* on_datagram_received takes entries out of the in-flight table and marks
\* others, but changes none.
LEMMA RemoteAckSends ==
  ASSUME NEW s, OK(s), NEW C, NEW S, Sends(s.tx, C, S), NEW kind, NEW p
  PROVE  Sends(apply_remote_ack(s, kind, p).tx, C, S)
<1> DEFINE erased == erase_acknowledged_inflight(s.tx.inflight, p.ack, p.ack_bits)
           marked == mark_gap_fast_retransmit_candidates(erased, p.ack, p.ack_bits)
           tx == on_remote_ack(s.tx, p.ack, p.ack_bits)
           acked == [s EXCEPT !.tx = tx]
           closed == [acked EXCEPT !.connection_state = "Closed"]
<1>1. s.tx.inflight \subseteq TxEntry BY Zenon DEF OK, SessionState, TxSessionState
<1>2. Labelled(marked, C, S)
  <2>1. erased \subseteq s.tx.inflight BY Zenon DEF erase_acknowledged_inflight
  <2> HIDE DEF erased
  <2>2. ASSUME NEW e \in erased
        PROVE  Carries(e, C, S) /\ Carries(GapEvidence(e), C, S)
    <3>1. e \in TxEntry /\ Carries(e, C, S) BY <1>1, <2>1, Zenon DEF Sends, Labelled
    <3>2. /\ GapEvidence(e).conn_id = e.conn_id /\ GapEvidence(e).payload = e.payload
          /\ GapEvidence(e).channel_type = e.channel_type
      BY <3>1, Zenon DEF GapEvidence, TxEntry
    <3> QED BY <3>1, <3>2, Zenon DEF Carries
  <2> QED BY <2>2, Zenon DEF mark_gap_fast_retransmit_candidates, Labelled
<1>3. tx = [s.tx EXCEPT !.remote_ack = p.ack, !.inflight = marked]
  BY Zenon DEF on_remote_ack, OK, SessionState, TxSessionState
<1> HIDE DEF erased, marked, tx
<1>4. tx.inflight = marked /\ tx.pending_send = s.tx.pending_send
  BY <1>3, Zenon DEF OK, SessionState, TxSessionState
<1>5. Sends(tx, C, S) BY <1>2, <1>4, Zenon DEF Sends
<1>6. acked.tx = tx /\ DOMAIN acked = SessionFields
  BY Zenon DEF OK, SessionState, SessionFields
<1> HIDE DEF acked
<1>7. closed.tx = tx /\ DOMAIN closed = SessionFields BY <1>6, Zenon DEF SessionFields
<1> HIDE DEF closed
<1>8. emit_control_event(closed, "ConnectionClosed", p).tx = tx
  BY <1>7, Zenon DEF emit_control_event, SessionFields
<1>9. \/ apply_remote_ack(s, kind, p) = s
      \/ apply_remote_ack(s, kind, p) = acked
      \/ apply_remote_ack(s, kind, p) =
           emit_control_event(closed, "ConnectionClosed", p)
  BY Zenon DEF apply_remote_ack, closed, acked, tx
<1> QED BY <1>5, <1>6, <1>8, <1>9, Zenon

LEMMA ReceiveSends ==
  ASSUME NEW s, OK(s), NEW C, NEW S, Sends(s.tx, C, S),
         NEW p \in Packet, NEW lingering \in BOOLEAN
  PROVE  Sends(on_datagram_received(s, p, lingering).tx, C, S)
<1> DEFINE kind == classify_control_kind(p.flags)
           adopted == adopt_server_conn_id(s, kind, p)
           probed == handle_probe_receive(adopted, kind)
           acked == apply_remote_ack(probed, kind, p)
           decision == decide_connection_transition(acked.role,
                                                    acked.connection_state, kind)
           decided == apply_connection_decision(acked, p, decision)
           received == [decided EXCEPT !.rx = on_packet(@, p, kind)]
           live == update_post_receive_liveness(received, kind)
           last == schedule_receive_side_ack(live, kind, p)
           lingers == [adopted EXCEPT !.tx.final_ack_pending = @ \/ lingering]
           Kept(t, u) == /\ DOMAIN t = SessionFields /\ DOMAIN t.tx = TxFields
                         /\ t.tx.inflight = u.tx.inflight
                         /\ t.tx.pending_send = u.tx.pending_send
<1>1. OK(adopted) /\ adopted.tx = s.tx
  BY Zenon DEF adopt_server_conn_id, OK, SessionState, Packet
<1> HIDE DEF kind, adopted
<1>2. OK(probed) BY <1>1, ProbeReceiveOK, Zenon
<1>3. Kept(probed, adopted)
  BY <1>1, Zenon DEF handle_probe_receive, OK, SessionState, TxSessionState,
                     SessionFields, TxFields
<1> HIDE DEF probed
<1>4. OK(acked) BY <1>2, RemoteAckOK, Zenon
<1>5. Sends(probed.tx, C, S) BY <1>1, <1>3, Zenon DEF Sends
<1>6. Sends(acked.tx, C, S) BY <1>2, <1>5, RemoteAckSends, Zenon
<1> HIDE DEF acked, decision
<1>7. Kept(decided, acked)
  BY <1>4, Zenon DEF apply_connection_decision, emit_control_event, OK, SessionState,
     TxSessionState, SessionFields, TxFields
<1> HIDE DEF decided
<1>8. Kept(received, acked) BY <1>7, Zenon DEF SessionFields
<1> HIDE DEF received
<1>9. Kept(live, acked) BY <1>8, Zenon DEF update_post_receive_liveness, SessionFields, TxFields
<1> HIDE DEF live
<1>10. Kept(last, acked) BY <1>9, Zenon DEF schedule_receive_side_ack, SessionFields, TxFields
<1>11. process_packet(adopted, kind, p) = last
  BY Zenon DEF process_packet, last, live, received, decided, decision, acked, probed
<1> HIDE DEF last
<1>12. Sends(last.tx, C, S) BY <1>6, <1>10, Zenon DEF Sends
<1>13. Reset(adopted).tx = adopted.tx
  BY <1>1, Zenon DEF Reset, emit_local_error, OK, SessionState
<1>14. /\ lingers.tx.inflight = adopted.tx.inflight
       /\ lingers.tx.pending_send = adopted.tx.pending_send
  BY <1>1, Zenon DEF OK, SessionState, TxSessionState
<1>15. Sends(lingers.tx, C, S) BY <1>1, <1>14, Zenon DEF Sends
<1> HIDE DEF lingers
<1> QED BY <1>1, <1>11, <1>12, <1>13, <1>15, Zenon
        DEF on_datagram_received, kind, adopted, lingers

\* What is reported of the control path is no data.
LEMMA EmitHolds ==
  ASSUME NEW rx \in RxSessionState, NEW S, Holds(rx, S), NEW event,
         event.type = "DataReceived" /\ isReliableChannel(event.channel_type)
           => event.payload \in S
  PROVE  Holds(emit(rx, event), S)
<1>1. rx.pending_events \in Seq(SessionEvent) BY Zenon DEF RxSessionState
<1>2. /\ emit(rx, event).pending_events = Append(rx.pending_events, event)
      /\ emit(rx, event).ordered_reorder_buffer = rx.ordered_reorder_buffer
  BY Zenon DEF emit, RxSessionState
<1>3. Items(emit(rx, event).pending_events) = Items(rx.pending_events) \cup {event}
  BY <1>1, <1>2, AppendItems, Zenon
<1> QED BY <1>2, <1>3, Zenon DEF Holds

LEMMA ControlHolds ==
  ASSUME NEW s, OK(s), NEW S, Holds(s.rx, S), NEW type, NEW p
  PROVE  /\ type # "DataReceived" => Holds(emit_control_event(s, type, p).rx, S)
         /\ Holds(Reset(s).rx, S)
<1> DEFINE control == [type |-> type, seq |-> p.seq, channel_id |-> p.channel_id,
                       channel_type |-> p.channel_type, payload |-> NoPayload]
           error == [type |-> "Error", seq |-> 0, channel_id |-> 0,
                     channel_type |-> "Unreliable", payload |-> NoPayload]
<1>1. s.rx \in RxSessionState BY Zenon DEF OK, SessionState
<1>2. /\ emit_control_event(s, type, p).rx = emit(s.rx, control)
      /\ Reset(s).rx = emit(s.rx, error)
  BY Zenon DEF emit_control_event, Reset, emit_local_error, OK, SessionState
<1>3. control.type = type /\ error.type # "DataReceived" BY Zenon
<1> HIDE DEF control, error
<1> QED BY <1>1, <1>2, <1>3, EmitHolds, Zenon

\* RxHandler::handle_reliable_ordered hands over what it stored.
LEMMA OrderedHolds ==
  ASSUME NEW rx \in RxSessionState, NEW S, Holds(rx, S),
         NEW p \in Packet, p.payload \in S
  PROVE  Holds(handle_reliable_ordered(rx, p), S)
<1> DEFINE new == [seq |-> p.seq, channel_id |-> p.channel_id, payload |-> p.payload]
           filled == [ensure_ordered_delivery_started(p.seq, rx) EXCEPT
                        !.ordered_reorder_buffer = {b \in @ : b.seq # p.seq} \cup {new}]
           run == DeliverableRun(filled)
           at(i) == CHOOSE b \in filled.ordered_reorder_buffer :
                      b.seq = SeqAdd(filled.next_ordered_delivery, i - 1)
           Ev(i) == make_data_event(at(i).seq, at(i).channel_id,
                                    "ReliableOrdered", at(i).payload)
           more == [i \in 1 .. run |-> Ev(i)]
           old == rx.pending_events
<1>1. filled \in RxSessionState BY FilledType, Zenon
<1>2. new.payload \in S BY Zenon
<1>3. /\ filled.pending_events = old
      /\ filled.ordered_reorder_buffer =
           {b \in rx.ordered_reorder_buffer : b.seq # p.seq} \cup {new}
  BY Zenon DEF ensure_ordered_delivery_started, RxSessionState
<1>4. handle_reliable_ordered(rx, p) = drain_contiguous_ordered(filled)
  BY Zenon DEF handle_reliable_ordered
<1> HIDE DEF filled, new
<1>5. \A b \in filled.ordered_reorder_buffer : b.payload \in S /\ b \in BufferedPacket
  BY <1>1, <1>2, <1>3, Zenon DEF Holds, RxSessionState
<1>6. run \in Nat BY <1>1, DeliverableRunProp
<1>7. /\ drain_contiguous_ordered(filled).pending_events = old \o more
      /\ drain_contiguous_ordered(filled).ordered_reorder_buffer
           \subseteq filled.ordered_reorder_buffer
  BY <1>1, <1>3, Zenon DEF drain_contiguous_ordered, RxSessionState
<1>8. ASSUME NEW i \in 1 .. run
      PROVE  Ev(i) \in SessionEvent /\ Ev(i).payload \in S
  <2>1. i - 1 \in 0 .. run - 1 BY <1>6
  <2>2. Buffered(filled, SeqAdd(filled.next_ordered_delivery, i - 1))
    BY <1>1, <2>1, DeliverableRunProp, Zenon
  <2>3. at(i) \in filled.ordered_reorder_buffer BY <2>2, Zenon DEF Buffered
  <2>4. at(i) \in BufferedPacket /\ at(i).payload \in S BY <1>5, <2>3, Zenon
  <2> HIDE DEF at
  <2> QED BY <2>4, Zenon DEF make_data_event, SessionEvent, BufferedPacket, EventType,
                             ChannelType
<1>9. more \in Seq(SessionEvent) /\ \A v \in Items(more) : v.payload \in S
  <2> HIDE DEF Ev, run
  <2>1. more \in Seq(SessionEvent) BY <1>6, <1>8
  <2>2. DOMAIN more = 1 .. run /\ \A i \in 1 .. run : more[i] = Ev(i) BY Zenon
  <2> HIDE DEF more
  <2> QED BY <1>8, <2>1, <2>2, Zenon DEF Items
<1>10. old \in Seq(SessionEvent) BY Zenon DEF RxSessionState
<1> HIDE DEF more, run
<1>11. Items(old \o more) \subseteq Items(old) \cup Items(more)
  BY <1>9, <1>10, ConcatItems, Zenon
<1> QED BY <1>4, <1>5, <1>7, <1>9, <1>11, Zenon DEF Holds

\* RxHandler::on_packet.
LEMMA OnPacketHolds ==
  ASSUME NEW rx \in RxSessionState, NEW S, Holds(rx, S), NEW p \in Packet,
         isReliableChannel(p.channel_type) => p.payload \in S, NEW kind
  PROVE  Holds(on_packet(rx, p, kind), S)
<1> DEFINE updated == update_reliable_receive_state(rx, p, kind)
           version == VersionOf[p.payload]
           versioned == [updated EXCEPT !.monotonic_versions[p.channel_id] = version]
           event == make_data_event(p.seq, p.channel_id, p.channel_type, p.payload)
<1>1. updated \in RxSessionState BY UpdateReceiveType, Zenon
<1>2. /\ updated.pending_events = rx.pending_events
      /\ updated.ordered_reorder_buffer = rx.ordered_reorder_buffer
  BY Zenon DEF update_reliable_receive_state, advance_receive_window, RxSessionState
<1> HIDE DEF updated
<1>3. Holds(updated, S) BY <1>2, Zenon DEF Holds
<1>4. p.channel_type = "ReliableOrdered" => Holds(handle_reliable_ordered(updated, p), S)
  BY <1>1, <1>3, OrderedHolds, Zenon DEF isReliableChannel
<1>5. /\ versioned \in RxSessionState /\ versioned.pending_events = rx.pending_events
      /\ versioned.ordered_reorder_buffer = rx.ordered_reorder_buffer
  <2>1. version \in Seqs \cup {NoVersion}
    BY ProtocolAssumption, Zenon DEF Packet
  <2>2. [updated.monotonic_versions EXCEPT ![p.channel_id] = version]
        \in [ChannelId -> Seqs \cup {NoVersion}]
    BY <1>1, <2>1, Zenon DEF RxSessionState
  <2> QED BY <1>1, <1>2, <2>2, Zenon DEF RxSessionState
<1> HIDE DEF versioned, version
<1>6. Holds(versioned, S) BY <1>5, Zenon DEF Holds
<1>7. event.channel_type = p.channel_type /\ event.payload = p.payload
  BY Zenon DEF make_data_event
<1> HIDE DEF event
<1>8. Holds(DeliverNow(updated, p), S) /\ Holds(DeliverNow(versioned, p), S)
  BY <1>1, <1>3, <1>5, <1>6, <1>7, EmitHolds, Zenon DEF DeliverNow, event
<1>9. Holds(handle_monotonic_state(updated, p), S)
  BY <1>3, <1>8, Zenon DEF handle_monotonic_state, versioned, version
<1> QED BY <1>3, <1>4, <1>8, <1>9, Zenon DEF on_packet, updated

\* Session::on_datagram_received.
LEMMA ReceiveHolds ==
  ASSUME NEW s, OK(s), NEW S, Holds(s.rx, S), NEW p \in Packet,
         isReliableChannel(p.channel_type) => p.payload \in S,
         NEW lingering \in BOOLEAN
  PROVE  Holds(on_datagram_received(s, p, lingering).rx, S)
<1> DEFINE kind == classify_control_kind(p.flags)
           adopted == adopt_server_conn_id(s, kind, p)
           probed == handle_probe_receive(adopted, kind)
           tx == on_remote_ack(probed.tx, p.ack, p.ack_bits)
           cleared == [probed EXCEPT !.tx = tx]
           closed == [cleared EXCEPT !.connection_state = "Closed"]
           acked == apply_remote_ack(probed, kind, p)
           decision == decide_connection_transition(acked.role,
                                                    acked.connection_state, kind)
           quiet == Decision(decision.next_state, decision.schedule, "None")
           moved == apply_connection_decision(acked, p, quiet)
           decided == apply_connection_decision(acked, p, decision)
           received == [decided EXCEPT !.rx = on_packet(@, p, kind)]
           live == update_post_receive_liveness(received, kind)
           last == schedule_receive_side_ack(live, kind, p)
           lingers == [adopted EXCEPT !.tx.final_ack_pending = @ \/ lingering]
<1>1. OK(adopted) /\ adopted.rx = s.rx
  BY Zenon DEF adopt_server_conn_id, OK, SessionState, Packet
<1> HIDE DEF kind, adopted
<1>2. OK(probed) /\ probed.rx = s.rx
  <2>1. OK(probed) BY <1>1, ProbeReceiveOK, Zenon
  <2> QED BY <1>1, <2>1, Zenon DEF handle_probe_receive, OK, SessionState
<1> HIDE DEF probed
<1>3. OK(cleared) /\ cleared.rx = s.rx
  <2>1. tx \in TxSessionState /\ Window(tx)
    BY <1>2, OnRemoteAckOK, Zenon DEF OK, SessionState, Packet
  <2> HIDE DEF tx
  <2> QED BY <1>2, <2>1, Zenon DEF OK, SessionState
<1> HIDE DEF cleared
<1>4. OK(closed) /\ closed.rx = s.rx
  BY <1>3, Zenon DEF OK, SessionState, ConnectionState
<1> HIDE DEF closed
<1>5. OK(acked) BY <1>2, RemoteAckOK, Zenon
<1>6. Holds(acked.rx, S)
  <2>1. \/ acked = probed \/ acked = cleared
        \/ acked = emit_control_event(closed, "ConnectionClosed", p)
    BY Zenon DEF apply_remote_ack, closed, cleared
  <2>2. Holds(closed.rx, S) BY <1>4, Zenon
  <2>3. Holds(emit_control_event(closed, "ConnectionClosed", p).rx, S)
    BY <1>4, <2>2, ControlHolds
  <2> HIDE DEF acked
  <2> QED BY <1>2, <1>3, <2>1, <2>3, Zenon
<1> HIDE DEF acked
<1>7. /\ decision.next_state \in ConnectionState \cup {"Keep"}
      /\ decision.emit \in EventType \cup {"None"}
      /\ decision.emit # "DataReceived"
  BY DecisionType DEF decide_connection_transition, Decision
<1> HIDE DEF decision
<1>8. OK(decided) BY <1>5, <1>7, ConnectionDecisionOK, Zenon
<1>9. Holds(decided.rx, S)
  <2>1. quiet.next_state = decision.next_state /\ quiet.emit = "None"
        /\ quiet.schedule = decision.schedule
    BY Zenon DEF Decision
  <2> HIDE DEF quiet
  <2>2. OK(moved) BY <1>5, <1>7, <2>1, ConnectionDecisionOK, Zenon
  <2>3. moved.rx = acked.rx
    BY <1>5, <2>1, Zenon DEF apply_connection_decision, OK, SessionState
  <2>4. decided = IF decision.emit = "None" THEN moved
                  ELSE emit_control_event(moved, decision.emit, p)
    BY <2>1 DEF apply_connection_decision
  <2> HIDE DEF moved, decided
  <2>5. Holds(moved.rx, S) BY <1>6, <2>3, Zenon
  <2>6. Holds(emit_control_event(moved, decision.emit, p).rx, S)
    BY <1>7, <2>2, <2>5, ControlHolds, Zenon
  <2> QED BY <2>4, <2>5, <2>6, Zenon
<1> HIDE DEF decided
<1>10. decided.rx \in RxSessionState BY <1>8, Zenon DEF OK, SessionState
<1>11. received.rx = on_packet(decided.rx, p, kind) /\ DOMAIN received = SessionFields
  BY <1>8, Zenon DEF OK, SessionState, SessionFields
<1> HIDE DEF received
<1>12. Holds(received.rx, S) BY <1>9, <1>10, <1>11, OnPacketHolds, Zenon
<1>13. live.rx = received.rx /\ DOMAIN live = SessionFields
  BY <1>11, Zenon DEF update_post_receive_liveness, SessionFields
<1> HIDE DEF live
<1>14. last.rx = live.rx BY <1>13, Zenon DEF schedule_receive_side_ack, SessionFields
<1>15. process_packet(adopted, kind, p) = last
  BY Zenon DEF process_packet, last, live, received, decided, decision, acked, probed
<1> HIDE DEF last
<1>16. Holds(last.rx, S) BY <1>12, <1>13, <1>14, Zenon
<1>17. Holds(Reset(adopted).rx, S)
  <2>1. Holds(adopted.rx, S) BY <1>1, Zenon
  <2> QED BY <1>1, <2>1, ControlHolds, Zenon
<1>18. lingers.rx = adopted.rx BY <1>1, Zenon DEF OK, SessionState
<1> HIDE DEF lingers
<1> QED BY <1>1, <1>15, <1>16, <1>17, <1>18, Zenon
        DEF on_datagram_received, kind, adopted, lingers

\* Session::poll_tx.
LEMMA PollHolds ==
  ASSUME NEW s, OK(s), NEW S, Holds(s.rx, S), NEW clock
  PROVE  Holds(poll_tx(s, clock).session.rx, S)
<1>1. Identity(s, s.role, s.conn_id) BY TypedShape, Zenon DEF Identity, Shape
<1>2. poll_tx(s, clock).session.rx \in {s.rx, Reset(s).rx} BY <1>1, PollStep, Zenon
<1>3. Holds(Reset(s).rx, S) BY ControlHolds, Zenon
<1> QED BY <1>2, <1>3, Zenon

\* drain_events, queue_send, request_close and a new session.
LEMMA DrainHolds ==
  ASSUME NEW rx \in RxSessionState, NEW S, Holds(rx, S)
  PROVE  Holds(drain_events(rx), S)
<1>1. /\ drain_events(rx).pending_events = << >>
      /\ drain_events(rx).ordered_reorder_buffer = rx.ordered_reorder_buffer
  BY Zenon DEF drain_events, RxSessionState
<1>2. Items(<< >>) = {} BY DEF Items
<1> QED BY <1>1, <1>2, Zenon DEF Holds

LEMMA QueueSends ==
  ASSUME NEW s, OK(s), NEW C, NEW S, Sends(s.tx, C, S),
         NEW request, isReliableChannel(request.channel_type) => request.payload \in S
  PROVE  /\ Sends(queue_send(s, request).tx, C, S)
         /\ queue_send(s, request).rx = s.rx
<1>1. /\ queue_send(s, request).tx.inflight = s.tx.inflight
      /\ queue_send(s, request).tx.pending_send = Append(s.tx.pending_send, request)
      /\ queue_send(s, request).rx = s.rx
  BY Zenon DEF queue_send, queue_app_data, OK, SessionState, TxSessionState
<1>2. s.tx.pending_send \in Seq(SendRequest) BY Zenon DEF OK, SessionState, TxSessionState
<1>3. Items(queue_send(s, request).tx.pending_send) = Items(s.tx.pending_send) \cup {request}
  BY <1>1, <1>2, AppendItems, Zenon
<1> QED BY <1>1, <1>3, Zenon DEF Sends

LEMMA RequestCloseSends ==
  ASSUME NEW s, OK(s), NEW C, NEW S, Sends(s.tx, C, S)
  PROVE  Sends(request_close(s).tx, C, S) /\ request_close(s).rx = s.rx
<1>1. /\ request_close(s).tx.inflight = s.tx.inflight
      /\ request_close(s).tx.pending_send = s.tx.pending_send
      /\ request_close(s).rx = s.rx
  BY Zenon DEF request_close, OK, SessionState, TxSessionState
<1> QED BY <1>1, Zenon DEF Sends

LEMMA NewSends ==
  ASSUME NEW role, NEW seq, NEW C, NEW S
  PROVE  /\ Sends(NewSession(role, seq).tx, C, S)
         /\ Holds(NewSession(role, seq).rx, S)
<1>1. Items(<< >>) = {} BY DEF Items
<1>2. /\ NewSession(role, seq).tx.inflight = {}
      /\ NewSession(role, seq).tx.pending_send = << >>
      /\ NewSession(role, seq).rx.ordered_reorder_buffer = {}
      /\ NewSession(role, seq).rx.pending_events = << >>
  BY Zenon DEF NewSession, TxInit, RxInit
<1> QED BY <1>1, <1>2, Zenon DEF Sends, Holds, Labelled

\* A larger set of numbers and payloads allows no less.
LEMMA AllowsMore ==
  ASSUME NEW C, NEW D, NEW S, NEW T, C \subseteq D, S \subseteq T
  PROVE  /\ \A p : Carries(p, C, S) => Carries(p, D, T)
         /\ \A tx : Sends(tx, C, S) => Sends(tx, D, T)
         /\ \A rx : Holds(rx, S) => Holds(rx, T)
  BY Zenon DEF Carries, Sends, Labelled, Holds
=============================================================================
