----------------------------- MODULE RxHandler ------------------------------
(***************************************************************************)
(* The receive half of a session (src/RxHandler.cpp): the reliable receive *)
(* window, the reorder buffer of ReliableOrdered and the version filter of *)
(* MonotonicState. Each operator is one function of the code, on the       *)
(* RxSessionState record it is given.                                      *)
(***************************************************************************)
EXTENDS ConnectionStateMachine, FiniteSetsExt

EventType == {"DataReceived", "Connected", "ConnectionClosed",
              "ConnectionReset", "Error"}
SessionEvent == [type: EventType, seq: Seqs, channel_id: ChannelId,
                 channel_type: ChannelType, payload: Payload]

\* The reorder buffer (a map from seq) is the set of the packets it holds.
BufferedPacket == [seq: Seqs, channel_id: ChannelId, payload: Payload]

RxSessionState ==
  [next_expected: Seqs,                  \* cumulative ACK front; 0: none yet
   received_bits: SUBSET BitIndex,       \* bit i: next_expected + 1 + i
   ordered_reorder_buffer: SUBSET BufferedPacket,
   next_ordered_delivery: Seqs,
   ordered_delivery_started: BOOLEAN,
   monotonic_versions: [ChannelId -> Seqs \cup {NoVersion}],
   pending_events: Seq(SessionEvent)]

RxInit ==
  [next_expected |-> 0, received_bits |-> {}, ordered_reorder_buffer |-> {},
   next_ordered_delivery |-> 0, ordered_delivery_started |-> FALSE,
   monotonic_versions |-> [c \in ChannelId |-> NoVersion],
   pending_events |-> << >>]

make_data_event(seq, channel_id, channel_type, payload) ==
  [type |-> "DataReceived", seq |-> seq, channel_id |-> channel_id,
   channel_type |-> channel_type, payload |-> payload]

emit(rx, event) == [rx EXCEPT !.pending_events = Append(@, event)]

-----------------------------------------------------------------------------
\* The number of 1 bits at the low end of the bitmap.
TrailingOnes(bits) == Min({i \in 0 .. AckBitsWindow : i \notin bits})

\* Mutant: the front moves one step too far when it jumps over received bits.
advance_receive_window_too_far(rx) ==
  LET ones == TrailingOnes(rx.received_bits)
  IN  [rx EXCEPT !.next_expected = SeqAdd(@, IF ones = 0 THEN 1 ELSE ones + 2),
                 !.received_bits = {i \in BitIndex : i + ones \in @}]

\* next_expected moves one step for the packet and one for every trailing 1;
\* the bitmap is shifted for the trailing 1s only.
advance_receive_window(rx) ==
  LET ones == TrailingOnes(rx.received_bits)
  IN  [rx EXCEPT !.next_expected = SeqAdd(@, 1 + ones),
                 !.received_bits = {i \in BitIndex : i + ones \in @}]

TracksReliableState(p, kind) ==
  isReliableChannel(p.channel_type) \/ kind \in {"Syn", "SynAck", "Ack", "Fin"}

\* The front a packet is compared with: 0 stands for "nothing received yet".
ReceiveFront(rx, p) == IF rx.next_expected = 0 THEN p.seq ELSE rx.next_expected

\* The packet is ahead of the front by a distance the bitmap can represent.
InAckBitmap(rx, p) ==
  /\ seq_gt(p.seq, ReceiveFront(rx, p))
  /\ SeqSub(p.seq, ReceiveFront(rx, p)) <= AckBitsWindow

BitOf(rx, p) == SeqSub(p.seq, ReceiveFront(rx, p)) - 1

\* Mutant: a bit that is already set does not stop the payload.
should_process_payload_again(rx, p, kind) ==
  \/ ~TracksReliableState(p, kind)
  \/ p.seq = ReceiveFront(rx, p)
  \/ InAckBitmap(rx, p)

\* Mutant: what arrives out of order is acknowledged and not delivered.
should_process_in_order_only(rx, p, kind) ==
  ~TracksReliableState(p, kind) \/ p.seq = ReceiveFront(rx, p)

\* The returned "should process payload".
should_process_payload(rx, p, kind) ==
  \/ ~TracksReliableState(p, kind)
  \/ p.seq = ReceiveFront(rx, p)
  \/ InAckBitmap(rx, p) /\ BitOf(rx, p) \notin rx.received_bits

\* Mutant: an ACK is acknowledged too.
schedule_ack_for_ack(p, kind) ==
  isReliableChannel(p.channel_type) \/ kind \in {"Fin", "Ack"}

\* result.schedule_ack_only.
schedule_ack_only(p, kind) == isReliableChannel(p.channel_type) \/ kind = "Fin"

update_reliable_receive_state(rx, p, kind) ==
  LET front == [rx EXCEPT !.next_expected = ReceiveFront(rx, p)]
  IN  IF ~TracksReliableState(p, kind) THEN rx
      ELSE IF p.seq = ReceiveFront(rx, p) THEN advance_receive_window(front)
      ELSE IF InAckBitmap(rx, p)
        THEN [front EXCEPT !.received_bits = @ \cup {BitOf(rx, p)}]
      ELSE front

-----------------------------------------------------------------------------
Buffered(rx, seq) == \E b \in rx.ordered_reorder_buffer : b.seq = seq

\* The length of the run of buffered packets that starts at the delivery point.
DeliverableRun(rx) ==
  Min({n \in 0 .. SeqMod :
         n = SeqMod \/ ~Buffered(rx, SeqAdd(rx.next_ordered_delivery, n))})

\* Mutant: at most one packet is drained per arrival.
drain_one_ordered(rx) ==
  LET next == {b \in rx.ordered_reorder_buffer : b.seq = rx.next_ordered_delivery}
      b == CHOOSE b \in next : TRUE
  IN  IF next = {} THEN rx
      ELSE [emit(rx, make_data_event(b.seq, b.channel_id, "ReliableOrdered", b.payload))
            EXCEPT !.ordered_reorder_buffer = @ \ next,
                   !.next_ordered_delivery = SeqAdd(@, 1)]

drain_contiguous_ordered(rx) ==
  LET run == DeliverableRun(rx)
      at(i) == CHOOSE b \in rx.ordered_reorder_buffer :
                 b.seq = SeqAdd(rx.next_ordered_delivery, i - 1)
      event(i) == make_data_event(at(i).seq, at(i).channel_id,
                                  "ReliableOrdered", at(i).payload)
  IN  [rx EXCEPT
         !.pending_events = @ \o [i \in 1 .. run |-> event(i)],
         !.ordered_reorder_buffer =
            {b \in @ : SeqSub(b.seq, rx.next_ordered_delivery) >= run},
         !.next_ordered_delivery = SeqAdd(@, run)]

\* Mutant: every ordered packet restarts delivery at its own number.
handle_reliable_ordered_restarting(rx, p) ==
  drain_contiguous_ordered([rx EXCEPT
    !.next_ordered_delivery = p.seq,
    !.ordered_delivery_started = TRUE,
    !.ordered_reorder_buffer =
       {b \in @ : b.seq # p.seq} \cup
       {[seq |-> p.seq, channel_id |-> p.channel_id, payload |-> p.payload]}])

ensure_ordered_delivery_started(seq, rx) ==
  [rx EXCEPT !.next_ordered_delivery =
                IF rx.ordered_delivery_started THEN @ ELSE seq,
             !.ordered_delivery_started = TRUE]

handle_reliable_ordered(rx, p) ==
  LET packet == [seq |-> p.seq, channel_id |-> p.channel_id, payload |-> p.payload]
  IN  drain_contiguous_ordered(
        [ensure_ordered_delivery_started(p.seq, rx) EXCEPT
           !.ordered_reorder_buffer = {b \in @ : b.seq # p.seq} \cup {packet}])

DeliverNow(rx, p) ==
  emit(rx, make_data_event(p.seq, p.channel_id, p.channel_type, p.payload))

\* A payload without version, or not newer than the last one, is ignored.
handle_monotonic_state(rx, p) ==
  LET version == VersionOf[p.payload]
      current == rx.monotonic_versions[p.channel_id]
  IN  IF version = NoVersion \/ (current # NoVersion /\ seq_le(version, current))
      THEN rx
      ELSE DeliverNow([rx EXCEPT !.monotonic_versions[p.channel_id] = version], p)

on_packet(rx, p, kind) ==
  LET updated == update_reliable_receive_state(rx, p, kind)
  IN  IF kind # "None" \/ ~should_process_payload(rx, p, kind) THEN updated
      ELSE IF p.channel_type = "ReliableOrdered"
        THEN handle_reliable_ordered(updated, p)
      ELSE IF p.channel_type = "MonotonicState"
        THEN handle_monotonic_state(updated, p)
      ELSE DeliverNow(updated, p)

drain_events(rx) == [rx EXCEPT !.pending_events = << >>]
=============================================================================
