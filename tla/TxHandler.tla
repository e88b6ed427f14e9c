----------------------------- MODULE TxHandler ------------------------------
(***************************************************************************)
(* The send half of a session (src/TxHandler.cpp): sequence assignment,    *)
(* the in-flight table, acknowledgement processing, retransmission and the *)
(* priority order of poll. An operator here takes the whole session        *)
(* record: poll reads role, conn_id and rx next to tx, and may change the  *)
(* connection state.                                                       *)
(***************************************************************************)
EXTENDS RxHandler

CONSTANTS
  MaxRetransmitCount,        \* transport.max_retransmit_count
  FastRetxEvidenceThreshold  \* transport.fast_retx_evidence_threshold

ASSUME TxAssumption ==
  /\ MaxRetransmitCount \in Nat
  /\ FastRetxEvidenceThreshold \in Nat \ {0}

\* The in-flight table (a map from seq) is the set of its entries. The ack
\* fields of a stored header are overwritten before every use, so an entry
\* does not keep them; gap_evidence_count saturates at the threshold, which
\* is all that is ever asked of it.
TxEntry ==
  [seq: Seqs, conn_id: ConnId, channel_id: ChannelId,
   channel_type: ChannelType, flags: SUBSET Flag, payload: Payload,
   retry_count: 0 .. MaxRetransmitCount,
   gap_evidence_count: 0 .. FastRetxEvidenceThreshold,
   fast_retx_pending: BOOLEAN]

TxSessionState ==
  [next_seq: Seqs, remote_ack: Seqs, pending_send: Seq(SendRequest),
   inflight: SUBSET TxEntry,
   syn_ack_pending: BOOLEAN, final_ack_pending: BOOLEAN, fin_pending: BOOLEAN,
   ack_only_pending: BOOLEAN, reliable_ack_pending: BOOLEAN,
   activity_ack_pending: BOOLEAN,
   ping_pending: BOOLEAN, pong_pending: BOOLEAN, ping_outstanding: BOOLEAN]

TxInit(initial_seq) ==
  [next_seq |-> initial_seq, remote_ack |-> initial_seq, pending_send |-> << >>,
   inflight |-> {},
   syn_ack_pending |-> FALSE, final_ack_pending |-> FALSE,
   fin_pending |-> FALSE, ack_only_pending |-> FALSE,
   reliable_ack_pending |-> FALSE, activity_ack_pending |-> FALSE,
   ping_pending |-> FALSE, pong_pending |-> FALSE, ping_outstanding |-> FALSE]

-----------------------------------------------------------------------------
\* Acknowledgements

\* Mutant: ack itself, the next expected number, counts as acknowledged.
is_acknowledged_inclusive(seq, ack, ack_bits) ==
  \/ seq_le(seq, ack)
  \/ seq_gt(seq, ack) /\ SeqSub(seq, ack) - 1 \in ack_bits

is_acknowledged_by_remote(seq, ack, ack_bits) ==
  \/ seq_lt(seq, ack)
  \/ seq_gt(seq, ack) /\ SeqSub(seq, ack) - 1 \in ack_bits

\* Mutant: only the newest packet below ack is erased.
erase_newest_inflight(inflight, ack, ack_bits) ==
  {e \in inflight : SeqAdd(e.seq, 1) # ack}

erase_acknowledged_inflight(inflight, ack, ack_bits) ==
  {e \in inflight : ~is_acknowledged_by_remote(e.seq, ack, ack_bits)}

\* One more piece of evidence that e is missing at the peer.
GapEvidence(e) ==
  LET count == IF e.gap_evidence_count < FastRetxEvidenceThreshold
               THEN e.gap_evidence_count + 1 ELSE e.gap_evidence_count
  IN  [e EXCEPT !.gap_evidence_count = count,
                !.fast_retx_pending = @ \/ count >= FastRetxEvidenceThreshold]

\* inflight holds no acknowledged entry any more: what is left between ack
\* and the highest selectively acknowledged sequence number is a gap.
mark_gap_fast_retransmit_candidates(inflight, ack, ack_bits) ==
  IF ack_bits = {} THEN inflight
  ELSE {IF SeqSub(e.seq, ack) <= Max(ack_bits) + 1 THEN GapEvidence(e) ELSE e :
          e \in inflight}

on_remote_ack(tx, ack, ack_bits) ==
  [tx EXCEPT !.remote_ack = ack,
             !.inflight = mark_gap_fast_retransmit_candidates(
                            erase_acknowledged_inflight(@, ack, ack_bits),
                            ack, ack_bits)]

acknowledged_fin(tx, ack, ack_bits) ==
  \E e \in tx.inflight :
    "Fin" \in e.flags /\ is_acknowledged_by_remote(e.seq, ack, ack_bits)

-----------------------------------------------------------------------------
\* Building datagrams

queue_app_data(tx, request) == [tx EXCEPT !.pending_send = Append(@, request)]

\* Mutant: the window holds one packet too many.
reliable_window_overfull(tx) ==
  SeqSub(tx.next_seq, tx.remote_ack) > ReliableWindowSize

reliable_window_full(tx) ==
  SeqSub(tx.next_seq, tx.remote_ack) >= ReliableWindowSize

\* Mutant: a FIN is sent once and forgotten.
consumes_reliable_seq_syn(flags) == "Syn" \in flags

consumes_reliable_seq(flags) == "Syn" \in flags \/ "Fin" \in flags

\* An outbound datagram: Ack and AckBits always come from the receive state.
Outbound(s, conn_id, seq, channel_id, channel_type, flags, payload) ==
  [conn_id |-> conn_id, seq |-> seq, ack |-> s.rx.next_expected,
   ack_bits |-> s.rx.received_bits, channel_id |-> channel_id,
   channel_type |-> channel_type, flags |-> flags, payload |-> payload]

ControlDatagram(s, seq, flags) ==
  Outbound(s, s.conn_id, seq, 0, "Unreliable", flags, NoPayload)

\* Mutant: the payload has been moved into the datagram before it is stored.
NewEntry_moved_from(p) ==
  [seq |-> p.seq, conn_id |-> p.conn_id, channel_id |-> p.channel_id,
   channel_type |-> p.channel_type, flags |-> p.flags, payload |-> NoPayload,
   retry_count |-> 0, gap_evidence_count |-> 0, fast_retx_pending |-> FALSE]

NewEntry(p) ==
  [seq |-> p.seq, conn_id |-> p.conn_id, channel_id |-> p.channel_id,
   channel_type |-> p.channel_type, flags |-> p.flags, payload |-> p.payload,
   retry_count |-> 0, gap_evidence_count |-> 0, fast_retx_pending |-> FALSE]

\* Mutant: next_seq does not wrap around.
TrackReliable_no_wrap(tx, p) ==
  [tx EXCEPT !.next_seq = @ + 1, !.inflight = @ \cup {NewEntry(p)}]

\* std::map::emplace: an entry already stored under the key stays.
TrackReliable(tx, p) ==
  [tx EXCEPT !.next_seq = SeqAdd(@, 1),
             !.inflight = IF \E e \in @ : e.seq = p.seq THEN @
                          ELSE @ \cup {NewEntry(p)}]

\* The result of a builder: the session after it, the datagram it returns (a
\* set of at most one), and whether it is a fatal error.
Polled(s, datagram) == [session |-> s, out |-> datagram, fatal |-> FALSE]

CanBuildControl(s, flags) ==
  ~(consumes_reliable_seq(flags) /\ reliable_window_full(s.tx))

build_control_packet(s, flags) ==
  LET p == ControlDatagram(s, IF consumes_reliable_seq(flags)
                              THEN s.tx.next_seq ELSE 0, flags)
  IN  Polled(IF consumes_reliable_seq(flags)
             THEN [s EXCEPT !.tx = TrackReliable(@, p)] ELSE s, {p})

\* The handshake or FIN packet that is due, {} if none.
HandshakeFlags(s) ==
  IF s.role = "Client" /\ s.connection_state = "Closed" THEN {"Syn"}
  ELSE IF s.tx.syn_ack_pending /\ s.connection_state = "HandshakeReceived"
    THEN {"Syn", "Ack"}
  ELSE IF s.tx.final_ack_pending /\ s.connection_state = "Established"
    THEN {"Ack"}
  ELSE IF s.tx.fin_pending /\ s.connection_state = "Closing" THEN {"Fin"}
  ELSE {}

\* A client that was Closed is HandshakeSent even if the SYN cannot be built.
EnterHandshake(s) ==
  IF HandshakeFlags(s) = {"Syn"}
  THEN [s EXCEPT !.connection_state = "HandshakeSent"] ELSE s

HandshakeReady(s) ==
  HandshakeFlags(s) # {} /\ CanBuildControl(s, HandshakeFlags(s))

try_build_handshake(s) ==
  LET flags == HandshakeFlags(s)
      cleared == [EnterHandshake(s) EXCEPT
                    !.tx.syn_ack_pending = @ /\ flags # {"Syn", "Ack"},
                    !.tx.final_ack_pending = @ /\ flags # {"Ack"},
                    !.tx.fin_pending = @ /\ flags # {"Fin"}]
  IN  build_control_packet(cleared, flags)

-----------------------------------------------------------------------------
\* Retransmission: expired is the set of the in-flight sequence numbers whose
\* timeout has passed.

\* Mutant: no timeout, only gaps cause a retransmission.
RetransmitDue_gaps_only(s, expired) ==
  {e \in s.tx.inflight : e.retry_count >= MaxRetransmitCount \/ e.fast_retx_pending}

RetransmitDue(s, expired) ==
  {e \in s.tx.inflight : \/ e.retry_count >= MaxRetransmitCount
                         \/ e.fast_retx_pending
                         \/ e.seq \in expired}

\* std::map order: the entry with the numerically least key comes first.
FirstBySeq(entries) ==
  CHOOSE e \in entries : \A other \in entries : e.seq <= other.seq

try_build_retransmit(s, expired) ==
  LET e == FirstBySeq(RetransmitDue(s, expired))
      others == s.tx.inflight \ {e}
      resent == [e EXCEPT !.retry_count = @ + 1, !.gap_evidence_count = 0,
                          !.fast_retx_pending = FALSE]
  IN  IF e.retry_count >= MaxRetransmitCount
      THEN [session |-> [s EXCEPT !.tx.inflight = others],
            out |-> {}, fatal |-> TRUE]
      ELSE Polled([s EXCEPT !.tx.inflight = others \cup {resent}],
                  {Outbound(s, e.conn_id, e.seq, e.channel_id, e.channel_type,
                            e.flags, e.payload)})

-----------------------------------------------------------------------------
try_build_probe_lane(s) ==
  IF s.tx.pong_pending
  THEN Polled([s EXCEPT !.tx.pong_pending = FALSE],
              {ControlDatagram(s, 0, {"Pong"})})
  ELSE Polled([s EXCEPT !.tx.ping_pending = FALSE],
              {ControlDatagram(s, 0, {"Ping"})})

try_build_ack_only(s) ==
  Polled([s EXCEPT !.tx.ack_only_pending = FALSE],
         {ControlDatagram(s, 0, {"Ack"})})

\* A reliable request that finds the window full stays at the front.
FreshReady(s) ==
  /\ s.tx.pending_send # << >>
  /\ ~(/\ isReliableChannel(Head(s.tx.pending_send).channel_type)
       /\ reliable_window_full(s.tx))

try_build_fresh(s) ==
  LET request == Head(s.tx.pending_send)
      reliable == isReliableChannel(request.channel_type)
      p == Outbound(s, s.conn_id, IF reliable THEN s.tx.next_seq ELSE 0,
                    request.channel_id, request.channel_type, {},
                    request.payload)
      popped == [s.tx EXCEPT !.pending_send = Tail(@)]
  IN  Polled([s EXCEPT !.tx = IF reliable THEN TrackReliable(popped, p)
                              ELSE popped], {p})

\* TxHandler::poll: at most one datagram, by priority.
poll(s, expired) ==
  LET entered == EnterHandshake(s)
  IN  IF HandshakeReady(s) THEN try_build_handshake(s)
      ELSE IF RetransmitDue(entered, expired) # {}
        THEN try_build_retransmit(entered, expired)
      ELSE IF entered.tx.pong_pending \/ entered.tx.ping_pending
        THEN try_build_probe_lane(entered)
      ELSE IF entered.tx.ack_only_pending THEN try_build_ack_only(entered)
      ELSE IF FreshReady(entered) THEN try_build_fresh(entered)
      ELSE Polled(entered, {})
=============================================================================
