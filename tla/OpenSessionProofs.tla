------------------------- MODULE OpenSessionProofs --------------------------
(***************************************************************************)
(* Theorems about OpenSession, for every value of the constants: every     *)
(* window size, sequence space, retry limit and threshold, and every set   *)
(* of packets the peer may send.                                           *)
(***************************************************************************)
EXTENDS OpenSession, SessionProofs

-----------------------------------------------------------------------------
\* Roles, the reorder buffer and the probes

\* RoleDiscipline, of any session.
InRole(s) ==
  IF s.role = "Client"
  THEN s.connection_state # "HandshakeReceived" /\ ~s.tx.syn_ack_pending
  ELSE /\ s.connection_state # "HandshakeSent" /\ ~s.tx.final_ack_pending
       /\ ~s.tx.ping_pending /\ ~s.tx.ping_outstanding

\* NothingDeliverableBuffered, of any receive state.
NoneWaits(rx) == ~Buffered(rx, rx.next_ordered_delivery)

Disciplined(s) == Shape(s) /\ InRole(s) /\ NoneWaits(s.rx)

-----------------------------------------------------------------------------
\* The receive half

\* emit appends an event and changes nothing else.
LEMMA EmitFrame ==
  ASSUME NEW rx, DOMAIN rx = RxFields, NoneWaits(rx), NEW event
  PROVE  DOMAIN emit(rx, event) = RxFields /\ NoneWaits(emit(rx, event))
  BY Zenon DEF emit, NoneWaits, Buffered, RxFields

\* A drain delivers up to the first number that is not buffered: either that
\* number is the new delivery point, or the whole ring was buffered and the
\* buffer is empty now.
LEMMA DrainLeavesNone ==
  ASSUME NEW rx \in RxSessionState
  PROVE  NoneWaits(drain_contiguous_ordered(rx))
<1> DEFINE next == rx.next_ordered_delivery
           run == DeliverableRun(rx)
           S == {n \in 0 .. SeqMod :
                  n = SeqMod \/ ~Buffered(rx, SeqAdd(next, n))}
           rest == {b \in rx.ordered_reorder_buffer : SeqSub(b.seq, next) >= run}
           drained == drain_contiguous_ordered(rx)
<1> SUFFICES NoneWaits(drained) BY Zenon
<1>1. SeqMod \in Nat /\ SeqMod > 0 BY ProtocolAssumption DEF SeqMod
<1>2. S \subseteq Nat /\ SeqMod \in S BY <1>1
<1>3. run \in S
  <2>1. Min(S) \in S BY <1>2, MinOfNats, Zenon
  <2>2. run = Min(S) BY Zenon DEF DeliverableRun
  <2> QED BY <2>1, <2>2, Zenon
<1>4. /\ drained.ordered_reorder_buffer = rest
      /\ drained.next_ordered_delivery = SeqAdd(next, run)
  BY Zenon DEF drain_contiguous_ordered, RxSessionState
<1> HIDE DEF drained, run
<1>5. CASE ~Buffered(rx, SeqAdd(next, run))
  <2>1. rest \subseteq rx.ordered_reorder_buffer BY Zenon
  <2> HIDE DEF rest, next
  <2> QED BY <1>4, <1>5, <2>1, Zenon DEF NoneWaits, Buffered
<1>6. CASE run = SeqMod
  <2>1. ASSUME NEW b \in rx.ordered_reorder_buffer PROVE ~(SeqSub(b.seq, next) >= run)
    <3>1. b.seq \in Seqs /\ next \in Seqs BY Zenon DEF RxSessionState, BufferedPacket
    <3>2. SeqSub(b.seq, next) \in 0 .. SeqMod - 1
      BY <3>1, ProtocolAssumption DEF SeqSub, Seqs, SeqMod
    <3> QED BY <1>1, <1>6, <3>2
  <2> QED BY <1>4, <2>1, Zenon DEF NoneWaits, Buffered
<1> QED BY <1>3, <1>5, <1>6, Zenon

\* RxHandler::on_packet: only an ordered payload touches the buffer, and it
\* ends with a drain.
LEMMA OnPacketFrame ==
  ASSUME NEW rx \in RxSessionState, DOMAIN rx = RxFields, NoneWaits(rx),
         NEW p \in Packet, NEW kind
  PROVE  LET r == on_packet(rx, p, kind) IN DOMAIN r = RxFields /\ NoneWaits(r)
<1> DEFINE updated == update_reliable_receive_state(rx, p, kind)
           versioned == [updated EXCEPT
                           !.monotonic_versions[p.channel_id] = VersionOf[p.payload]]
<1>1. DOMAIN updated = RxFields /\ NoneWaits(updated)
  BY Zenon DEF update_reliable_receive_state, advance_receive_window, NoneWaits,
         Buffered, RxFields
<1>2. handle_reliable_ordered(updated, p) \in RxSessionState
  BY UpdateReceiveType, OrderedType, Zenon
<1>3. NoneWaits(handle_reliable_ordered(updated, p))
  <2> DEFINE new == [seq |-> p.seq, channel_id |-> p.channel_id, payload |-> p.payload]
             started == ensure_ordered_delivery_started(p.seq, updated)
             filled == [started EXCEPT !.ordered_reorder_buffer =
                          {b \in @ : b.seq # p.seq} \cup {new}]
  <2>1. updated \in RxSessionState BY UpdateReceiveType, Zenon
  <2> HIDE DEF updated
  <2>2. filled \in RxSessionState BY <2>1, FilledType, Zenon
  <2>3. handle_reliable_ordered(updated, p) = drain_contiguous_ordered(filled)
    BY Zenon DEF handle_reliable_ordered
  <2> HIDE DEF filled
  <2> QED BY <2>2, <2>3, DrainLeavesNone, Zenon
<1>4. DOMAIN handle_reliable_ordered(updated, p) = RxFields
  BY <1>2, Zenon DEF RxSessionState, RxFields
<1> HIDE DEF updated
<1>5. DOMAIN versioned = RxFields /\ NoneWaits(versioned)
  BY <1>1, Zenon DEF NoneWaits, Buffered, RxFields
<1> HIDE DEF versioned
<1>6. ASSUME NEW r, DOMAIN r = RxFields, NoneWaits(r)
      PROVE  DOMAIN DeliverNow(r, p) = RxFields /\ NoneWaits(DeliverNow(r, p))
  BY <1>6, EmitFrame, Zenon DEF DeliverNow
<1>7. /\ DOMAIN DeliverNow(updated, p) = RxFields /\ NoneWaits(DeliverNow(updated, p))
      /\ DOMAIN DeliverNow(versioned, p) = RxFields /\ NoneWaits(DeliverNow(versioned, p))
  BY <1>1, <1>5, <1>6, Zenon
<1>8. LET r == handle_monotonic_state(updated, p)
      IN  DOMAIN r = RxFields /\ NoneWaits(r)
  BY <1>1, <1>7, Zenon DEF handle_monotonic_state, versioned
<1> QED BY <1>1, <1>3, <1>4, <1>7, <1>8, Zenon DEF on_packet, updated

-----------------------------------------------------------------------------
\* The handlers of Session


LEMMA EventDisciplined ==
  ASSUME NEW s, Disciplined(s), NEW type, NEW p
  PROVE  /\ Disciplined(emit_control_event(s, type, p))
         /\ Disciplined(emit_local_error(s))
  BY EmitFrame, Zenon DEF Disciplined, Shape, InRole, SessionFields,
     emit_control_event, emit_local_error

LEMMA ResetDisciplined == ASSUME NEW s, Disciplined(s) PROVE Disciplined(Reset(s))
<1> DEFINE r == [s EXCEPT !.connection_state = "Reset"]
<1>1. Disciplined(r) BY Zenon DEF Disciplined, Shape, InRole, SessionFields
<1> HIDE DEF r
<1>2. Disciplined(emit_local_error(r)) BY <1>1, EventDisciplined, Zenon
<1> QED BY <1>2, Zenon DEF Reset, r

\* A new transmit state that differs only in what no role clause mentions.
LEMMA TxDisciplined ==
  ASSUME NEW s, Disciplined(s), NEW tx, DOMAIN tx = TxFields,
         tx.syn_ack_pending = s.tx.syn_ack_pending,
         tx.final_ack_pending = s.tx.final_ack_pending,
         tx.ping_pending = s.tx.ping_pending,
         tx.ping_outstanding = s.tx.ping_outstanding
  PROVE  Disciplined([s EXCEPT !.tx = tx])
  BY Zenon DEF Disciplined, Shape, InRole, SessionFields

\* poll_tx: the builders of TxHandler.
LEMMA EnterDisciplined ==
  ASSUME NEW s, Disciplined(s), OK(s)
  PROVE  Disciplined(EnterHandshake(s))
<1>1. CASE HandshakeFlags(s) # {"Syn"} BY <1>1, Zenon DEF EnterHandshake
<1>2. CASE HandshakeFlags(s) = {"Syn"}
  <2>1. s.role = "Client"
    BY <1>2 DEF HandshakeFlags
  <2> QED
    BY <1>2, <2>1, Zenon DEF EnterHandshake, Disciplined, Shape, InRole, SessionFields
<1> QED BY <1>1, <1>2, Zenon

LEMMA TrackDisciplined ==
  ASSUME NEW s, Disciplined(s), NEW tx, DOMAIN tx = TxFields, NEW p,
         tx.syn_ack_pending = s.tx.syn_ack_pending,
         tx.final_ack_pending = s.tx.final_ack_pending,
         tx.ping_pending = s.tx.ping_pending,
         tx.ping_outstanding = s.tx.ping_outstanding
  PROVE  Disciplined([s EXCEPT !.tx = TrackReliable(tx, p)])
<1> DEFINE t == TrackReliable(tx, p)
<1>1. /\ DOMAIN t = TxFields
      /\ t.syn_ack_pending = tx.syn_ack_pending
      /\ t.final_ack_pending = tx.final_ack_pending
      /\ t.ping_pending = tx.ping_pending
      /\ t.ping_outstanding = tx.ping_outstanding
  BY Zenon DEF TrackReliable, TxFields
<1> HIDE DEF t
<1>2. Disciplined([s EXCEPT !.tx = t]) BY <1>1, TxDisciplined, Zenon
<1> QED BY <1>2, Zenon DEF t

LEMMA HandshakeDisciplined ==
  ASSUME NEW s, Disciplined(s), OK(s)
  PROVE  Disciplined(try_build_handshake(s).session)
<1> DEFINE flags == HandshakeFlags(s)
           cleared == [EnterHandshake(s) EXCEPT
                    !.tx.syn_ack_pending = @ /\ flags # {"Syn", "Ack"},
                    !.tx.final_ack_pending = @ /\ flags # {"Ack"},
                    !.tx.fin_pending = @ /\ flags # {"Fin"}]
           p == ControlDatagram(cleared, IF consumes_reliable_seq(flags)
                                         THEN cleared.tx.next_seq ELSE 0, flags)
<1>1. Disciplined(EnterHandshake(s)) BY EnterDisciplined, Zenon
<1>2. Disciplined(cleared)
  BY <1>1, Zenon DEF Disciplined, Shape, InRole, SessionFields, TxFields
<1> HIDE DEF cleared, flags
<1>3. Disciplined([cleared EXCEPT !.tx = TrackReliable(cleared.tx, p)])
  BY <1>2, TrackDisciplined DEF Disciplined, Shape
<1>4. try_build_handshake(s).session =
        IF consumes_reliable_seq(flags)
        THEN [cleared EXCEPT !.tx = TrackReliable(cleared.tx, p)] ELSE cleared
  BY Zenon DEF try_build_handshake, build_control_packet, Polled, cleared, flags
<1> QED BY <1>2, <1>3, <1>4, Zenon

LEMMA LanesDisciplined ==
  ASSUME NEW s, Disciplined(s), NEW expired
  PROVE  /\ Disciplined(try_build_retransmit(s, expired).session)
         /\ Disciplined(try_build_probe_lane(s).session)
         /\ Disciplined(try_build_ack_only(s).session)
         /\ Disciplined(try_build_fresh(s).session)
<1>1. DOMAIN s.tx = TxFields BY Zenon DEF Disciplined, Shape
<1>2. ASSUME NEW entries
      PROVE  Disciplined([s EXCEPT !.tx.inflight = entries])
  <2> DEFINE t == [s.tx EXCEPT !.inflight = entries]
  <2>1. /\ DOMAIN t = TxFields
        /\ t.syn_ack_pending = s.tx.syn_ack_pending
        /\ t.final_ack_pending = s.tx.final_ack_pending
        /\ t.ping_pending = s.tx.ping_pending
        /\ t.ping_outstanding = s.tx.ping_outstanding
    BY <1>1, Zenon DEF TxFields
  <2> HIDE DEF t
  <2>2. Disciplined([s EXCEPT !.tx = t]) BY <2>1, TxDisciplined, Zenon
  <2> QED BY <2>2, Zenon DEF t
<1>3. Disciplined(try_build_retransmit(s, expired).session)
  BY <1>2, Zenon DEF try_build_retransmit, Polled
<1>4. Disciplined(try_build_probe_lane(s).session)
  BY Zenon DEF try_build_probe_lane, Polled, Disciplined, Shape, InRole,
         SessionFields, TxFields
<1>5. Disciplined(try_build_ack_only(s).session)
  BY Zenon DEF try_build_ack_only, Polled, Disciplined, Shape, InRole,
         SessionFields, TxFields
<1>6. Disciplined(try_build_fresh(s).session)
  <2> DEFINE request == Head(s.tx.pending_send)
             reliable == isReliableChannel(request.channel_type)
             p == Outbound(s, s.conn_id, IF reliable THEN s.tx.next_seq ELSE 0,
                           request.channel_id, request.channel_type, {},
                           request.payload)
             popped == [s.tx EXCEPT !.pending_send = Tail(@)]
  <2>1. /\ DOMAIN popped = TxFields
        /\ popped.syn_ack_pending = s.tx.syn_ack_pending
        /\ popped.final_ack_pending = s.tx.final_ack_pending
        /\ popped.ping_pending = s.tx.ping_pending
        /\ popped.ping_outstanding = s.tx.ping_outstanding
    BY <1>1, Zenon DEF TxFields
  <2> HIDE DEF popped, p, reliable
  <2>2. /\ Disciplined([s EXCEPT !.tx = popped])
        /\ Disciplined([s EXCEPT !.tx = TrackReliable(popped, p)])
    BY <2>1, TxDisciplined, TrackDisciplined, Zenon
  <2>3. try_build_fresh(s).session =
          [s EXCEPT !.tx = IF reliable THEN TrackReliable(popped, p) ELSE popped]
    BY Zenon DEF try_build_fresh, Polled, popped, p, reliable
  <2> QED BY <2>2, <2>3, Zenon
<1> QED BY <1>3, <1>4, <1>5, <1>6, Zenon

-----------------------------------------------------------------------------
\* A probe is never tracked: no in-flight entry is a PING, so what a server
\* retransmits cannot start a probe.
NoProbe(entries) == \A e \in entries : "Ping" \notin e.flags

PingFree(out) == \A p \in out : "Ping" \notin p.flags

LEMMA TrackNoProbe ==
  ASSUME NEW tx, DOMAIN tx = TxFields, NoProbe(tx.inflight),
         NEW p, "Ping" \notin p.flags
  PROVE  NoProbe(TrackReliable(tx, p).inflight)
  BY DEF TrackReliable, NewEntry, NoProbe, TxFields

LEMMA HandshakeNoProbe ==
  ASSUME NEW s, Shape(s), NoProbe(s.tx.inflight)
  PROVE  /\ NoProbe(EnterHandshake(s).tx.inflight)
         /\ NoProbe(try_build_handshake(s).session.tx.inflight)
         /\ PingFree(try_build_handshake(s).out)
<1> DEFINE flags == HandshakeFlags(s)
           entered == EnterHandshake(s)
           cleared == [entered EXCEPT
                    !.tx.syn_ack_pending = @ /\ flags # {"Syn", "Ack"},
                    !.tx.final_ack_pending = @ /\ flags # {"Ack"},
                    !.tx.fin_pending = @ /\ flags # {"Fin"}]
           p == ControlDatagram(cleared, IF consumes_reliable_seq(flags)
                                         THEN cleared.tx.next_seq ELSE 0, flags)
<1>1. "Ping" \notin flags BY Zenon DEF HandshakeFlags
<1>2. Shape(entered) /\ entered.tx = s.tx
  BY Zenon DEF EnterHandshake, Shape, SessionFields
<1> HIDE DEF flags, entered
<1>3. Shape(cleared) /\ cleared.tx.inflight = s.tx.inflight
  BY <1>2, Zenon DEF Shape, SessionFields, TxFields
<1>4. "Ping" \notin p.flags BY <1>1, Zenon DEF ControlDatagram, Outbound
<1>5. /\ try_build_handshake(s).session =
          IF consumes_reliable_seq(flags)
          THEN [cleared EXCEPT !.tx = TrackReliable(cleared.tx, p)] ELSE cleared
      /\ try_build_handshake(s).out = {p}
  BY Zenon DEF try_build_handshake, build_control_packet, Polled, flags, entered
<1> HIDE DEF cleared, p
<1>6. NoProbe(TrackReliable(cleared.tx, p).inflight)
  BY <1>3, <1>4, TrackNoProbe, Zenon DEF Shape
<1> QED BY <1>2, <1>3, <1>4, <1>5, <1>6, Zenon DEF Shape, SessionFields, PingFree, entered

LEMMA RetransmitNoProbe ==
  ASSUME NEW s, OK(s), NoProbe(s.tx.inflight), NEW expired,
         RetransmitDue(s, expired) # {}
  PROVE  /\ NoProbe(try_build_retransmit(s, expired).session.tx.inflight)
         /\ PingFree(try_build_retransmit(s, expired).out)
<1> DEFINE due == RetransmitDue(s, expired)
           e == FirstBySeq(due)
           others == s.tx.inflight \ {e}
           resent == [e EXCEPT !.retry_count = @ + 1, !.gap_evidence_count = 0,
                               !.fast_retx_pending = FALSE]
           p == Outbound(s, e.conn_id, e.seq, e.channel_id, e.channel_type,
                         e.flags, e.payload)
<1>1. e \in s.tx.inflight
  <2>1. due \subseteq s.tx.inflight BY Zenon DEF RetransmitDue
  <2>2. due \subseteq TxEntry /\ due # {}
    BY <2>1, Zenon DEF OK, SessionState, TxSessionState
  <2>3. e \in due
    BY <2>2, FirstBySeqIn, Zenon
  <2> QED BY <2>1, <2>3, Zenon
<1>2. e \in TxEntry BY <1>1, Zenon DEF OK, SessionState, TxSessionState
<1>3. "Ping" \notin e.flags BY <1>1, Zenon DEF NoProbe
<1> HIDE DEF e, due
<1>4. resent.flags = e.flags BY <1>2, Zenon DEF TxEntry
<1>5. p.flags = e.flags BY Zenon DEF Outbound
<1>6. NoProbe(others) /\ NoProbe(others \cup {resent})
  BY <1>3, <1>4, Zenon DEF NoProbe
<1>7. /\ \/ try_build_retransmit(s, expired).session = [s EXCEPT !.tx.inflight = others]
         \/ try_build_retransmit(s, expired).session =
              [s EXCEPT !.tx.inflight = others \cup {resent}]
      /\ try_build_retransmit(s, expired).out \subseteq {p}
  BY Zenon DEF try_build_retransmit, Polled, e, due
<1> HIDE DEF others, resent, p
<1>8. ASSUME NEW entries PROVE [s EXCEPT !.tx.inflight = entries].tx.inflight = entries
  BY Zenon DEF OK, SessionState, TxSessionState
<1>9. NoProbe(try_build_retransmit(s, expired).session.tx.inflight)
  BY <1>6, <1>7, <1>8, Zenon
<1>10. PingFree(try_build_retransmit(s, expired).out)
  BY <1>3, <1>5, <1>7, Zenon DEF PingFree
<1> QED BY <1>9, <1>10, Zenon

LEMMA LanesNoProbe ==
  ASSUME NEW s, Shape(s), NoProbe(s.tx.inflight)
  PROVE  /\ NoProbe(try_build_probe_lane(s).session.tx.inflight)
         /\ NoProbe(try_build_ack_only(s).session.tx.inflight)
         /\ NoProbe(try_build_fresh(s).session.tx.inflight)
         /\ s.tx.pong_pending => PingFree(try_build_probe_lane(s).out)
         /\ PingFree(try_build_ack_only(s).out)
         /\ PingFree(try_build_fresh(s).out)
<1>1. /\ NoProbe(try_build_probe_lane(s).session.tx.inflight)
      /\ NoProbe(try_build_ack_only(s).session.tx.inflight)
  BY Zenon DEF try_build_probe_lane, try_build_ack_only, Polled, Shape, SessionFields, TxFields
<1>2. /\ s.tx.pong_pending => PingFree(try_build_probe_lane(s).out)
      /\ PingFree(try_build_ack_only(s).out)
  BY DEF try_build_probe_lane, try_build_ack_only, Polled, PingFree,
         ControlDatagram, Outbound
<1> DEFINE request == Head(s.tx.pending_send)
           reliable == isReliableChannel(request.channel_type)
           p == Outbound(s, s.conn_id, IF reliable THEN s.tx.next_seq ELSE 0,
                         request.channel_id, request.channel_type, {},
                         request.payload)
           popped == [s.tx EXCEPT !.pending_send = Tail(@)]
<1>3. DOMAIN popped = TxFields /\ popped.inflight = s.tx.inflight
  BY Zenon DEF Shape, TxFields
<1>4. p.flags = {} BY Zenon DEF Outbound
<1>5. /\ try_build_fresh(s).session =
           [s EXCEPT !.tx = IF reliable THEN TrackReliable(popped, p) ELSE popped]
      /\ try_build_fresh(s).out = {p}
  BY Zenon DEF try_build_fresh, Polled
<1> HIDE DEF popped, p, reliable
<1>6. NoProbe(TrackReliable(popped, p).inflight) BY <1>3, <1>4, TrackNoProbe, Zenon
<1>7. NoProbe(try_build_fresh(s).session.tx.inflight)
  BY <1>3, <1>5, <1>6, Zenon DEF Shape, SessionFields
<1>8. PingFree(try_build_fresh(s).out) BY <1>4, <1>5, Zenon DEF PingFree
<1> QED BY <1>1, <1>2, <1>7, <1>8, Zenon

-----------------------------------------------------------------------------
\* The whole of what the theorems need of a session, next to OK.
Good(s) == OK(s) /\ Disciplined(s) /\ NoProbe(s.tx.inflight)

\* TxHandler::poll. A server without ping_pending sends no PING.
LEMMA PollGood ==
  ASSUME NEW s, Good(s), NEW expired
  PROVE  /\ Good(poll(s, expired).session)
         /\ s.role = "Server" => PingFree(poll(s, expired).out)
         /\ poll(s, expired).session.role = s.role
<1> DEFINE entered == EnterHandshake(s)
<1>1. OK(poll(s, expired).session) BY PollOK, Zenon DEF Good
<1>2. OK(entered) /\ entered.tx = s.tx BY EnterHandshakeOK, Zenon DEF Good
<1>3. Disciplined(entered) BY EnterDisciplined, Zenon DEF Good
<1>4. entered.role = s.role
  BY Zenon DEF EnterHandshake, Good, Disciplined, Shape, SessionFields
<1>5. NoProbe(entered.tx.inflight) /\ Shape(entered) /\ Shape(s)
  BY <1>2, <1>3, Zenon DEF Good, Disciplined
<1>6. s.role = "Server" => ~entered.tx.ping_pending
  BY <1>2, Zenon DEF Good, Disciplined, InRole
<1> HIDE DEF entered
<1>7. CASE HandshakeReady(s)
  <2>1. poll(s, expired) = try_build_handshake(s) BY <1>7, Zenon DEF poll
  <2>2. try_build_handshake(s).session.role = s.role
    BY <1>4, <1>5, Zenon DEF try_build_handshake, build_control_packet, Polled, entered,
       Shape, SessionFields
  <2> QED BY <1>1, <1>5, <2>1, <2>2, HandshakeDisciplined, HandshakeNoProbe, Zenon DEF Good
<1>8. CASE ~HandshakeReady(s) /\ RetransmitDue(entered, expired) # {}
  <2>1. poll(s, expired) = try_build_retransmit(entered, expired)
    BY <1>8, Zenon DEF poll, entered
  <2>2. try_build_retransmit(entered, expired).session.role = entered.role
    BY <1>5, Zenon DEF try_build_retransmit, Polled, Shape, SessionFields
  <2> QED BY <1>1, <1>2, <1>3, <1>4, <1>5, <1>8, <2>1, <2>2, LanesDisciplined,
             RetransmitNoProbe, Zenon DEF Good
<1>9. CASE ~HandshakeReady(s) /\ RetransmitDue(entered, expired) = {}
           /\ (entered.tx.pong_pending \/ entered.tx.ping_pending)
  <2>1. poll(s, expired) = try_build_probe_lane(entered)
    BY <1>9, Zenon DEF poll, entered
  <2>2. try_build_probe_lane(entered).session.role = entered.role
    BY <1>5, Zenon DEF try_build_probe_lane, Polled, Shape, SessionFields
  <2> QED BY <1>1, <1>3, <1>4, <1>5, <1>6, <1>9, <2>1, <2>2, LanesDisciplined,
             LanesNoProbe, Zenon DEF Good
<1>10. CASE ~HandshakeReady(s) /\ RetransmitDue(entered, expired) = {}
            /\ ~(entered.tx.pong_pending \/ entered.tx.ping_pending)
  <2>1. \/ poll(s, expired) = try_build_ack_only(entered)
        \/ poll(s, expired) = try_build_fresh(entered)
        \/ poll(s, expired) = Polled(entered, {})
    BY <1>10, Zenon DEF poll, entered
  <2>2. /\ try_build_ack_only(entered).session.role = entered.role
        /\ try_build_fresh(entered).session.role = entered.role
        /\ Polled(entered, {}).session = entered /\ PingFree(Polled(entered, {}).out)
    BY <1>5, Zenon DEF try_build_ack_only, try_build_fresh, Polled, Shape, SessionFields, PingFree
  <2> QED BY <1>1, <1>3, <1>4, <1>5, <2>1, <2>2, LanesDisciplined, LanesNoProbe, Zenon DEF Good
<1> QED BY <1>7, <1>8, <1>9, <1>10, Zenon

\* A Reset leaves the in-flight table alone.
LEMMA ResetGood == ASSUME NEW s, Good(s) PROVE Good(Reset(s))
<1>1. OK(Reset(s)) BY ResetOK, Zenon DEF Good
<1>2. Disciplined(Reset(s)) BY ResetDisciplined, Zenon DEF Good
<1>3. Reset(s).tx = s.tx
  BY Zenon DEF Good, Disciplined, Shape, SessionFields, Reset, emit_local_error
<1> QED BY <1>1, <1>2, <1>3, Zenon DEF Good

\* Session::poll_tx: only a client schedules a probe, and only a PING that
\* goes out makes a session wait for the PONG.
LEMMA PollTxGood ==
  ASSUME NEW s, Good(s), NEW clock
  PROVE  Good(poll_tx(s, clock).session)
<1> DEFINE scheduled == schedule_pending_tx_work(s, clock)
           polled == poll(scheduled, clock.expired)
           result == apply_outbound_result(polled.session, polled.out)
<1>1. Good(scheduled)
  <2>1. OK(scheduled) BY ScheduleOK, Zenon DEF Good
  <2>2. Disciplined(scheduled) /\ NoProbe(scheduled.tx.inflight)
    BY Zenon DEF Good, Disciplined, Shape, InRole, SessionFields, TxFields,
           schedule_pending_tx_work, should_schedule_probe
  <2> QED BY <2>1, <2>2, Zenon DEF Good
<1> HIDE DEF scheduled
<1>2. /\ Good(polled.session)
      /\ scheduled.role = "Server" => PingFree(polled.out)
      /\ polled.session.role = scheduled.role
  BY <1>1, PollGood, Zenon
<1> HIDE DEF polled
<1>3. Good(result)
  <2>1. OK(result) BY <1>2, OutboundResultOK, Zenon DEF Good
  <2>2. ASSUME polled.session.role = "Server", NEW p \in polled.out
        PROVE  classify_control_kind(p.flags) # "Ping"
    <3>1. "Ping" \notin p.flags BY <1>2, <2>2, Zenon DEF PingFree
    <3> QED BY <3>1, Zenon DEF classify_control_kind
  <2>3. Shape(result) /\ NoneWaits(result.rx) /\ NoProbe(result.tx.inflight)
    BY <1>2, Zenon DEF Good, Disciplined, Shape, SessionFields, TxFields, apply_outbound_result
  <2>4. InRole(result)
    <3>1. CASE polled.session.role = "Client"
      BY <1>2, <3>1, Zenon DEF Good, Disciplined, Shape, InRole, SessionFields, TxFields,
         apply_outbound_result
    <3>2. CASE polled.session.role = "Server"
      <4>1. ~\E p \in polled.out : classify_control_kind(p.flags) = "Ping"
        BY <2>2, <3>2, Zenon
      <4> QED BY <1>2, <3>2, <4>1, Zenon DEF Good, Disciplined, Shape, InRole,
              SessionFields, TxFields, apply_outbound_result
    <3> QED BY <1>2, <3>1, <3>2, Zenon DEF Good, Disciplined, Shape, SessionRole
  <2> QED BY <2>1, <2>3, <2>4, Zenon DEF Good, Disciplined
<1> HIDE DEF result
<1>4. Good(Reset(s)) /\ Good(Reset(polled.session)) BY <1>2, ResetGood, Zenon
<1>5. \/ poll_tx(s, clock).session = Reset(s)
      \/ poll_tx(s, clock).session = Reset(polled.session)
      \/ poll_tx(s, clock).session = result
  BY Zenon DEF poll_tx, result, polled, scheduled
<1> QED BY <1>3, <1>4, <1>5, Zenon

-----------------------------------------------------------------------------
\* on_datagram_received

LEMMA RemoteAckGood ==
  ASSUME NEW s, Good(s), NEW kind, NEW p \in Packet
  PROVE  Good(apply_remote_ack(s, kind, p))
<1> DEFINE erased == erase_acknowledged_inflight(s.tx.inflight, p.ack, p.ack_bits)
           marked == mark_gap_fast_retransmit_candidates(erased, p.ack, p.ack_bits)
           tx == on_remote_ack(s.tx, p.ack, p.ack_bits)
           acked == [s EXCEPT !.tx = tx]
           closed == [acked EXCEPT !.connection_state = "Closed"]
<1>1. OK(apply_remote_ack(s, kind, p)) BY RemoteAckOK, Zenon DEF Good
<1>2. DOMAIN s.tx = TxFields /\ s.tx.inflight \subseteq TxEntry /\ NoProbe(s.tx.inflight)
  BY Zenon DEF Good, Disciplined, Shape, OK, SessionState, TxSessionState
<1>3. NoProbe(marked)
  <2>1. erased \subseteq s.tx.inflight BY Zenon DEF erase_acknowledged_inflight
  <2> HIDE DEF erased
  <2>2. ASSUME NEW e \in erased
        PROVE  "Ping" \notin e.flags /\ "Ping" \notin GapEvidence(e).flags
    <3>1. e \in TxEntry /\ "Ping" \notin e.flags BY <1>2, <2>1, Zenon DEF NoProbe
    <3> QED BY <3>1, Zenon DEF GapEvidence, TxEntry
  <2> QED BY <2>2, Zenon DEF mark_gap_fast_retransmit_candidates, NoProbe
<1>4. tx = [s.tx EXCEPT !.remote_ack = p.ack, !.inflight = marked]
  BY <1>2, Zenon DEF on_remote_ack, TxFields
<1> HIDE DEF erased, marked, tx
<1>5. /\ DOMAIN tx = TxFields /\ NoProbe(tx.inflight)
      /\ tx.syn_ack_pending = s.tx.syn_ack_pending
      /\ tx.final_ack_pending = s.tx.final_ack_pending
      /\ tx.ping_pending = s.tx.ping_pending
      /\ tx.ping_outstanding = s.tx.ping_outstanding
  BY <1>2, <1>3, <1>4, Zenon DEF TxFields
<1>6. Disciplined(acked) BY <1>5, TxDisciplined, Zenon DEF Good
<1>7. acked.tx = tx BY Zenon DEF Good, Disciplined, Shape, SessionFields
<1> HIDE DEF acked
<1>8. Disciplined(closed) /\ closed.tx = tx
  BY <1>6, <1>7, Zenon DEF Disciplined, Shape, InRole, SessionFields
<1> HIDE DEF closed
<1>9. /\ Disciplined(emit_control_event(closed, "ConnectionClosed", p))
      /\ emit_control_event(closed, "ConnectionClosed", p).tx = tx
  BY <1>8, EventDisciplined DEF emit_control_event, Disciplined, Shape, SessionFields
<1>10. \/ apply_remote_ack(s, kind, p) = s
       \/ apply_remote_ack(s, kind, p) = acked
       \/ apply_remote_ack(s, kind, p) =
            emit_control_event(closed, "ConnectionClosed", p)
  BY Zenon DEF apply_remote_ack, closed, acked, tx
<1> QED BY <1>1, <1>5, <1>6, <1>7, <1>9, <1>10, Zenon DEF Good

\* The connection state machine answers each role with its own steps only.
LEMMA DecisionGood ==
  ASSUME NEW s, Good(s), NEW p \in Packet, NEW kind
  PROVE  Good(apply_connection_decision(s, p,
                decide_connection_transition(s.role, s.connection_state, kind)))
<1> DEFINE d == decide_connection_transition(s.role, s.connection_state, kind)
           moved == [s EXCEPT
             !.connection_state = IF d.next_state = "Keep" THEN @ ELSE d.next_state,
             !.tx.syn_ack_pending = @ \/ d.schedule = "SynAck",
             !.tx.final_ack_pending = @ \/ d.schedule = "FinalAck",
             !.tx.ack_only_pending = @ \/ d.schedule = "AckOnly"]
<1>1. /\ d.next_state \in ConnectionState \cup {"Keep"}
      /\ d.emit \in EventType \cup {"None"}
      /\ s.role = "Client" => d.next_state # "HandshakeReceived" /\ d.schedule # "SynAck"
      /\ s.role # "Client" => d.schedule # "FinalAck"
      /\ d.next_state # "HandshakeSent"
  BY DecisionType, Zenon
<1> HIDE DEF d
<1>2. OK(apply_connection_decision(s, p, d))
  BY <1>1, ConnectionDecisionOK, Zenon DEF Good
<1>3. Disciplined(moved) /\ NoProbe(moved.tx.inflight)
  BY <1>1, Zenon DEF Good, Disciplined, Shape, InRole, SessionFields, TxFields
<1>4. apply_connection_decision(s, p, d) =
        IF d.emit = "None" THEN moved ELSE emit_control_event(moved, d.emit, p)
  BY Zenon DEF apply_connection_decision
<1> HIDE DEF moved
<1>5. /\ Disciplined(emit_control_event(moved, d.emit, p))
      /\ emit_control_event(moved, d.emit, p).tx = moved.tx
  BY <1>3, EventDisciplined DEF emit_control_event, Disciplined, Shape, SessionFields
<1>6. Good(apply_connection_decision(s, p, d)) BY <1>2, <1>3, <1>4, <1>5, Zenon DEF Good
<1> QED BY <1>6, Zenon DEF d

\* Session::on_datagram_received.
LEMMA OnDatagramGood ==
  ASSUME NEW s, Good(s), NEW p \in Packet, NEW lingering \in BOOLEAN
  PROVE  Good(on_datagram_received(s, p, lingering))
<1> DEFINE kind == classify_control_kind(p.flags)
           adopted == adopt_server_conn_id(s, kind, p)
           probed == handle_probe_receive(adopted, kind)
           acked == apply_remote_ack(probed, kind, p)
           decided == apply_connection_decision(acked, p,
                        decide_connection_transition(acked.role,
                                                     acked.connection_state, kind))
           received == [decided EXCEPT !.rx = on_packet(@, p, kind)]
           live == update_post_receive_liveness(received, kind)
           last == schedule_receive_side_ack(live, kind, p)
<1>1. OK(on_datagram_received(s, p, lingering)) BY OnDatagramOK, Zenon DEF Good
<1>2. Good(adopted)
  <2>1. OK(adopted) BY Zenon DEF Good, adopt_server_conn_id, OK, SessionState, Packet
  <2> QED BY <2>1, Zenon DEF Good, adopt_server_conn_id, Disciplined, Shape, InRole, SessionFields
<1> HIDE DEF kind, adopted
<1>3. Good(Reset(adopted)) BY <1>2, ResetGood, Zenon
<1>4. is_duplicate_client_syn_ack(adopted, kind) =>
        LET r == [adopted EXCEPT !.tx.final_ack_pending = @ \/ lingering]
        IN  Disciplined(r) /\ NoProbe(r.tx.inflight)
  BY <1>2, Zenon DEF is_duplicate_client_syn_ack, Good, Disciplined, Shape, InRole,
              SessionFields, TxFields
<1>5. Good(probed)
  <2>1. OK(probed) BY <1>2, ProbeReceiveOK, Zenon DEF Good
  <2> QED BY <1>2, <2>1, Zenon DEF Good, handle_probe_receive, Disciplined, Shape,
                 InRole, SessionFields, TxFields
<1> HIDE DEF probed
<1>6. Good(acked) BY <1>5, RemoteAckGood, Zenon
<1> HIDE DEF acked
<1>7. Good(decided) BY <1>6, DecisionGood, Zenon
<1> HIDE DEF decided
<1>8. Disciplined(received) /\ NoProbe(received.tx.inflight)
  <2> DEFINE rx == on_packet(decided.rx, p, kind)
  <2>1. decided.rx \in RxSessionState /\ DOMAIN decided.rx = RxFields
        /\ NoneWaits(decided.rx)
    BY <1>7, Zenon DEF Good, Disciplined, Shape, OK, SessionState
  <2>2. DOMAIN rx = RxFields /\ NoneWaits(rx) BY <2>1, OnPacketFrame, Zenon
  <2>3. received = [decided EXCEPT !.rx = rx] BY Zenon
  <2> HIDE DEF rx, received
  <2> QED BY <1>7, <2>2, <2>3, Zenon DEF Good, Disciplined, Shape, InRole, SessionFields
<1> HIDE DEF received
<1>9. Disciplined(live) /\ NoProbe(live.tx.inflight)
  BY <1>8, Zenon DEF update_post_receive_liveness, Disciplined, Shape, InRole,
              SessionFields, TxFields
<1> HIDE DEF live
<1>10. Disciplined(last) /\ NoProbe(last.tx.inflight)
  BY <1>9, Zenon DEF schedule_receive_side_ack, Disciplined, Shape, InRole,
              SessionFields, TxFields
<1>11. process_packet(adopted, kind, p) = last
  BY Zenon DEF process_packet, last, live, received, decided, acked, probed
<1> HIDE DEF last
<1> QED BY <1>1, <1>3, <1>4, <1>10, <1>11, Zenon DEF Good, on_datagram_received, kind, adopted


-----------------------------------------------------------------------------
\* What a poll leaves alone

\* EnterHandshake changes the connection state only.
LEMMA EnterKeeps ==
  ASSUME NEW s, Shape(s)
  PROVE  LET r == EnterHandshake(s)
         IN  /\ DOMAIN r = SessionFields /\ r.role = s.role /\ r.conn_id = s.conn_id
             /\ r.tx = s.tx /\ r.rx = s.rx
  BY Zenon DEF EnterHandshake, Shape, SessionFields

\* TxHandler::poll reads the receive state and never writes it.
LEMMA PollKeepsRx ==
  ASSUME NEW s, OK(s), NEW expired
  PROVE  poll(s, expired).session.rx = s.rx
<1> DEFINE entered == EnterHandshake(s)
<1>1. Shape(s) BY TypedShape, Zenon
<1>2. DOMAIN entered = SessionFields /\ entered.rx = s.rx BY <1>1, EnterKeeps, Zenon
<1>3. try_build_handshake(s).session.rx = s.rx
  <2> HIDE DEF entered
  <2> QED BY <1>2, Zenon DEF try_build_handshake, build_control_packet, Polled, SessionFields, entered
<1> HIDE DEF entered
<1>4. /\ try_build_retransmit(entered, expired).session.rx = s.rx
      /\ try_build_probe_lane(entered).session.rx = s.rx
      /\ try_build_ack_only(entered).session.rx = s.rx
      /\ try_build_fresh(entered).session.rx = s.rx
      /\ Polled(entered, {}).session.rx = s.rx
  BY <1>2, Zenon DEF try_build_retransmit, try_build_probe_lane, try_build_ack_only,
              try_build_fresh, Polled, SessionFields
<1> QED BY <1>3, <1>4, Zenon DEF poll, entered

-----------------------------------------------------------------------------
\* The specification

\* The inductive invariant: the types, and the two halves of Window.
IInv == TypeOK /\ InflightInWindow /\ InflightNotAcked

\* IInv says of the session what OK says of a record.
LEMMA IInvIsOK == IInv <=> OK(session) /\ last_ordered \in Seqs \cup {NoneYet}
BY Zenon DEF IInv, TypeOK, InflightInWindow, InflightNotAcked, OK, Window

\* The initial states satisfy the invariant.
LEMMA InitOK == Init => IInv
<1> SUFFICES ASSUME Init PROVE IInv
  BY Zenon
<1>1. PICK i \in InitialSeqs :
        \/ session = NewSession("Client", i)
        \/ \E c \in ConnId \ {0} : session = [NewSession("Server", i) EXCEPT !.conn_id = c]
  BY Zenon DEF Init
<1>2. OK(NewSession("Client", i)) /\ OK(NewSession("Server", i))
  BY NewSessionOK, OpenSessionAssumption, Zenon DEF SessionRole
<1>3. \A c \in ConnId : OK([NewSession("Server", i) EXCEPT !.conn_id = c])
  <2> DEFINE s == NewSession("Server", i)
  <2>1. OK(s)
    BY <1>2, Zenon
  <2> HIDE DEF s
  <2>2. \A c \in ConnId : OK([s EXCEPT !.conn_id = c])
    BY <2>1, Zenon DEF OK, SessionState
  <2>3. QED
    BY <2>2, Zenon DEF s
<1>4. OK(session)
  BY <1>1, <1>2, <1>3, Zenon
<1>5. QED
  BY <1>4, IInvIsOK, Zenon DEF Init

\* Draining empties the event queue; the last ordered event has a number.
LEMMA DrainEventsOK ==
  ASSUME IInv, DrainEvents
  PROVE  IInv'
<1> DEFINE events == session.rx.pending_events
           ordered == {i \in 1 .. Len(events) : IsOrderedData(events[i])}
<1>1. OK(session) /\ last_ordered \in Seqs \cup {NoneYet}
  BY IInvIsOK, Zenon
<1>2. session.rx \in RxSessionState /\ events \in Seq(SessionEvent)
  BY <1>1, Zenon DEF OK, SessionState, RxSessionState
<1>3. OK(session')
  <2> DEFINE rx == drain_events(session.rx)
  <2>1. rx \in RxSessionState
    <3> DEFINE empty == << >>
    <3>1. empty \in Seq(SessionEvent)
      OBVIOUS
    <3> HIDE DEF empty
    <3>2. [session.rx EXCEPT !.pending_events = empty] \in RxSessionState
      BY <1>2, <3>1, Zenon DEF RxSessionState
    <3>3. QED
      BY <3>2, Zenon DEF drain_events, empty
  <2>2. session' = [session EXCEPT !.rx = rx]
    BY Zenon DEF DrainEvents
  <2> HIDE DEF rx
  <2>3. QED
    BY <1>1, <2>1, <2>2, Zenon DEF OK, SessionState
<1> HIDE DEF events
<1>4. Len(events) \in Nat /\ DOMAIN events = 1 .. Len(events)
  BY <1>2
<1>5. ordered \subseteq 0 .. Len(events) /\ ordered \subseteq DOMAIN events
  BY <1>4
<1> HIDE DEF ordered
<1>6. ordered # {} => Max(ordered) \in DOMAIN events
  BY <1>4, <1>5, MaxOfBounded, Zenon
<1>7. ordered # {} => events[Max(ordered)].seq \in Seqs
  <2> DEFINE m == Max(ordered)
  <2> HIDE DEF m
  <2>1. ordered # {} => m \in DOMAIN events
    BY <1>6, Zenon DEF m
  <2>2. ordered # {} => events[m] \in SessionEvent
    BY <1>2, <1>4, <2>1
  <2>3. ordered # {} => events[m].seq \in Seqs
    BY <2>2, Zenon DEF SessionEvent
  <2>4. QED
    BY <2>3, Zenon DEF m
<1>8. last_ordered' = IF ordered = {} THEN last_ordered ELSE events[Max(ordered)].seq
  BY Zenon DEF DrainEvents, LastOrdered, ordered, events
<1>9. last_ordered' \in Seqs \cup {NoneYet}
  BY <1>1, <1>7, <1>8, Zenon
<1>10. QED
  BY <1>3, <1>9, Zenon DEF IInv, TypeOK, InflightInWindow, InflightNotAcked, OK, Window

\* Every step of the session keeps the invariant.
LEMMA NextOK == IInv /\ [Next]_vars => IInv'
<1> SUFFICES ASSUME IInv, [Next]_vars PROVE IInv'
  BY Zenon
<1>1. OK(session) /\ last_ordered \in Seqs \cup {NoneYet}
  BY IInvIsOK, Zenon
<1>2. OK(session') /\ last_ordered' = last_ordered => IInv'
  BY <1>1, Zenon DEF IInv, TypeOK, InflightInWindow, InflightNotAcked, OK, Window
<1>3. CASE \E r \in Requests : QueueSend(r)
  BY <1>1, <1>2, <1>3, QueueSendOK, OpenSessionAssumption, Zenon DEF QueueSend
<1>4. CASE RequestClose
  BY <1>1, <1>2, <1>4, RequestCloseOK, Zenon DEF RequestClose
<1>5. CASE \E clock \in ClockReadings(session) : PollTx(clock)
  <2>1. PICK clock \in ClockReadings(session) : session' = poll_tx(session, clock).session
    BY <1>5, Zenon DEF PollTx
  <2>2. OK(session')
    BY <1>1, <2>1, PollTxOK, Zenon
  <2>3. QED
    BY <1>2, <1>5, <2>2, Zenon DEF PollTx
<1>6. CASE \E p \in Inbound, l \in BOOLEAN : OnDatagramReceived(p, l)
  BY <1>1, <1>2, <1>6, OnDatagramOK, OpenSessionAssumption, Zenon DEF OnDatagramReceived
<1>7. CASE DrainEvents
  BY <1>7, DrainEventsOK, Zenon
<1>8. CASE UNCHANGED vars
  BY <1>1, <1>2, <1>8, Zenon DEF vars
<1>9. QED
  BY <1>3, <1>4, <1>5, <1>6, <1>7, <1>8, Zenon DEF Next

\* The invariant holds in every reachable state.
THEOREM Invariance == Spec => []IInv
BY InitOK, NextOK, PTL DEF Spec

\* Session: every field keeps its type whatever datagrams arrive.
THEOREM TypeCorrect == Spec => []TypeOK
<1>1. IInv => TypeOK
  BY Zenon DEF IInv
<1>2. QED
  BY Invariance, <1>1, PTL

\* TxHandler: for any window size below half of the sequence space, no
\* acknowledgement makes the sender exceed its window or reuse a number that
\* is still in flight.
THEOREM WindowSafe == Spec => []InflightInWindow
<1>1. IInv => InflightInWindow
  BY Zenon DEF IInv
<1>2. QED
  BY Invariance, <1>1, PTL

\* TxHandler::on_remote_ack: nothing that the last acknowledgement covers
\* stays in flight.
THEOREM AckedLeaves == Spec => []InflightNotAcked
<1>1. IInv => InflightNotAcked
  BY Zenon DEF IInv
<1>2. QED
  BY Invariance, <1>1, PTL

-----------------------------------------------------------------------------
\* Roles and the reorder buffer

LEMMA InitGood == Init => Good(session)
<1> SUFFICES ASSUME Init PROVE Good(session) BY Zenon
<1>1. OK(session) BY InitOK, IInvIsOK, Zenon
<1>2. PICK i \in InitialSeqs :
        \/ session = NewSession("Client", i)
        \/ \E c \in ConnId \ {0} :
             session = [NewSession("Server", i) EXCEPT !.conn_id = c]
  BY Zenon DEF Init
<1>3. Shape(session) BY <1>1, TypedShape, Zenon
<1>4. InRole(session) /\ NoneWaits(session.rx) /\ NoProbe(session.tx.inflight)
  BY <1>2 DEF NewSession, TxInit, RxInit, InRole, NoneWaits, Buffered, NoProbe
<1> QED BY <1>1, <1>3, <1>4, Zenon DEF Good, Disciplined

LEMMA NextGood == IInv /\ Good(session) /\ [Next]_vars => Good(session)'
<1> SUFFICES ASSUME IInv, Good(session), [Next]_vars PROVE Good(session') BY Zenon
<1>1. OK(session')
  <2>1. IInv' BY NextOK, Zenon
  <2> QED BY <2>1, Zenon DEF IInv, TypeOK, InflightInWindow, InflightNotAcked, OK, Window
<1>2. CASE \E r \in Requests : QueueSend(r)
  <2>1. PICK r \in Requests :
          session' = [session EXCEPT !.tx =
                        [session.tx EXCEPT !.pending_send = Append(@, r)]]
    BY <1>2, Zenon DEF QueueSend, queue_send, queue_app_data
  <2> DEFINE queue == Append(session.tx.pending_send, r)
             tx == [session.tx EXCEPT !.pending_send = queue]
  <2> HIDE DEF queue
  <2>2. /\ DOMAIN tx = TxFields /\ tx.inflight = session.tx.inflight
        /\ tx.syn_ack_pending = session.tx.syn_ack_pending
        /\ tx.final_ack_pending = session.tx.final_ack_pending
        /\ tx.ping_pending = session.tx.ping_pending
        /\ tx.ping_outstanding = session.tx.ping_outstanding
    BY Zenon DEF Good, Disciplined, Shape, TxFields
  <2>3. session' = [session EXCEPT !.tx = tx] BY <2>1, Zenon DEF queue
  <2> HIDE DEF tx
  <2>4. Disciplined(session') BY <2>2, <2>3, TxDisciplined, Zenon DEF Good
  <2>5. session'.tx = tx BY <2>3, Zenon DEF Good, Disciplined, Shape, SessionFields
  <2> QED BY <1>1, <2>2, <2>4, <2>5, Zenon DEF Good
<1>3. CASE RequestClose
  BY <1>1, <1>3, Zenon DEF RequestClose, request_close, Good, Disciplined, Shape, InRole,
                    SessionFields, TxFields
<1>4. CASE \E clock \in ClockReadings(session) : PollTx(clock) BY <1>4, PollTxGood, Zenon DEF PollTx
<1>5. CASE \E p \in Inbound, l \in BOOLEAN : OnDatagramReceived(p, l)
  BY <1>5, OnDatagramGood, OpenSessionAssumption, Zenon DEF OnDatagramReceived
<1>6. CASE DrainEvents
  BY <1>1, <1>6, Zenon DEF DrainEvents, drain_events, Good, Disciplined, Shape, InRole,
                    NoneWaits, Buffered, SessionFields, RxFields
<1>7. CASE UNCHANGED vars BY <1>7, Zenon DEF vars
<1> QED BY <1>2, <1>3, <1>4, <1>5, <1>6, <1>7, Zenon DEF Next

LEMMA AlwaysGood == Spec => []Good(session)
  BY Invariance, InitGood, NextGood, PTL DEF Spec

\* ConnectionStateMachine, TxHandler and Session: each role keeps to its side
\* of the handshake and of the keepalive, whatever datagrams arrive.
THEOREM RolesKept == Spec => []RoleDiscipline
<1>1. Good(session) => RoleDiscipline
  BY Zenon DEF Good, Disciplined, InRole, RoleDiscipline
<1> QED BY AlwaysGood, <1>1, PTL

\* RxHandler: no ordered payload whose turn has come waits in the reorder
\* buffer for another arrival, whatever the order of arrival.
THEOREM NoneLeftWaiting == Spec => []NothingDeliverableBuffered
<1>1. Good(session) => NothingDeliverableBuffered
  BY Zenon DEF Good, Disciplined, NoneWaits, NothingDeliverableBuffered
<1> QED BY AlwaysGood, <1>1, PTL

-----------------------------------------------------------------------------
\* Ordered delivery

\* OrderedConsecutive, of any receive state, strengthened: delivery has started
\* once a number was delivered, so the delivery point is never set again.
Consecutive(rx, last) ==
  LET events == rx.pending_events
  IN  /\ \A n \in 1 .. Len(events) :
           IsOrderedData(events[n]) /\ LastOrdered(events, last, n - 1) # NoneYet =>
             events[n].seq = SeqAdd(LastOrdered(events, last, n - 1), 1)
      /\ LastOrdered(events, last, Len(events)) # NoneYet =>
           /\ rx.ordered_delivery_started
           /\ rx.next_ordered_delivery =
                SeqAdd(LastOrdered(events, last, Len(events)), 1)

\* One more event: it is the last one if it is ordered.
LEMMA LastOrderedStep ==
  ASSUME NEW events, NEW last, NEW n \in Nat \ {0}
  PROVE  LastOrdered(events, last, n) =
           IF IsOrderedData(events[n]) THEN events[n].seq
           ELSE LastOrdered(events, last, n - 1)
<1> DEFINE S(k) == {i \in 1 .. k : IsOrderedData(events[i])}
<1>1. LastOrdered(events, last, n) = IF S(n) = {} THEN last ELSE events[Max(S(n))].seq
  BY Zenon DEF LastOrdered
<1>2. LastOrdered(events, last, n - 1) =
        IF S(n - 1) = {} THEN last ELSE events[Max(S(n - 1))].seq
  BY Zenon DEF LastOrdered
<1>3. CASE IsOrderedData(events[n])
  <2>1. n \in S(n) BY <1>3
  <2>2. S(n) \subseteq 0 .. n OBVIOUS
  <2>3. Max(S(n)) \in 1 .. n /\ Max(S(n)) >= n
    <3> DEFINE T == S(n)
    <3>1. T \subseteq 1 .. n BY Zenon
    <3> HIDE DEF T
    <3>2. Max(T) \in T /\ \A y \in T : Max(T) >= y
      BY <2>1, <2>2, MaxOfBounded, Zenon DEF T
    <3>3. Max(T) \in 1 .. n /\ Max(T) >= n BY <2>1, <3>1, <3>2, Zenon DEF T
    <3> QED BY <3>3, Zenon DEF T
  <2>4. Max(S(n)) = n BY <2>3
  <2> QED BY <1>1, <1>3, <2>1, <2>4, Zenon
<1>4. CASE ~IsOrderedData(events[n])
  <2>1. S(n) = S(n - 1) BY <1>4
  <2> QED BY <1>1, <1>2, <1>4, <2>1, Zenon
<1> QED BY <1>3, <1>4, Zenon

\* Only the first n events count.
LEMMA LastOrderedFrame ==
  ASSUME NEW f, NEW g, NEW last, NEW n \in Nat, \A i \in 1 .. n : f[i] = g[i]
  PROVE  LastOrdered(f, last, n) = LastOrdered(g, last, n)
<1> DEFINE S == {i \in 1 .. n : IsOrderedData(f[i])}
<1>1. S = {i \in 1 .. n : IsOrderedData(g[i])} BY Zenon
<1>2. S # {} => Max(S) \in 1 .. n
  <2>1. S \subseteq 0 .. n /\ S \subseteq 1 .. n OBVIOUS
  <2> HIDE DEF S
  <2> QED BY <2>1, MaxOfBounded, Zenon
<1> HIDE DEF S
<1>3. S # {} => f[Max(S)] = g[Max(S)] BY <1>2, Zenon
<1>4. /\ LastOrdered(f, last, n) = IF S = {} THEN last ELSE f[Max(S)].seq
      /\ LastOrdered(g, last, n) = IF S = {} THEN last ELSE g[Max(S)].seq
  BY <1>1, Zenon DEF LastOrdered, S
<1> QED BY <1>3, <1>4

\* An event that is not ordered data changes nothing in the order.
LEMMA EmitConsecutive ==
  ASSUME NEW rx \in RxSessionState, NEW last, Consecutive(rx, last),
         NEW event \in SessionEvent, ~IsOrderedData(event)
  PROVE  Consecutive(emit(rx, event), last)
<1> DEFINE old == rx.pending_events
           new == Append(old, event)
           k == Len(old)
<1>1. old \in Seq(SessionEvent) BY Zenon DEF RxSessionState
<1>2. /\ k \in Nat /\ Len(new) = k + 1 /\ new[k + 1] = event
      /\ \A i \in 1 .. k : new[i] = old[i]
  BY <1>1
<1>3. LET r == emit(rx, event)
      IN  /\ r.pending_events = new
          /\ r.ordered_delivery_started = rx.ordered_delivery_started
          /\ r.next_ordered_delivery = rx.next_ordered_delivery
  BY Zenon DEF emit, RxSessionState
<1> HIDE DEF old, new
<1>4. \A n \in 0 .. k : LastOrdered(new, last, n) = LastOrdered(old, last, n)
  <2> TAKE n \in 0 .. k
  <2>1. n \in Nat /\ \A i \in 1 .. n : new[i] = old[i] BY <1>2
  <2> QED BY <2>1, LastOrderedFrame
<1>5. LastOrdered(new, last, k + 1) = LastOrdered(old, last, k)
  <2>1. k + 1 \in Nat \ {0} /\ (k + 1) - 1 = k BY <1>2
  <2> QED BY <1>2, <1>4, <2>1, LastOrderedStep
<1>6. ASSUME NEW n \in 1 .. k + 1, IsOrderedData(new[n]),
             LastOrdered(new, last, n - 1) # NoneYet
      PROVE  new[n].seq = SeqAdd(LastOrdered(new, last, n - 1), 1)
  <2>1. n # k + 1 BY <1>2, <1>6, Zenon
  <2>2. n \in 1 .. k /\ n - 1 \in 0 .. k BY <1>2, <2>1
  <2>3. new[n] = old[n] /\ LastOrdered(new, last, n - 1) = LastOrdered(old, last, n - 1)
    BY <1>2, <1>4, <2>2, Zenon
  <2> QED BY <1>6, <2>2, <2>3, Zenon DEF Consecutive, old
<1>7. LastOrdered(old, last, k) # NoneYet =>
        rx.ordered_delivery_started
        /\ rx.next_ordered_delivery = SeqAdd(LastOrdered(old, last, k), 1)
  BY Zenon DEF Consecutive, old
<1> QED BY <1>2, <1>3, <1>5, <1>6, <1>7, Zenon DEF Consecutive

\* The events and the delivery point are all that the order depends on.
LEMMA ConsecutiveFrame ==
  ASSUME NEW rx, NEW r, NEW last, Consecutive(rx, last),
         r.pending_events = rx.pending_events,
         rx.ordered_delivery_started =>
           /\ r.ordered_delivery_started
           /\ r.next_ordered_delivery = rx.next_ordered_delivery
  PROVE  Consecutive(r, last)
  BY Zenon DEF Consecutive

\* RxHandler::drain_contiguous_ordered: the run it delivers starts at the
\* delivery point and has no hole.
LEMMA DrainConsecutive ==
  ASSUME NEW rx \in RxSessionState, NEW last, Consecutive(rx, last),
         rx.ordered_delivery_started
  PROVE  Consecutive(drain_contiguous_ordered(rx), last)
<1> DEFINE old == rx.pending_events
           k == Len(old)
           next == rx.next_ordered_delivery
           run == DeliverableRun(rx)
           at(i) == CHOOSE b \in rx.ordered_reorder_buffer :
                      b.seq = SeqAdd(next, i - 1)
           event(i) == make_data_event(at(i).seq, at(i).channel_id,
                                       "ReliableOrdered", at(i).payload)
           events == [i \in 1 .. run |-> event(i)]
           new == old \o events
           drained == drain_contiguous_ordered(rx)
<1>1. /\ drained.pending_events = new
      /\ drained.ordered_delivery_started = rx.ordered_delivery_started
      /\ drained.next_ordered_delivery = SeqAdd(next, run)
  BY Zenon DEF drain_contiguous_ordered, RxSessionState
<1>2. run \in 0 .. SeqMod /\ SeqMod \in Nat /\ next \in Seqs
  BY DeliverableRunProp, ProtocolAssumption DEF SeqMod, RxSessionState
<1>3. ASSUME NEW i \in 1 .. run
      PROVE  /\ event(i) \in SessionEvent /\ IsOrderedData(event(i))
             /\ event(i).seq = SeqAdd(next, i - 1)
  <2>1. i - 1 \in 0 .. run - 1 BY <1>2
  <2>2. Buffered(rx, SeqAdd(next, i - 1)) BY <2>1, DeliverableRunProp, Zenon
  <2>3. at(i) \in rx.ordered_reorder_buffer /\ at(i).seq = SeqAdd(next, i - 1)
    BY <2>2, Zenon DEF Buffered
  <2>4. at(i) \in BufferedPacket BY <2>3, Zenon DEF RxSessionState
  <2> HIDE DEF at
  <2> QED BY <2>3, <2>4, Zenon DEF make_data_event, IsOrderedData, SessionEvent,
                            BufferedPacket, EventType, ChannelType
<1> HIDE DEF drained, event, run
<1>4. old \in Seq(SessionEvent) /\ events \in Seq(SessionEvent) /\ Len(events) = run
  BY <1>2, <1>3 DEF RxSessionState
<1>5. /\ k \in Nat /\ run \in Nat /\ Len(new) = k + run
      /\ \A i \in 1 .. k : new[i] = old[i]
      /\ \A i \in 1 .. run : new[k + i] = event(i)
  <2>1. k \in Nat /\ run \in Nat /\ Len(new) = k + run BY <1>2, <1>4
  <2>2. ASSUME NEW i \in 1 .. k PROVE new[i] = old[i]
    BY <1>4, <2>1
  <2>3. ASSUME NEW i \in 1 .. run PROVE new[k + i] = event(i)
    <3>1. k + i \in 1 .. k + run /\ ~(k + i <= k) /\ (k + i) - k = i BY <2>1
    <3>2. events[i] = event(i) BY Zenon
    <3> HIDE DEF events
    <3> QED BY <1>4, <2>1, <3>1, <3>2
  <2> QED BY <2>1, <2>2, <2>3, Zenon
<1> HIDE DEF new, events, old
<1>6. \A n \in 0 .. k : LastOrdered(new, last, n) = LastOrdered(old, last, n)
  <2> TAKE n \in 0 .. k
  <2>1. n \in Nat /\ \A i \in 1 .. n : new[i] = old[i] BY <1>5
  <2> QED BY <2>1, LastOrderedFrame
<1>7. \A i \in 1 .. run : LastOrdered(new, last, k + i) = SeqAdd(next, i - 1)
  <2> TAKE i \in 1 .. run
  <2>1. k + i \in Nat \ {0} BY <1>5
  <2>2. IsOrderedData(new[k + i]) /\ new[k + i].seq = SeqAdd(next, i - 1)
    BY <1>3, <1>5, Zenon
  <2> QED BY <2>1, <2>2, LastOrderedStep, Zenon
<1>8. LastOrdered(old, last, k) # NoneYet => next = SeqAdd(LastOrdered(old, last, k), 1)
  BY Zenon DEF Consecutive, old
<1>9. \A i \in 1 .. run : SeqAdd(SeqAdd(next, i - 1), 1) = SeqAdd(next, i)
  BY <1>2, ProtocolAssumption DEF SeqAdd, Seqs, SeqMod
<1>10. SeqAdd(next, 0) = next
  BY <1>2, ProtocolAssumption DEF SeqAdd, Seqs, SeqMod
<1>11. ASSUME NEW n \in 1 .. k + run, IsOrderedData(new[n]),
              LastOrdered(new, last, n - 1) # NoneYet
       PROVE  new[n].seq = SeqAdd(LastOrdered(new, last, n - 1), 1)
  <2>1. CASE n <= k
    <3>1. n \in 1 .. k /\ n - 1 \in 0 .. k BY <1>5, <2>1
    <3>2. new[n] = old[n] /\ LastOrdered(new, last, n - 1) = LastOrdered(old, last, n - 1)
      BY <1>5, <1>6, <3>1, Zenon
    <3> QED BY <1>11, <3>1, <3>2, Zenon DEF Consecutive, old
  <2>2. CASE n = k + 1
    <3>1. n - 1 = k /\ 1 \in 1 .. run BY <1>5, <2>2
    <3>2. new[n].seq = SeqAdd(next, 0) BY <1>3, <1>5, <2>2, <3>1
    <3>3. LastOrdered(new, last, n - 1) = LastOrdered(old, last, k) BY <1>5, <1>6, <3>1
    <3> QED BY <1>8, <1>10, <1>11, <3>2, <3>3, Zenon
  <2>3. CASE n > k + 1
    <3> DEFINE i == n - k
    <3>1. i \in 1 .. run /\ i - 1 \in 1 .. run /\ n = k + i /\ n - 1 = k + (i - 1)
      BY <1>5, <2>3
    <3> HIDE DEF i
    <3>2. new[n].seq = SeqAdd(next, i - 1) BY <1>3, <1>5, <3>1, Zenon
    <3>3. LastOrdered(new, last, n - 1) = SeqAdd(next, (i - 1) - 1) BY <1>7, <3>1, Zenon
    <3> QED BY <1>9, <3>1, <3>2, <3>3, Zenon
  <2> QED BY <1>5, <2>1, <2>2, <2>3
<1>12. ASSUME LastOrdered(new, last, k + run) # NoneYet
       PROVE  SeqAdd(next, run) = SeqAdd(LastOrdered(new, last, k + run), 1)
  <2>1. CASE run = 0
    <3>1. LastOrdered(new, last, k + run) = LastOrdered(old, last, k) BY <1>5, <1>6, <2>1
    <3> QED BY <1>8, <1>10, <1>12, <2>1, <3>1, Zenon
  <2>2. CASE run # 0
    <3>1. run \in 1 .. run BY <1>5, <2>2
    <3> QED BY <1>7, <1>9, <3>1, Zenon
  <2> QED BY <2>1, <2>2, Zenon
<1>13. Consecutive(drained, last) BY <1>1, <1>5, <1>11, <1>12, Zenon DEF Consecutive
<1> QED BY <1>13, Zenon DEF drained

\* RxHandler::on_packet.
LEMMA OnPacketConsecutive ==
  ASSUME NEW rx \in RxSessionState, NEW last, Consecutive(rx, last),
         NEW p \in Packet, NEW kind
  PROVE  Consecutive(on_packet(rx, p, kind), last)
<1> DEFINE updated == update_reliable_receive_state(rx, p, kind)
           version == VersionOf[p.payload]
           versioned == [updated EXCEPT !.monotonic_versions[p.channel_id] = version]
           event == make_data_event(p.seq, p.channel_id, p.channel_type, p.payload)
<1>1. updated \in RxSessionState BY UpdateReceiveType, Zenon
<1>2. Consecutive(updated, last)
  <2>1. /\ updated.pending_events = rx.pending_events
        /\ updated.ordered_delivery_started = rx.ordered_delivery_started
        /\ updated.next_ordered_delivery = rx.next_ordered_delivery
    BY Zenon DEF update_reliable_receive_state, advance_receive_window, RxSessionState
  <2> HIDE DEF updated
  <2> QED BY <2>1, ConsecutiveFrame, Zenon
<1> HIDE DEF updated
<1>3. Consecutive(handle_reliable_ordered(updated, p), last)
  <2> DEFINE new == [seq |-> p.seq, channel_id |-> p.channel_id, payload |-> p.payload]
             started == ensure_ordered_delivery_started(p.seq, updated)
             filled == [started EXCEPT !.ordered_reorder_buffer =
                          {b \in @ : b.seq # p.seq} \cup {new}]
  <2>1. filled \in RxSessionState BY <1>1, FilledType, Zenon
  <2>2. /\ filled.pending_events = updated.pending_events
        /\ filled.ordered_delivery_started
        /\ updated.ordered_delivery_started =>
             filled.next_ordered_delivery = updated.next_ordered_delivery
    BY <1>1, Zenon DEF ensure_ordered_delivery_started, RxSessionState
  <2>3. handle_reliable_ordered(updated, p) = drain_contiguous_ordered(filled)
    BY Zenon DEF handle_reliable_ordered
  <2> HIDE DEF filled
  <2>4. Consecutive(filled, last) BY <1>2, <2>2, ConsecutiveFrame, Zenon
  <2> QED BY <2>1, <2>2, <2>3, <2>4, DrainConsecutive, Zenon
<1>4. versioned \in RxSessionState /\ Consecutive(versioned, last)
  <2>1. version \in Seqs \cup {NoVersion}
    BY ProtocolAssumption, Zenon DEF Packet
  <2>2. [updated.monotonic_versions EXCEPT ![p.channel_id] = version]
        \in [ChannelId -> Seqs \cup {NoVersion}]
    BY <1>1, <2>1, Zenon DEF RxSessionState
  <2>3. versioned \in RxSessionState BY <1>1, <2>2, Zenon DEF RxSessionState
  <2>4. /\ versioned.pending_events = updated.pending_events
        /\ versioned.ordered_delivery_started = updated.ordered_delivery_started
        /\ versioned.next_ordered_delivery = updated.next_ordered_delivery
    BY <1>1, Zenon DEF RxSessionState
  <2> HIDE DEF versioned
  <2> QED BY <1>2, <2>3, <2>4, ConsecutiveFrame, Zenon
<1> HIDE DEF versioned, version
<1>5. event \in SessionEvent /\ (p.channel_type # "ReliableOrdered" => ~IsOrderedData(event))
  BY Zenon DEF make_data_event, SessionEvent, EventType, Packet, IsOrderedData
<1>6. ASSUME NEW r \in RxSessionState, Consecutive(r, last),
             p.channel_type # "ReliableOrdered"
      PROVE  Consecutive(DeliverNow(r, p), last)
  BY <1>5, <1>6, EmitConsecutive, Zenon DEF DeliverNow
<1>7. p.channel_type # "ReliableOrdered" =>
        /\ Consecutive(DeliverNow(updated, p), last)
        /\ Consecutive(DeliverNow(versioned, p), last)
  BY <1>1, <1>2, <1>4, <1>6, Zenon
<1>8. p.channel_type # "ReliableOrdered" =>
        Consecutive(handle_monotonic_state(updated, p), last)
  BY <1>2, <1>7, Zenon DEF handle_monotonic_state, versioned, version
<1> QED BY <1>2, <1>3, <1>7, <1>8, Zenon DEF on_packet, updated

\* Session: a control event is not ordered data.
LEMMA EventConsecutive ==
  ASSUME NEW s, OK(s), NEW last, Consecutive(s.rx, last), NEW p \in Packet,
         NEW type \in EventType \ {"DataReceived"}
  PROVE  /\ Consecutive(emit_control_event(s, type, p).rx, last)
         /\ Consecutive(emit_local_error(s).rx, last)
<1> DEFINE control == [type |-> type, seq |-> p.seq, channel_id |-> p.channel_id,
                       channel_type |-> p.channel_type, payload |-> NoPayload]
           error == [type |-> "Error", seq |-> 0, channel_id |-> 0,
                     channel_type |-> "Unreliable", payload |-> NoPayload]
<1>1. control \in SessionEvent /\ ~IsOrderedData(control)
  BY ProtocolAssumption, Zenon DEF SessionEvent, Packet, IsOrderedData
<1>2. error \in SessionEvent /\ ~IsOrderedData(error)
  BY ProtocolAssumption DEF SessionEvent, EventType, ChannelType, Seqs, SeqMod,
                            IsOrderedData
<1>3. s.rx \in RxSessionState BY Zenon DEF OK, SessionState
<1>4. /\ emit_control_event(s, type, p).rx = emit(s.rx, control)
      /\ emit_local_error(s).rx = emit(s.rx, error)
  BY Zenon DEF emit_control_event, emit_local_error, OK, SessionState
<1> HIDE DEF control, error
<1> QED BY <1>1, <1>2, <1>3, <1>4, EmitConsecutive, Zenon

\* Session: a Reset emits an error.
LEMMA ResetConsecutive ==
  ASSUME NEW s, OK(s), NEW last, Consecutive(s.rx, last)
  PROVE  Consecutive(Reset(s).rx, last)
<1> DEFINE r == [s EXCEPT !.connection_state = "Reset"]
           p == [conn_id |-> 0, seq |-> 0, ack |-> 0, ack_bits |-> {},
                 channel_id |-> 0, channel_type |-> "Unreliable",
                 flags |-> {}, payload |-> NoPayload]
<1>1. OK(r) /\ r.rx = s.rx BY Zenon DEF OK, SessionState, ConnectionState
<1>2. p \in Packet BY ProtocolAssumption DEF Packet, Seqs, SeqMod, ChannelType
<1> HIDE DEF r, p
<1>3. "Error" \in EventType \ {"DataReceived"} BY Zenon DEF EventType
<1>4. Consecutive(emit_local_error(r).rx, last) BY <1>1, <1>2, <1>3, EventConsecutive, Zenon
<1> QED BY <1>4, Zenon DEF Reset, r

\* Session::poll_tx delivers nothing.
LEMMA PollTxConsecutive ==
  ASSUME NEW s, OK(s), NEW last, Consecutive(s.rx, last), NEW clock
  PROVE  Consecutive(poll_tx(s, clock).session.rx, last)
<1> DEFINE scheduled == schedule_pending_tx_work(s, clock)
           polled == poll(scheduled, clock.expired)
           result == apply_outbound_result(polled.session, polled.out)
<1>1. OK(scheduled) /\ scheduled.rx = s.rx
  <2>1. OK(scheduled) BY ScheduleOK, Zenon
  <2>2. scheduled.rx = s.rx BY Zenon DEF schedule_pending_tx_work, OK, SessionState
  <2> QED BY <2>1, <2>2, Zenon
<1> HIDE DEF scheduled
<1>2. OK(polled.session) /\ polled.session.rx = scheduled.rx
  BY <1>1, PollOK, PollKeepsRx, Zenon
<1> HIDE DEF polled
<1>3. result.rx = polled.session.rx
  BY <1>2, Zenon DEF apply_outbound_result, OK, SessionState
<1> HIDE DEF result
<1>5. Consecutive(Reset(s).rx, last) /\ Consecutive(Reset(polled.session).rx, last)
  BY <1>1, <1>2, ResetConsecutive, Zenon
<1>6. \/ poll_tx(s, clock).session = Reset(s)
      \/ poll_tx(s, clock).session = Reset(polled.session)
      \/ poll_tx(s, clock).session = result
  BY Zenon DEF poll_tx, result, polled, scheduled
<1> QED BY <1>1, <1>2, <1>3, <1>5, <1>6, Zenon

\* Session::on_datagram_received: two control events at most, then the payload.
LEMMA OnDatagramConsecutive ==
  ASSUME NEW s, OK(s), NEW last, Consecutive(s.rx, last), NEW p \in Packet,
         NEW lingering \in BOOLEAN
  PROVE  Consecutive(on_datagram_received(s, p, lingering).rx, last)
<1> DEFINE kind == classify_control_kind(p.flags)
           adopted == adopt_server_conn_id(s, kind, p)
           probed == handle_probe_receive(adopted, kind)
           tx == on_remote_ack(probed.tx, p.ack, p.ack_bits)
           closed == [[probed EXCEPT !.tx = tx] EXCEPT !.connection_state = "Closed"]
           acked == apply_remote_ack(probed, kind, p)
           decision == decide_connection_transition(acked.role,
                                                    acked.connection_state, kind)
           decided == apply_connection_decision(acked, p, decision)
           received == [decided EXCEPT !.rx = on_packet(@, p, kind)]
           live == update_post_receive_liveness(received, kind)
           final == schedule_receive_side_ack(live, kind, p)
<1>1. OK(adopted) /\ adopted.rx = s.rx
  BY Zenon DEF adopt_server_conn_id, OK, SessionState, Packet
<1> HIDE DEF kind, adopted
<1>2. Consecutive(Reset(adopted).rx, last) BY <1>1, ResetConsecutive, Zenon
<1>3. [adopted EXCEPT !.tx.final_ack_pending = @ \/ lingering].rx = s.rx
  BY <1>1, Zenon DEF OK, SessionState
<1>4. OK(probed) /\ probed.rx = s.rx
  <2>1. OK(probed) BY <1>1, ProbeReceiveOK, Zenon
  <2>2. probed.rx = s.rx BY <1>1, Zenon DEF handle_probe_receive, OK, SessionState
  <2> QED BY <2>1, <2>2, Zenon
<1> HIDE DEF probed
<1>5. OK(acked) BY <1>4, RemoteAckOK, Zenon
<1>6. Consecutive(acked.rx, last)
  <2>1. OK(closed) /\ closed.rx = s.rx /\ [probed EXCEPT !.tx = tx].rx = s.rx
    <3>1. tx \in TxSessionState /\ Window(tx)
      BY <1>4, OnRemoteAckOK, Zenon DEF OK, SessionState, Packet
    <3> HIDE DEF tx
    <3> QED BY <1>4, <3>1, Zenon DEF OK, SessionState, ConnectionState
  <2>2. "ConnectionClosed" \in EventType \ {"DataReceived"} BY Zenon DEF EventType
  <2>3. \/ acked = probed \/ acked = [probed EXCEPT !.tx = tx]
        \/ acked = emit_control_event(closed, "ConnectionClosed", p)
    BY Zenon DEF apply_remote_ack
  <2> HIDE DEF closed, acked
  <2>4. Consecutive(emit_control_event(closed, "ConnectionClosed", p).rx, last)
    BY <2>1, <2>2, EventConsecutive, Zenon
  <2> QED BY <1>4, <2>1, <2>3, <2>4, Zenon
<1> HIDE DEF acked
<1>7. /\ decision.next_state \in ConnectionState \cup {"Keep"}
      /\ decision.emit \in (EventType \ {"DataReceived"}) \cup {"None"}
  BY Zenon DEF decide_connection_transition, Decision, ConnectionState, EventType
<1> HIDE DEF decision
<1>8. OK(decided) BY <1>5, <1>7, ConnectionDecisionOK, Zenon
<1>9. Consecutive(decided.rx, last)
  <2> DEFINE moved == [acked EXCEPT
               !.connection_state =
                  IF decision.next_state = "Keep" THEN @ ELSE decision.next_state,
               !.tx.syn_ack_pending = @ \/ decision.schedule = "SynAck",
               !.tx.final_ack_pending = @ \/ decision.schedule = "FinalAck",
               !.tx.ack_only_pending = @ \/ decision.schedule = "AckOnly"]
             quiet == [decision EXCEPT !.emit = "None"]
  <2>1. OK(moved)
    <3>1. decision = Decision(decision.next_state, decision.schedule, decision.emit)
      BY Zenon DEF decision, decide_connection_transition, Decision
    <3> DEFINE d == Decision(decision.next_state, decision.schedule, "None")
    <3>2. /\ d.next_state = decision.next_state /\ d.emit = "None"
          /\ d.schedule = decision.schedule
      BY Zenon DEF Decision
    <3> HIDE DEF d
    <3>3. OK(apply_connection_decision(acked, p, d))
      BY <1>5, <1>7, <3>2, ConnectionDecisionOK, Zenon
    <3> QED BY <3>2, <3>3, Zenon DEF apply_connection_decision
  <2>2. moved.rx = acked.rx BY <1>5, Zenon DEF OK, SessionState
  <2>3. decided = IF decision.emit = "None" THEN moved
                  ELSE emit_control_event(moved, decision.emit, p)
    BY Zenon DEF apply_connection_decision
  <2> HIDE DEF moved, decided
  <2>4. decision.emit # "None" =>
          Consecutive(emit_control_event(moved, decision.emit, p).rx, last)
    BY <1>6, <1>7, <2>1, <2>2, EventConsecutive, Zenon
  <2> QED BY <1>6, <2>2, <2>3, <2>4, Zenon
<1> HIDE DEF decided
<1>10. Consecutive(received.rx, last) /\ received \in SessionState
  <2> DEFINE rx == on_packet(decided.rx, p, kind)
  <2>1. decided.rx \in RxSessionState BY <1>8, Zenon DEF OK, SessionState
  <2>2. rx \in RxSessionState BY <2>1, OnPacketType, Zenon
  <2>3. Consecutive(rx, last) BY <1>9, <2>1, OnPacketConsecutive, Zenon
  <2>4. received = [decided EXCEPT !.rx = rx] BY Zenon
  <2> HIDE DEF rx, received
  <2> QED BY <1>8, <2>2, <2>3, <2>4, Zenon DEF OK, SessionState
<1> HIDE DEF received
<1>11. live.rx = received.rx /\ live \in SessionState
  BY <1>10, ZenonT(60) DEF update_post_receive_liveness, SessionState, TxSessionState
<1> HIDE DEF live
<1>12. final.rx = live.rx
  BY <1>11, Zenon DEF schedule_receive_side_ack, SessionState
<1>13. process_packet(adopted, kind, p) = final
  BY Zenon DEF process_packet, final, live, received, decided, decision, acked, probed
<1> HIDE DEF final
<1> QED BY <1>1, <1>2, <1>3, <1>10, <1>11, <1>12, <1>13, Zenon DEF on_datagram_received, kind, adopted

\* drain_events: the last number handed over is remembered.
LEMMA DrainEventsConsecutive ==
  ASSUME NEW rx \in RxSessionState, NEW last, Consecutive(rx, last)
  PROVE  Consecutive(drain_events(rx),
                     LastOrdered(rx.pending_events, last, Len(rx.pending_events)))
<1> DEFINE events == rx.pending_events
           now == LastOrdered(events, last, Len(events))
           drained == drain_events(rx)
<1>1. /\ drained.pending_events = << >>
      /\ drained.ordered_delivery_started = rx.ordered_delivery_started
      /\ drained.next_ordered_delivery = rx.next_ordered_delivery
  BY Zenon DEF drain_events, RxSessionState
<1>2. now # NoneYet => /\ rx.ordered_delivery_started
                       /\ rx.next_ordered_delivery = SeqAdd(now, 1)
  BY Zenon DEF Consecutive
<1> HIDE DEF now, drained
<1>3. LastOrdered(<< >>, now, 0) = now BY DEF LastOrdered
<1>4. Consecutive(drained, now) BY <1>1, <1>2, <1>3 DEF Consecutive
<1> QED BY <1>4, Zenon DEF now, drained

LEMMA NextConsecutive ==
  IInv /\ Consecutive(session.rx, last_ordered) /\ [Next]_vars =>
    Consecutive(session.rx, last_ordered)'
<1> SUFFICES ASSUME IInv, Consecutive(session.rx, last_ordered), [Next]_vars
             PROVE  Consecutive(session'.rx, last_ordered')
  BY Zenon
<1>1. OK(session) BY IInvIsOK, Zenon
<1>2. CASE \E r \in Requests : QueueSend(r)
  <2>1. session'.rx = session.rx
    BY <1>1, <1>2, Zenon DEF QueueSend, queue_send, OK, SessionState
  <2> QED BY <1>2, <2>1, Zenon DEF QueueSend
<1>3. CASE RequestClose
  <2>1. session'.rx = session.rx
    BY <1>1, <1>3, Zenon DEF RequestClose, request_close, OK, SessionState
  <2> QED BY <1>3, <2>1, Zenon DEF RequestClose
<1>4. CASE \E clock \in ClockReadings(session) : PollTx(clock)
  BY <1>1, <1>4, PollTxConsecutive, Zenon DEF PollTx
<1>5. CASE \E p \in Inbound, l \in BOOLEAN : OnDatagramReceived(p, l)
  BY <1>1, <1>5, OnDatagramConsecutive, OpenSessionAssumption, Zenon DEF OnDatagramReceived
<1>6. CASE DrainEvents
  <2>1. session.rx \in RxSessionState /\ session'.rx = drain_events(session.rx)
    BY <1>1, <1>6, Zenon DEF DrainEvents, OK, SessionState
  <2> QED BY <1>6, <2>1, DrainEventsConsecutive, Zenon DEF DrainEvents
<1>7. CASE UNCHANGED vars BY <1>7, Zenon DEF vars
<1> QED BY <1>2, <1>3, <1>4, <1>5, <1>6, <1>7, Zenon DEF Next

\* RxHandler: the ReliableOrdered payloads reach the application in consecutive
\* sequence order, none repeated, skipped or swapped, across the wrap-around
\* and whatever packets arrive in whatever order.
THEOREM DeliveredInOrder == Spec => []OrderedConsecutive
<1>1. Init => Consecutive(session.rx, last_ordered)
  <2> SUFFICES ASSUME Init PROVE Consecutive(session.rx, last_ordered) BY Zenon
  <2>1. session.rx.pending_events = << >> /\ last_ordered = NoneYet
    BY DEF Init, NewSession, RxInit
  <2>2. LastOrdered(<< >>, NoneYet, 0) = NoneYet BY DEF LastOrdered
  <2> QED BY <2>1, <2>2 DEF Consecutive
<1>2. IInv /\ Consecutive(session.rx, last_ordered) => OrderedConsecutive
  <2> SUFFICES ASSUME IInv, Consecutive(session.rx, last_ordered)
               PROVE  OrderedConsecutive
    BY Zenon
  <2> DEFINE events == session.rx.pending_events
  <2>1. events \in Seq(SessionEvent)
    BY IInvIsOK, Zenon DEF OK, SessionState, RxSessionState
  <2>2. DOMAIN events = 1 .. Len(events) /\ (Len(events) + 1) - 1 = Len(events)
    BY <2>1
  <2> QED BY <2>2, Zenon DEF Consecutive, OrderedConsecutive
<1> QED BY Invariance, NextConsecutive, <1>1, <1>2, PTL DEF Spec
=============================================================================
