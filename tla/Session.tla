------------------------------ MODULE Session -------------------------------
(***************************************************************************)
(* One end of a connection (src/Session.cpp). A session is a record; the   *)
(* operators are the public functions of class Session, each the whole     *)
(* handler. Stored times are not kept: what a handler asks of the clock is *)
(* whether a deadline has passed, and the answers are its inputs.          *)
(***************************************************************************)
EXTENDS TxHandler

CONSTANTS
  EnableActivityAckOnly,  \* transport.enable_activity_ack_only
  Deadlines               \* bound: the deadlines that may pass

DeadlineKind == {"idle", "reliable_ack", "activity_ack", "probe", "rto"}

ASSUME SessionAssumption ==
  /\ EnableActivityAckOnly \in BOOLEAN
  /\ Deadlines \subseteq DeadlineKind

SessionState ==
  [role: SessionRole, conn_id: ConnId, connection_state: ConnectionState,
   tx: TxSessionState, rx: RxSessionState]

NewSession(role, initial_seq) ==
  [role |-> role, conn_id |-> 0, connection_state |-> "Closed",
   tx |-> TxInit(initial_seq), rx |-> RxInit]

\* poll_tx's comparisons of now_ms with a deadline: the idle timeout, the
\* delayed ACK, the activity ACK, the probe interval, and the in-flight
\* entries whose retransmission timeout has passed. A deadline that the session
\* does not look at in its state counts as not passed.
MayPass(kind, looked_at) ==
  IF kind \in Deadlines /\ looked_at THEN BOOLEAN ELSE {FALSE}

ClockReadings(s) ==
  LET established == s.connection_state = "Established"
  IN  [idle: MayPass("idle", established),
       reliable_ack: MayPass("reliable_ack", s.tx.reliable_ack_pending),
       activity_ack: MayPass("activity_ack", s.tx.activity_ack_pending),
       probe: MayPass("probe", established),
       expired: SUBSET {e.seq : e \in {f \in s.tx.inflight : "rto" \in Deadlines}}]

\* No deadline has passed: every session may read this.
NothingDue == [idle |-> FALSE, reliable_ack |-> FALSE, activity_ack |-> FALSE,
               probe |-> FALSE, expired |-> {}]

emit_local_error(s) ==
  [s EXCEPT !.rx = emit(@, [type |-> "Error", seq |-> 0, channel_id |-> 0,
                            channel_type |-> "Unreliable",
                            payload |-> NoPayload])]

emit_control_event(s, type, p) ==
  [s EXCEPT !.rx = emit(@, [type |-> type, seq |-> p.seq,
                            channel_id |-> p.channel_id,
                            channel_type |-> p.channel_type,
                            payload |-> NoPayload])]

Reset(s) == emit_local_error([s EXCEPT !.connection_state = "Reset"])

-----------------------------------------------------------------------------
queue_send(s, request) == [s EXCEPT !.tx = queue_app_data(@, request)]

request_close(s) ==
  IF s.connection_state = "Established"
  THEN [s EXCEPT !.connection_state = "Closing", !.tx.fin_pending = TRUE]
  ELSE s

-----------------------------------------------------------------------------
\* poll_tx

AckMayBeScheduled(s) ==
  /\ s.connection_state = "Established"
  /\ ~s.tx.ack_only_pending /\ ~s.tx.ping_pending /\ ~s.tx.pong_pending

\* Mutant: the ACK waits for data of its own to carry it.
should_schedule_ack_when_drained(s, clock) ==
  /\ AckMayBeScheduled(s) /\ s.tx.reliable_ack_pending /\ clock.reliable_ack
  /\ s.tx.inflight = {}

should_schedule_reliable_ack(s, clock) ==
  AckMayBeScheduled(s) /\ s.tx.reliable_ack_pending /\ clock.reliable_ack

should_schedule_activity_ack(s, clock) ==
  /\ EnableActivityAckOnly
  /\ AckMayBeScheduled(s) /\ s.tx.activity_ack_pending /\ clock.activity_ack

\* Mutant: a server probes too.
should_schedule_probe_any_role(s, clock) ==
  /\ s.connection_state = "Established"
  /\ ~s.tx.ping_outstanding /\ ~s.tx.ping_pending /\ ~s.tx.pong_pending
  /\ clock.probe

should_schedule_probe(s, clock) ==
  /\ s.role = "Client" /\ s.connection_state = "Established"
  /\ ~s.tx.ping_outstanding /\ ~s.tx.ping_pending /\ ~s.tx.pong_pending
  /\ clock.probe

\* Mutant: only a server session times out.
should_timeout_idle_server(s, clock) ==
  s.role = "Server" /\ s.connection_state = "Established" /\ clock.idle

should_timeout_idle_session(s, clock) ==
  s.connection_state = "Established" /\ clock.idle

schedule_pending_tx_work(s, clock) ==
  IF should_schedule_reliable_ack(s, clock)
    THEN [s EXCEPT !.tx.ack_only_pending = TRUE,
                   !.tx.reliable_ack_pending = FALSE]
  ELSE IF should_schedule_activity_ack(s, clock)
    THEN [s EXCEPT !.tx.ack_only_pending = TRUE]
  ELSE IF should_schedule_probe(s, clock)
    THEN [s EXCEPT !.tx.ping_pending = TRUE]
  ELSE s

\* Probe and ACK bookkeeping for the datagrams (none or one) that go out.
apply_outbound_result(s, out) ==
  LET sent(kind) == \E p \in out : classify_control_kind(p.flags) = kind
  IN  [s EXCEPT !.tx.ping_outstanding = @ \/ sent("Ping"),
                !.tx.activity_ack_pending = @ /\ out = {},
                !.tx.reliable_ack_pending = @ /\ ~sent("Ack")]

poll_tx(s, clock) ==
  LET polled == poll(schedule_pending_tx_work(s, clock), clock.expired)
  IN  IF should_timeout_idle_session(s, clock)
        THEN [session |-> Reset(s), out |-> {}]
      ELSE IF polled.fatal THEN [session |-> Reset(polled.session), out |-> {}]
      ELSE [session |-> apply_outbound_result(polled.session, polled.out),
            out |-> polled.out]

-----------------------------------------------------------------------------
\* on_datagram_received

\* Mutant: the number is adopted too late, from a repeated SYN-ACK.
should_adopt_when_established(s, kind, p) ==
  /\ s.role = "Client" /\ kind = "SynAck" /\ s.conn_id = 0 /\ p.conn_id # 0
  /\ s.connection_state = "Established"

should_adopt_server_conn_id(s, kind, p) ==
  s.role = "Client" /\ kind = "SynAck" /\ s.conn_id = 0 /\ p.conn_id # 0

adopt_server_conn_id(s, kind, p) ==
  IF should_adopt_server_conn_id(s, kind, p)
  THEN [s EXCEPT !.conn_id = p.conn_id] ELSE s

allows_server_zero_conn_id_bootstrap(s, p) ==
  s.role = "Server" /\ s.connection_state = "Closed" /\ p.conn_id = 0

\* Mutant: the conn_id of a packet is not compared.
has_conn_id_mismatch_never(s, kind, p) == FALSE

has_conn_id_mismatch(s, kind, p) ==
  /\ s.conn_id # 0 /\ kind # "Syn"
  /\ ~allows_server_zero_conn_id_bootstrap(s, p)
  /\ p.conn_id # s.conn_id

is_duplicate_client_syn_ack(s, kind) ==
  s.role = "Client" /\ s.connection_state = "Established" /\ kind = "SynAck"

\* Mutant: a PONG does not end the wait for it.
handle_probe_receive_once(s, kind) ==
  IF kind = "Ping" /\ s.connection_state = "Established"
  THEN [s EXCEPT !.tx.pong_pending = TRUE] ELSE s

handle_probe_receive(s, kind) ==
  IF kind = "Ping" /\ s.connection_state = "Established"
    THEN [s EXCEPT !.tx.pong_pending = TRUE]
  ELSE IF kind = "Pong" THEN [s EXCEPT !.tx.ping_outstanding = FALSE]
  ELSE s

\* Every packet but a SYN acknowledges; an acknowledged FIN ends Closing.
apply_remote_ack(s, kind, p) ==
  LET acked == [s EXCEPT !.tx = on_remote_ack(@, p.ack, p.ack_bits)]
  IN  IF kind = "Syn" THEN s
      ELSE IF /\ acknowledged_fin(s.tx, p.ack, p.ack_bits)
              /\ s.connection_state = "Closing"
        THEN emit_control_event([acked EXCEPT !.connection_state = "Closed"],
                                "ConnectionClosed", p)
      ELSE acked

apply_connection_decision(s, p, decision) ==
  LET moved == [s EXCEPT
        !.connection_state =
           IF decision.next_state = "Keep" THEN @ ELSE decision.next_state,
        !.tx.syn_ack_pending = @ \/ decision.schedule = "SynAck",
        !.tx.final_ack_pending = @ \/ decision.schedule = "FinalAck",
        !.tx.ack_only_pending = @ \/ decision.schedule = "AckOnly"]
  IN  IF decision.emit = "None" THEN moved
      ELSE emit_control_event(moved, decision.emit, p)

update_post_receive_liveness(s, kind) ==
  IF kind = "None" /\ s.connection_state = "Established"
  THEN [s EXCEPT !.tx.activity_ack_pending = TRUE] ELSE s

schedule_receive_side_ack(s, kind, p) ==
  IF ~schedule_ack_only(p, kind) THEN s
  ELSE IF kind = "None" THEN [s EXCEPT !.tx.reliable_ack_pending = TRUE]
  ELSE [s EXCEPT !.tx.ack_only_pending = TRUE]

\* The part of on_datagram_received behind its early returns.
process_packet(s, kind, p) ==
  LET probed == handle_probe_receive(s, kind)
      acked == apply_remote_ack(probed, kind, p)
      decided == apply_connection_decision(acked, p,
                   decide_connection_transition(acked.role,
                                                acked.connection_state, kind))
      received == [decided EXCEPT !.rx = on_packet(@, p, kind)]
      live == update_post_receive_liveness(received, kind)
  IN  schedule_receive_side_ack(live, kind, p)

\* lingering: now_ms <= final_ack_linger_until_ms.
on_datagram_received(s, p, lingering) ==
  LET kind == classify_control_kind(p.flags)
      adopted == adopt_server_conn_id(s, kind, p)
  IN  IF has_conn_id_mismatch(adopted, kind, p) THEN Reset(adopted)
      ELSE IF is_duplicate_client_syn_ack(adopted, kind)
        THEN [adopted EXCEPT !.tx.final_ack_pending = @ \/ lingering]
      ELSE process_packet(adopted, kind, p)
=============================================================================
