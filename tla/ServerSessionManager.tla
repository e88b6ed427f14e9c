------------------------ MODULE ServerSessionManager ------------------------
(***************************************************************************)
(* The server's table of sessions (src/ServerSessionManager.cpp): pending  *)
(* ones by endpoint until the handshake completes, then active ones by     *)
(* conn_id, with an endpoint index next to them. A manager is a record of  *)
(* four maps and sets; a map is a function on the keys it holds.           *)
(***************************************************************************)
EXTENDS Session, TLC

CONSTANT Endpoint   \* peer addresses

EmptyMap == [k \in {} |-> k]
Put(map, key, value) ==
  [k \in DOMAIN map \cup {key} |-> IF k = key THEN value ELSE map[k]]
Erase(map, key) == Restrict(map, DOMAIN map \ {key})

NewManager ==
  [pending_by_endpoint |-> EmptyMap, active_by_conn_id |-> EmptyMap,
   active_conn_id_by_endpoint |-> EmptyMap, retired_conn_ids |-> {}]

\* Mutant: a session that was reset is kept.
is_terminal_state_closed(s) == s.connection_state = "Closed"

is_terminal_state(s) == s.connection_state \in {"Reset", "Closed"}

\* Mutant: a retired number is handed out again.
conn_id_is_in_use_now(m, conn_id) ==
  \/ conn_id = 0
  \/ conn_id \in DOMAIN m.active_by_conn_id
  \/ \E e \in DOMAIN m.pending_by_endpoint :
       m.pending_by_endpoint[e].conn_id = conn_id

conn_id_is_in_use(m, conn_id) ==
  \/ conn_id = 0
  \/ conn_id \in m.retired_conn_ids
  \/ conn_id \in DOMAIN m.active_by_conn_id
  \/ \E e \in DOMAIN m.pending_by_endpoint :
       m.pending_by_endpoint[e].conn_id = conn_id

\* What allocate_conn_id may return.
FreeConnIds(m) == {c \in ConnId : ~conn_id_is_in_use(m, c)}

is_active_endpoint_match(m, endpoint, conn_id) ==
  /\ endpoint \in DOMAIN m.active_conn_id_by_endpoint
  /\ m.active_conn_id_by_endpoint[endpoint] = conn_id

-----------------------------------------------------------------------------
\* Mutant: the promoted session stays pending too.
promote_keeping_pending(m, endpoint) ==
  LET s == m.pending_by_endpoint[endpoint]
  IN  [m EXCEPT !.active_conn_id_by_endpoint = Put(@, endpoint, s.conn_id),
                !.active_by_conn_id = Put(@, s.conn_id, s)]

promote_pending_session(m, endpoint) ==
  LET s == m.pending_by_endpoint[endpoint]
  IN  IF s.conn_id = 0 THEN m
      ELSE [m EXCEPT
              !.active_conn_id_by_endpoint = Put(@, endpoint, s.conn_id),
              !.active_by_conn_id = Put(@, s.conn_id, s),
              !.pending_by_endpoint = Erase(@, endpoint)]

\* The session object, with the events nobody drained, is destroyed.
cleanup_pending_session(m, endpoint) ==
  [m EXCEPT !.retired_conn_ids =
               @ \cup ({m.pending_by_endpoint[endpoint].conn_id} \ {0}),
            !.pending_by_endpoint = Erase(@, endpoint)]

\* Mutant: the number of a session that ends is not retired.
cleanup_active_session_unretired(m, endpoint, conn_id) ==
  [m EXCEPT !.active_by_conn_id = Erase(@, conn_id),
            !.active_conn_id_by_endpoint =
               IF is_active_endpoint_match(m, endpoint, conn_id)
               THEN Erase(@, endpoint) ELSE @]

cleanup_active_session(m, endpoint, conn_id) ==
  [m EXCEPT !.retired_conn_ids = @ \cup ({conn_id} \ {0}),
            !.active_by_conn_id = Erase(@, conn_id),
            !.active_conn_id_by_endpoint =
               IF is_active_endpoint_match(m, endpoint, conn_id)
               THEN Erase(@, endpoint) ELSE @]

-----------------------------------------------------------------------------
\* on_datagram_received

try_dispatch_active(m, endpoint, p, lingering) ==
  LET s == on_datagram_received(m.active_by_conn_id[p.conn_id], p, lingering)
      dispatched == [m EXCEPT !.active_by_conn_id[p.conn_id] = s]
  IN  IF is_terminal_state(s)
      THEN cleanup_active_session(dispatched, endpoint, p.conn_id)
      ELSE dispatched

try_dispatch_pending(m, endpoint, p, lingering) ==
  LET s == on_datagram_received(m.pending_by_endpoint[endpoint], p, lingering)
      dispatched == [m EXCEPT !.pending_by_endpoint[endpoint] = s]
  IN  IF s.connection_state = "Established"
        THEN promote_pending_session(dispatched, endpoint)
      ELSE IF is_terminal_state(s)
        THEN cleanup_pending_session(dispatched, endpoint)
      ELSE dispatched

RoutesToActive(m, p) == p.conn_id # 0 /\ p.conn_id \in DOMAIN m.active_by_conn_id

IsNewPeer(m, endpoint, p) ==
  /\ ~RoutesToActive(m, p)
  /\ endpoint \notin DOMAIN m.pending_by_endpoint
  /\ p.conn_id = 0
  /\ endpoint \notin DOMAIN m.active_conn_id_by_endpoint

\* new_id and initial_seq are what allocate_conn_id and the Session
\* constructor draw if the packet opens a session.
manager_on_datagram_received(m, endpoint, p, lingering, new_id, initial_seq) ==
  LET fresh == [NewSession("Server", initial_seq) EXCEPT !.conn_id = new_id]
  IN  IF RoutesToActive(m, p)
        THEN IF is_active_endpoint_match(m, endpoint, p.conn_id)
             THEN try_dispatch_active(m, endpoint, p, lingering) ELSE m
      ELSE IF endpoint \in DOMAIN m.pending_by_endpoint
        THEN try_dispatch_pending(m, endpoint, p, lingering)
      ELSE IF IsNewPeer(m, endpoint, p)
        THEN try_dispatch_pending(
               [m EXCEPT !.pending_by_endpoint = Put(@, endpoint, fresh)],
               endpoint, p, lingering)
      ELSE m

-----------------------------------------------------------------------------
\* poll_tx: every session is polled once; one that returns nothing and is
\* terminal is removed. clock gives the clock reading of each endpoint's
\* session (an endpoint has at most one).

PollPending(m, clock) ==
  [e \in DOMAIN m.pending_by_endpoint |->
     poll_tx(m.pending_by_endpoint[e], clock[e])]

PollActive(m, clock) ==
  [e \in {d \in DOMAIN m.active_conn_id_by_endpoint :
           m.active_conn_id_by_endpoint[d] \in DOMAIN m.active_by_conn_id} |->
     poll_tx(m.active_by_conn_id[m.active_conn_id_by_endpoint[e]], clock[e])]

Finished(result) == result.out = {} /\ is_terminal_state(result.session)

manager_poll_tx(m, clock) ==
  LET pending == PollPending(m, clock)
      active == PollActive(m, clock)
      pending_to_cleanup == {e \in DOMAIN pending : Finished(pending[e])}
      active_to_cleanup == {e \in DOMAIN active : Finished(active[e])}
      id(e) == m.active_conn_id_by_endpoint[e]
      owner(c) == {e \in DOMAIN active : id(e) = c}
      ids_to_cleanup == {id(e) : e \in active_to_cleanup}
  IN  [m EXCEPT
         !.pending_by_endpoint =
            [e \in DOMAIN @ \ pending_to_cleanup |-> pending[e].session],
         !.active_by_conn_id =
            [c \in DOMAIN @ \ ids_to_cleanup |->
               IF owner(c) = {} THEN @[c]
               ELSE active[CHOOSE e \in owner(c) : TRUE].session],
         !.active_conn_id_by_endpoint =
            Restrict(@, DOMAIN @ \ active_to_cleanup),
         !.retired_conn_ids =
            @ \cup (ids_to_cleanup \ {0})
              \cup ({m.pending_by_endpoint[e].conn_id :
                       e \in pending_to_cleanup} \ {0})]

manager_outbound(m, clock) ==
  LET pending == PollPending(m, clock)
      active == PollActive(m, clock)
  IN  (UNION {{<<e, p>> : p \in pending[e].out} : e \in DOMAIN pending})
        \cup (UNION {{<<e, p>> : p \in active[e].out} : e \in DOMAIN active})

\* What one poll may read for the session of each endpoint.
ServerClocks(m) ==
  LET pending == m.pending_by_endpoint
      index == m.active_conn_id_by_endpoint
      readings(e) ==
        CASE e \in DOMAIN pending -> ClockReadings(pending[e])
          [] e \in DOMAIN index -> ClockReadings(m.active_by_conn_id[index[e]])
          [] OTHER -> {NothingDue}
      extend(e, clocks) == {Put(c, e, r) : c \in clocks, r \in readings(e)}
  IN  FoldSet(extend, {EmptyMap}, Endpoint)

-----------------------------------------------------------------------------
manager_queue_send(m, conn_id, request) ==
  IF conn_id \notin DOMAIN m.active_by_conn_id THEN m
  ELSE [m EXCEPT !.active_by_conn_id[conn_id] = queue_send(@, request)]

PendingEventsOf(m, e) ==
  IF e \in DOMAIN m.pending_by_endpoint
  THEN m.pending_by_endpoint[e].rx.pending_events ELSE << >>

ActiveEventsOf(m, c) ==
  IF c \in DOMAIN m.active_by_conn_id
  THEN m.active_by_conn_id[c].rx.pending_events ELSE << >>

\* The events of endpoint's sessions that drain_events returns.
EventsOf(m, e) ==
  PendingEventsOf(m, e) \o
  (IF e \in DOMAIN m.active_conn_id_by_endpoint
   THEN ActiveEventsOf(m, m.active_conn_id_by_endpoint[e]) ELSE << >>)

DrainAll(map) == [k \in DOMAIN map |-> [map[k] EXCEPT !.rx = drain_events(@)]]

manager_drain_events(m) ==
  [m EXCEPT !.pending_by_endpoint = DrainAll(@),
            !.active_by_conn_id = DrainAll(@)]

-----------------------------------------------------------------------------
\* The four maps agree. An endpoint is pending or active, never both; the
\* endpoint index and the session table name the same connections, one
\* endpoint each, under the session's own conn_id; live ids are distinct, and
\* none of them has been retired before.
MapsAgree(m) ==
  LET pending == m.pending_by_endpoint
      active == m.active_by_conn_id
      index == m.active_conn_id_by_endpoint
  IN  /\ DOMAIN pending \cap DOMAIN index = {}
      /\ Range(index) = DOMAIN active
      /\ \A e, f \in DOMAIN index : index[e] = index[f] => e = f
      /\ \A c \in DOMAIN active : active[c].conn_id = c
      /\ \A e, f \in DOMAIN pending :
           pending[e].conn_id = pending[f].conn_id => e = f
      /\ \A c \in DOMAIN active \cup {pending[e].conn_id : e \in DOMAIN pending} :
           c # 0 /\ c \notin m.retired_conn_ids
      /\ \A e \in DOMAIN pending : pending[e].conn_id \notin DOMAIN active
=============================================================================
