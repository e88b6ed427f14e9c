---------------------------- MODULE ManagerProofs ----------------------------
(***************************************************************************)
(* What the operations of ServerSessionManager keep, for any endpoints,    *)
(* connection numbers and windows, and what each of them does to the       *)
(* session of one endpoint.                                                *)
(***************************************************************************)
EXTENDS ServerSessionManager, SessionProofs

\* A server's session that holds conn_id c.
SessionOf(s, c) == Identity(s, "Server", c)

ManagerFields == {"pending_by_endpoint", "active_by_conn_id",
                  "active_conn_id_by_endpoint", "retired_conn_ids"}

\* MapsAgree is not inductive by itself: a session must stay a server's and
\* keep the number it is filed under while it handles a packet or a poll.
ManagerOK(m) ==
  /\ DOMAIN m = ManagerFields
  /\ MapsAgree(m)
  /\ \A e \in DOMAIN m.pending_by_endpoint :
       SessionOf(m.pending_by_endpoint[e], m.pending_by_endpoint[e].conn_id)
  /\ \A c \in DOMAIN m.active_by_conn_id : SessionOf(m.active_by_conn_id[c], c)

-----------------------------------------------------------------------------
\* The maps of the manager

\* A session is replaced by what a handler returns.
LEMMA UpdatePending ==
  ASSUME NEW m, ManagerOK(m), NEW e \in DOMAIN m.pending_by_endpoint,
         NEW s, SessionOf(s, m.pending_by_endpoint[e].conn_id)
  PROVE  ManagerOK([m EXCEPT !.pending_by_endpoint[e] = s])
  BY DEF ManagerOK, ManagerFields, MapsAgree, SessionOf, Identity

LEMMA UpdateActive ==
  ASSUME NEW m, ManagerOK(m), NEW c \in DOMAIN m.active_by_conn_id,
         NEW s, SessionOf(s, c)
  PROVE  ManagerOK([m EXCEPT !.active_by_conn_id[c] = s])
  BY DEF ManagerOK, ManagerFields, MapsAgree, SessionOf, Identity

\* Erasing an entry leaves the others.
LEMMA EraseMap ==
  ASSUME NEW map, NEW key
  PROVE  /\ DOMAIN Erase(map, key) = DOMAIN map \ {key}
         /\ \A k \in DOMAIN map \ {key} : Erase(map, key)[k] = map[k]
  BY Zenon DEF Erase, Restrict

\* A new peer's session gets a number that is not in use.
LEMMA AddPending ==
  ASSUME NEW m, ManagerOK(m), NEW e, e \notin DOMAIN m.pending_by_endpoint,
         e \notin DOMAIN m.active_conn_id_by_endpoint,
         NEW c \in FreeConnIds(m), NEW s, SessionOf(s, c)
  PROVE  ManagerOK([m EXCEPT !.pending_by_endpoint = Put(@, e, s)])
<1> DEFINE P == Put(m.pending_by_endpoint, e, s)
           n == [m EXCEPT !.pending_by_endpoint = P]
<1>1. /\ DOMAIN P = DOMAIN m.pending_by_endpoint \cup {e}
      /\ P[e] = s
      /\ \A k \in DOMAIN m.pending_by_endpoint : P[k] = m.pending_by_endpoint[k]
  BY Zenon DEF Put
<1> HIDE DEF P
<1>2. /\ DOMAIN n = ManagerFields
      /\ n.pending_by_endpoint = P
      /\ n.active_by_conn_id = m.active_by_conn_id
      /\ n.active_conn_id_by_endpoint = m.active_conn_id_by_endpoint
      /\ n.retired_conn_ids = m.retired_conn_ids
  BY Zenon DEF ManagerOK, ManagerFields
<1>3. /\ c # 0 /\ c \notin m.retired_conn_ids /\ c \notin DOMAIN m.active_by_conn_id
      /\ \A k \in DOMAIN m.pending_by_endpoint : m.pending_by_endpoint[k].conn_id # c
  BY Zenon DEF FreeConnIds, conn_id_is_in_use
<1>4. s.conn_id = c BY Zenon DEF SessionOf, Identity
<1> HIDE DEF n
<1>5. MapsAgree(n)
  BY <1>1, <1>2, <1>3, <1>4 DEF ManagerOK, MapsAgree
<1>6. ManagerOK(n)
  BY <1>1, <1>2, <1>4, <1>5, Zenon DEF ManagerOK
<1> QED BY <1>6, Zenon DEF n, P

LEMMA PromoteOK ==
  ASSUME NEW m, ManagerOK(m), NEW e \in DOMAIN m.pending_by_endpoint
  PROVE  ManagerOK(promote_pending_session(m, e))
<1> DEFINE s == m.pending_by_endpoint[e]
           c == s.conn_id
           I == Put(m.active_conn_id_by_endpoint, e, c)
           A == Put(m.active_by_conn_id, c, s)
           P == Erase(m.pending_by_endpoint, e)
           n == promote_pending_session(m, e)
<1>1. /\ c # 0 /\ c \notin DOMAIN m.active_by_conn_id
      /\ e \notin DOMAIN m.active_conn_id_by_endpoint
      /\ SessionOf(s, c) /\ c \notin m.retired_conn_ids
  BY Zenon DEF ManagerOK, MapsAgree
<1>2. /\ DOMAIN I = DOMAIN m.active_conn_id_by_endpoint \cup {e} /\ I[e] = c
      /\ \A k \in DOMAIN m.active_conn_id_by_endpoint :
           I[k] = m.active_conn_id_by_endpoint[k]
  BY <1>1, Zenon DEF Put
<1>3. /\ DOMAIN A = DOMAIN m.active_by_conn_id \cup {c} /\ A[c] = s
      /\ \A k \in DOMAIN m.active_by_conn_id : A[k] = m.active_by_conn_id[k]
  BY <1>1, Zenon DEF Put
<1>4. /\ DOMAIN P = DOMAIN m.pending_by_endpoint \ {e}
      /\ \A k \in DOMAIN P : P[k] = m.pending_by_endpoint[k]
  BY EraseMap, Zenon
<1>5. /\ DOMAIN n = ManagerFields
      /\ n.pending_by_endpoint = P
      /\ n.active_by_conn_id = A
      /\ n.active_conn_id_by_endpoint = I
      /\ n.retired_conn_ids = m.retired_conn_ids
  BY <1>1, Zenon DEF ManagerOK, ManagerFields, promote_pending_session
<1> HIDE DEF I, A, P, n
<1>6. MapsAgree(n)
  <2> USE <1>5 DEF MapsAgree, ManagerOK
  <2>1. DOMAIN P \cap DOMAIN I = {} BY <1>2, <1>4, Zenon
  <2>2. Range(I) = DOMAIN A BY <1>1, <1>2, <1>3 DEF Range
  <2>3. \A d, f \in DOMAIN I : I[d] = I[f] => d = f
    BY <1>1, <1>2 DEF Range
  <2>4. \A d \in DOMAIN A : A[d].conn_id = d BY <1>1, <1>3, Zenon
  <2>5. \A d, f \in DOMAIN P : P[d].conn_id = P[f].conn_id => d = f BY <1>4
  <2>6. \A d \in DOMAIN A \cup {P[f].conn_id : f \in DOMAIN P} :
          d # 0 /\ d \notin m.retired_conn_ids
    BY <1>1, <1>3, <1>4
  <2>7. \A f \in DOMAIN P : P[f].conn_id \notin DOMAIN A BY <1>3, <1>4, Zenon
  <2> QED BY <2>1, <2>2, <2>3, <2>4, <2>5, <2>6, <2>7
<1>7. ManagerOK(n)
  BY <1>1, <1>3, <1>4, <1>5, <1>6 DEF ManagerOK
<1> QED BY <1>7, Zenon DEF n

LEMMA CleanupPendingOK ==
  ASSUME NEW m, ManagerOK(m), NEW e \in DOMAIN m.pending_by_endpoint
  PROVE  ManagerOK(cleanup_pending_session(m, e))
<1> DEFINE P == Erase(m.pending_by_endpoint, e)
           n == cleanup_pending_session(m, e)
<1>1. /\ DOMAIN P = DOMAIN m.pending_by_endpoint \ {e}
      /\ \A k \in DOMAIN P : P[k] = m.pending_by_endpoint[k]
  BY EraseMap, Zenon
<1>2. /\ DOMAIN n = ManagerFields
      /\ n.pending_by_endpoint = P
      /\ n.active_by_conn_id = m.active_by_conn_id
      /\ n.active_conn_id_by_endpoint = m.active_conn_id_by_endpoint
      /\ n.retired_conn_ids =
           m.retired_conn_ids \cup ({m.pending_by_endpoint[e].conn_id} \ {0})
  BY Zenon DEF ManagerOK, ManagerFields, cleanup_pending_session
<1> HIDE DEF P, n
<1>3. MapsAgree(n) BY <1>1, <1>2 DEF MapsAgree, ManagerOK
<1>4. ManagerOK(n) BY <1>1, <1>2, <1>3, Zenon DEF ManagerOK
<1> QED BY <1>4, Zenon DEF n

LEMMA CleanupActiveOK ==
  ASSUME NEW m, ManagerOK(m), NEW e, NEW c, is_active_endpoint_match(m, e, c)
  PROVE  ManagerOK(cleanup_active_session(m, e, c))
<1> DEFINE A == Erase(m.active_by_conn_id, c)
           I == Erase(m.active_conn_id_by_endpoint, e)
           n == cleanup_active_session(m, e, c)
<1>1. /\ DOMAIN A = DOMAIN m.active_by_conn_id \ {c}
      /\ \A k \in DOMAIN A : A[k] = m.active_by_conn_id[k]
  BY EraseMap, Zenon
<1>2. /\ DOMAIN I = DOMAIN m.active_conn_id_by_endpoint \ {e}
      /\ \A k \in DOMAIN I : I[k] = m.active_conn_id_by_endpoint[k]
  BY EraseMap, Zenon
<1>3. /\ DOMAIN n = ManagerFields
      /\ n.pending_by_endpoint = m.pending_by_endpoint
      /\ n.active_by_conn_id = A
      /\ n.active_conn_id_by_endpoint = I
      /\ n.retired_conn_ids = m.retired_conn_ids \cup ({c} \ {0})
  BY Zenon DEF ManagerOK, ManagerFields, cleanup_active_session
<1>4. e \in DOMAIN m.active_conn_id_by_endpoint
      /\ m.active_conn_id_by_endpoint[e] = c
  BY Zenon DEF is_active_endpoint_match
<1> HIDE DEF A, I, n
<1>5. MapsAgree(n)
  <2> USE <1>3 DEF MapsAgree, ManagerOK
  <2>1. m.pending_by_endpoint = n.pending_by_endpoint
        /\ DOMAIN m.pending_by_endpoint \cap DOMAIN I = {} BY <1>2, Zenon
  <2>2. Range(I) = DOMAIN A BY <1>1, <1>2, <1>4 DEF Range
  <2>3. \A d, f \in DOMAIN I : I[d] = I[f] => d = f BY <1>2
  <2>4. c \in DOMAIN m.active_by_conn_id BY <1>4, Zenon DEF Range
  <2> QED BY <1>1, <2>1, <2>2, <2>3, <2>4
<1>6. ManagerOK(n) BY <1>1, <1>3, <1>5, Zenon DEF ManagerOK
<1> QED BY <1>6, Zenon DEF n

-----------------------------------------------------------------------------
\* The operations of the manager

\* The session of a pending endpoint handles a packet; then it is promoted,
\* removed or kept.
LEMMA DispatchPendingOK ==
  ASSUME NEW m, ManagerOK(m), NEW e \in DOMAIN m.pending_by_endpoint,
         NEW p, NEW lingering
  PROVE  ManagerOK(try_dispatch_pending(m, e, p, lingering))
<1> DEFINE old == m.pending_by_endpoint[e]
           s == on_datagram_received(old, p, lingering)
           n == [m EXCEPT !.pending_by_endpoint[e] = s]
<1>1. SessionOf(s, old.conn_id)
  BY ReceiveKeeps, Zenon DEF ManagerOK, SessionOf
<1>2. ManagerOK(n) BY <1>1, UpdatePending, Zenon
<1>3. e \in DOMAIN n.pending_by_endpoint
  BY Zenon DEF ManagerOK, ManagerFields
<1> HIDE DEF n, s
<1>4. /\ ManagerOK(promote_pending_session(n, e))
      /\ ManagerOK(cleanup_pending_session(n, e))
  BY <1>2, <1>3, PromoteOK, CleanupPendingOK, Zenon
<1> QED BY <1>2, <1>4, Zenon DEF try_dispatch_pending, n, s

LEMMA DispatchActiveOK ==
  ASSUME NEW m, ManagerOK(m), NEW e, NEW p, NEW lingering,
         RoutesToActive(m, p), is_active_endpoint_match(m, e, p.conn_id)
  PROVE  ManagerOK(try_dispatch_active(m, e, p, lingering))
<1> DEFINE c == p.conn_id
           s == on_datagram_received(m.active_by_conn_id[c], p, lingering)
           n == [m EXCEPT !.active_by_conn_id[c] = s]
<1>1. c \in DOMAIN m.active_by_conn_id BY Zenon DEF RoutesToActive
<1>2. SessionOf(s, c) BY <1>1, ReceiveKeeps, Zenon DEF ManagerOK, SessionOf
<1>3. ManagerOK(n) BY <1>1, <1>2, UpdateActive, Zenon
<1>4. is_active_endpoint_match(n, e, c)
  BY Zenon DEF is_active_endpoint_match, ManagerOK, ManagerFields
<1> HIDE DEF n, s
<1>5. ManagerOK(cleanup_active_session(n, e, c)) BY <1>3, <1>4, CleanupActiveOK, Zenon
<1> QED BY <1>3, <1>5, Zenon DEF try_dispatch_active, n, s

LEMMA ManagerReceiveOK ==
  ASSUME NEW m, ManagerOK(m), NEW e, NEW p, NEW lingering, NEW initial_seq,
         NEW id \in IF IsNewPeer(m, e, p) THEN FreeConnIds(m) ELSE {0}
  PROVE  ManagerOK(manager_on_datagram_received(m, e, p, lingering, id, initial_seq))
<1> DEFINE fresh == [NewSession("Server", initial_seq) EXCEPT !.conn_id = id]
           n == [m EXCEPT !.pending_by_endpoint = Put(@, e, fresh)]
<1>1. CASE RoutesToActive(m, p)
  BY <1>1, DispatchActiveOK, Zenon DEF manager_on_datagram_received
<1>2. CASE ~RoutesToActive(m, p) /\ e \in DOMAIN m.pending_by_endpoint
  BY <1>2, DispatchPendingOK, Zenon DEF manager_on_datagram_received
<1>3. CASE IsNewPeer(m, e, p)
  <2>1. SessionOf(fresh, id)
    BY Zenon DEF NewSession, SessionOf, Identity, SessionFields
  <2>2. /\ id \in FreeConnIds(m)
        /\ e \notin DOMAIN m.pending_by_endpoint
        /\ e \notin DOMAIN m.active_conn_id_by_endpoint
    BY <1>3, Zenon DEF IsNewPeer
  <2>3. e \in DOMAIN n.pending_by_endpoint
    BY Zenon DEF ManagerOK, ManagerFields, Put
  <2> HIDE DEF fresh
  <2>4. ManagerOK(n) BY <2>1, <2>2, AddPending, Zenon
  <2> HIDE DEF n
  <2>5. ManagerOK(try_dispatch_pending(n, e, p, lingering))
    BY <2>3, <2>4, DispatchPendingOK, Zenon
  <2> QED
    BY <1>3, <2>2, <2>5, Zenon DEF manager_on_datagram_received, IsNewPeer, n, fresh
<1>4. CASE /\ ~RoutesToActive(m, p) /\ ~IsNewPeer(m, e, p)
           /\ e \notin DOMAIN m.pending_by_endpoint
  BY <1>4, Zenon DEF manager_on_datagram_received
<1> QED BY <1>1, <1>2, <1>3, <1>4, Zenon

LEMMA ManagerQueueSendOK ==
  ASSUME NEW m, ManagerOK(m), NEW c, NEW request
  PROVE  ManagerOK(manager_queue_send(m, c, request))
<1>1. CASE c \notin DOMAIN m.active_by_conn_id
  BY <1>1, Zenon DEF manager_queue_send
<1>2. CASE c \in DOMAIN m.active_by_conn_id
  <2> DEFINE s == queue_send(m.active_by_conn_id[c], request)
  <2>1. SessionOf(s, c)
    BY <1>2, Zenon DEF queue_send, ManagerOK, SessionOf, Identity, SessionFields
  <2>2. ManagerOK([m EXCEPT !.active_by_conn_id[c] = s])
    BY <1>2, <2>1, UpdateActive, Zenon
  <2> QED BY <1>2, <2>2, Zenon DEF manager_queue_send
<1> QED BY <1>1, <1>2, Zenon

LEMMA ManagerDrainOK ==
  ASSUME NEW m, ManagerOK(m)
  PROVE  ManagerOK(manager_drain_events(m))
<1> DEFINE P == DrainAll(m.pending_by_endpoint)
           A == DrainAll(m.active_by_conn_id)
           n == manager_drain_events(m)
<1>1. /\ DOMAIN P = DOMAIN m.pending_by_endpoint
      /\ \A e \in DOMAIN P : /\ P[e].conn_id = m.pending_by_endpoint[e].conn_id
                             /\ SessionOf(P[e], P[e].conn_id)
  BY DEF DrainAll, ManagerOK, SessionOf, Identity, SessionFields
<1>2. /\ DOMAIN A = DOMAIN m.active_by_conn_id
      /\ \A c \in DOMAIN A : A[c].conn_id = c /\ SessionOf(A[c], c)
  BY DEF DrainAll, ManagerOK, SessionOf, Identity, SessionFields
<1>3. /\ DOMAIN n = ManagerFields
      /\ n.pending_by_endpoint = P
      /\ n.active_by_conn_id = A
      /\ n.active_conn_id_by_endpoint = m.active_conn_id_by_endpoint
      /\ n.retired_conn_ids = m.retired_conn_ids
  BY Zenon DEF ManagerOK, ManagerFields, manager_drain_events
<1> HIDE DEF P, A, n
<1>4. MapsAgree(n) BY <1>1, <1>2, <1>3 DEF MapsAgree, ManagerOK
<1>5. ManagerOK(n) BY <1>1, <1>2, <1>3, <1>4, Zenon DEF ManagerOK
<1> QED BY <1>5, Zenon DEF n

\* poll_tx polls every session and removes the finished ones of both maps.
LEMMA ManagerPollOK ==
  ASSUME NEW m, ManagerOK(m), NEW clock
  PROVE  ManagerOK(manager_poll_tx(m, clock))
<1> DEFINE M == m.pending_by_endpoint
           N == m.active_by_conn_id
           J == m.active_conn_id_by_endpoint
           pending == PollPending(m, clock)
           active == PollActive(m, clock)
           gone == {e \in DOMAIN pending : Finished(pending[e])}
           over == {e \in DOMAIN active : Finished(active[e])}
           ids == {J[e] : e \in over}
           owner(c) == {e \in DOMAIN active : J[e] = c}
           P == [e \in DOMAIN M \ gone |-> pending[e].session]
           A == [c \in DOMAIN N \ ids |->
                   IF owner(c) = {} THEN N[c]
                   ELSE active[CHOOSE e \in owner(c) : TRUE].session]
           I == Restrict(J, DOMAIN J \ over)
           R == m.retired_conn_ids \cup (ids \ {0})
                  \cup ({M[e].conn_id : e \in gone} \ {0})
           n == manager_poll_tx(m, clock)
<1>1. /\ DOMAIN n = ManagerFields
      /\ n.pending_by_endpoint = P
      /\ n.active_by_conn_id = A
      /\ n.active_conn_id_by_endpoint = I
      /\ n.retired_conn_ids = R
  BY Zenon DEF ManagerOK, ManagerFields, manager_poll_tx
<1>2. /\ DOMAIN pending = DOMAIN M
      /\ \A e \in DOMAIN M : SessionOf(pending[e].session, M[e].conn_id)
  BY PollKeeps, Zenon DEF PollPending, ManagerOK, SessionOf
<1>3. /\ DOMAIN active = DOMAIN J
      /\ \A e \in DOMAIN J : SessionOf(active[e].session, J[e])
  BY PollKeeps DEF PollActive, ManagerOK, SessionOf, MapsAgree, Range
<1> HIDE DEF pending, active, n
<1>4. gone \subseteq DOMAIN M /\ over \subseteq DOMAIN J
  BY <1>2, <1>3, Zenon
<1>5. /\ DOMAIN P = DOMAIN M \ gone
      /\ \A e \in DOMAIN P : /\ P[e].conn_id = M[e].conn_id
                             /\ SessionOf(P[e], P[e].conn_id)
  BY <1>2, Zenon DEF SessionOf, Identity
<1>6. \A c \in DOMAIN A : SessionOf(A[c], c)
  <2> SUFFICES ASSUME NEW c \in DOMAIN A PROVE SessionOf(A[c], c)
    BY Zenon
  <2>1. SessionOf(N[c], c) BY Zenon DEF ManagerOK
  <2>2. CASE owner(c) = {} BY <2>1, <2>2, Zenon
  <2>3. CASE owner(c) # {}
    <3> DEFINE o == CHOOSE e \in owner(c) : TRUE
    <3>1. o \in owner(c) BY <2>3, Zenon
    <3>2. o \in DOMAIN J /\ J[o] = c BY <3>1, <1>3, Zenon
    <3>3. A[c] = active[o].session BY <2>3, Zenon
    <3> QED BY <3>2, <3>3, <1>3, Zenon
  <2> QED BY <2>2, <2>3, Zenon
<1>7. DOMAIN A = DOMAIN N \ ids BY Zenon
<1>8. DOMAIN I = DOMAIN J \ over /\ \A e \in DOMAIN I : I[e] = J[e]
  BY Zenon DEF Restrict
<1> HIDE DEF P, A, I, gone, over
<1>9. MapsAgree(n)
  <2> USE <1>1 DEF MapsAgree, ManagerOK
  <2>1. DOMAIN P \cap DOMAIN I = {} BY <1>5, <1>8, Zenon
  <2>2. Range(I) = DOMAIN A BY <1>4, <1>7, <1>8 DEF Range
  <2>3. \A e, f \in DOMAIN I : I[e] = I[f] => e = f BY <1>8
  <2>4. \A c \in DOMAIN A : A[c].conn_id = c BY <1>6, Zenon DEF SessionOf, Identity
  <2>5. \A e, f \in DOMAIN P : P[e].conn_id = P[f].conn_id => e = f BY <1>5, Zenon
  <2>6. \A c \in DOMAIN A : c # 0 /\ c \notin R
    BY <1>4, <1>7
  <2>7. \A e \in DOMAIN P : P[e].conn_id # 0 /\ P[e].conn_id \notin R
    BY <1>4, <1>5 DEF Range
  <2>8. \A e \in DOMAIN P : P[e].conn_id \notin DOMAIN A BY <1>5, <1>7, Zenon
  <2> QED BY <2>1, <2>2, <2>3, <2>4, <2>5, <2>6, <2>7, <2>8
<1>10. ManagerOK(n) BY <1>1, <1>5, <1>6, <1>9, Zenon DEF ManagerOK
<1> QED BY <1>10, Zenon DEF n

-----------------------------------------------------------------------------
\* The manager as one endpoint sees it: which map holds its session, and the
\* session. Every operation is described by what it does to this view.

Kind(m, e) == IF e \in DOMAIN m.pending_by_endpoint THEN "pending"
              ELSE IF e \in DOMAIN m.active_conn_id_by_endpoint THEN "active"
              ELSE "none"

At(m, e) == IF e \in DOMAIN m.pending_by_endpoint THEN m.pending_by_endpoint[e]
            ELSE m.active_by_conn_id[m.active_conn_id_by_endpoint[e]]

\* f's session is where it was, and as it was.
SameView(m, n, f) == Kind(n, f) = Kind(m, f) /\ (Kind(m, f) # "none" => At(n, f) = At(m, f))

\* A view is what the maps say.
LEMMA ViewOf ==
  ASSUME NEW m, ManagerOK(m), NEW e
  PROVE  /\ Kind(m, e) = "pending" <=> e \in DOMAIN m.pending_by_endpoint
         /\ Kind(m, e) = "active" <=> e \in DOMAIN m.active_conn_id_by_endpoint
         /\ Kind(m, e) \in {"none", "pending", "active"}
         /\ Kind(m, e) = "pending" => At(m, e) = m.pending_by_endpoint[e]
         /\ Kind(m, e) = "active" =>
              At(m, e) = m.active_by_conn_id[m.active_conn_id_by_endpoint[e]]
<1>1. DOMAIN m.pending_by_endpoint \cap DOMAIN m.active_conn_id_by_endpoint = {}
  BY Zenon DEF ManagerOK, MapsAgree
<1> QED BY <1>1, Zenon DEF Kind, At

\* An active session is filed under the number it holds.
LEMMA ViewActive ==
  ASSUME NEW m, ManagerOK(m), NEW e, Kind(m, e) = "active"
  PROVE  /\ e \in DOMAIN m.active_conn_id_by_endpoint
         /\ m.active_conn_id_by_endpoint[e] = At(m, e).conn_id
         /\ At(m, e).conn_id \in DOMAIN m.active_by_conn_id
         /\ m.active_by_conn_id[At(m, e).conn_id] = At(m, e)
<1> DEFINE A == m.active_by_conn_id
           I == m.active_conn_id_by_endpoint
<1>1. \A f \in DOMAIN I : I[f] \in DOMAIN A /\ A[I[f]].conn_id = I[f]
  BY DEF ManagerOK, MapsAgree, Range
<1>2. e \in DOMAIN I /\ At(m, e) = A[I[e]] BY ViewOf, Zenon
<1> HIDE DEF A, I
<1>3. I[e] \in DOMAIN A /\ At(m, e).conn_id = I[e] BY <1>1, <1>2, Zenon
<1> QED BY <1>2, <1>3, Zenon DEF A, I

\* A session in a view is a server's and holds a live number.
LEMMA ViewSession ==
  ASSUME NEW m, ManagerOK(m), NEW e, Kind(m, e) # "none"
  PROVE  /\ SessionOf(At(m, e), At(m, e).conn_id)
         /\ At(m, e).conn_id # 0 /\ At(m, e).conn_id \notin m.retired_conn_ids
         /\ Kind(m, e) = "pending" => At(m, e).conn_id \notin DOMAIN m.active_by_conn_id
<1>1. CASE Kind(m, e) = "pending"
  <2>1. e \in DOMAIN m.pending_by_endpoint /\ At(m, e) = m.pending_by_endpoint[e]
    BY <1>1, ViewOf, Zenon
  <2> QED BY <1>1, <2>1 DEF ManagerOK, MapsAgree
<1>2. CASE Kind(m, e) = "active"
  <2> DEFINE c == At(m, e).conn_id
  <2>1. c \in DOMAIN m.active_by_conn_id /\ m.active_by_conn_id[c] = At(m, e)
    BY <1>2, ViewActive, Zenon
  <2> QED BY <1>2, <2>1, Zenon DEF ManagerOK, MapsAgree
<1> QED BY <1>1, <1>2, ViewOf, Zenon

\* Two endpoints have different numbers.
LEMMA ViewUnique ==
  ASSUME NEW m, ManagerOK(m), NEW e, NEW f, Kind(m, e) # "none", Kind(m, f) # "none",
         At(m, e).conn_id = At(m, f).conn_id
  PROVE  e = f
<1>1. CASE Kind(m, e) = "pending" /\ Kind(m, f) = "pending"
  BY <1>1, ViewOf DEF ManagerOK, MapsAgree
<1>2. CASE Kind(m, e) = "active" /\ Kind(m, f) = "active"
  BY <1>2, ViewActive DEF ManagerOK, MapsAgree
<1>3. CASE Kind(m, e) = "pending" /\ Kind(m, f) = "active"
  BY <1>3, ViewActive, ViewSession
<1>4. CASE Kind(m, e) = "active" /\ Kind(m, f) = "pending"
  BY <1>4, ViewActive, ViewSession
<1> QED BY <1>1, <1>2, <1>3, <1>4, ViewOf, Zenon

\* Every active session is some endpoint's.
LEMMA ActiveView ==
  ASSUME NEW m, ManagerOK(m), NEW c \in DOMAIN m.active_by_conn_id
  PROVE  \E e \in DOMAIN m.active_conn_id_by_endpoint :
           /\ m.active_conn_id_by_endpoint[e] = c
           /\ Kind(m, e) = "active" /\ At(m, e) = m.active_by_conn_id[c]
           /\ At(m, e).conn_id = c
<1>1. PICK e \in DOMAIN m.active_conn_id_by_endpoint : m.active_conn_id_by_endpoint[e] = c
  BY DEF ManagerOK, MapsAgree, Range
<1>2. Kind(m, e) = "active" BY ViewOf, Zenon
<1>3. At(m, e).conn_id = c /\ At(m, e) = m.active_by_conn_id[c]
  BY <1>1, <1>2, ViewActive, Zenon
<1> QED BY <1>1, <1>2, <1>3, Zenon

\* The manager n that is left when e's session becomes s.
Becomes(m, n, e, s) ==
  IF is_terminal_state(s)
  THEN /\ Kind(n, e) = "none"
       /\ n.retired_conn_ids = m.retired_conn_ids \cup {s.conn_id}
  ELSE /\ Kind(n, e) = IF Kind(m, e) = "active" \/ s.connection_state = "Established"
                       THEN "active" ELSE "pending"
       /\ At(n, e) = s
       /\ n.retired_conn_ids = m.retired_conn_ids

\* What a pending session does with a packet, and where it is filed after it.
LEMMA DispatchPendingView ==
  ASSUME NEW m, ManagerOK(m), NEW e \in DOMAIN m.pending_by_endpoint,
         NEW p, NEW lingering
  PROVE  LET n == try_dispatch_pending(m, e, p, lingering)
             s == on_datagram_received(m.pending_by_endpoint[e], p, lingering)
         IN  (\A f : f # e => SameView(m, n, f)) /\ Becomes(m, n, e, s)
<1> DEFINE old == m.pending_by_endpoint[e]
           s == on_datagram_received(old, p, lingering)
           c == old.conn_id
           P == [m.pending_by_endpoint EXCEPT ![e] = s]
           A == m.active_by_conn_id
           I == m.active_conn_id_by_endpoint
           d == [m EXCEPT !.pending_by_endpoint[e] = s]
           n == try_dispatch_pending(m, e, p, lingering)
<1>1. SessionOf(s, c) BY ReceiveKeeps, Zenon DEF ManagerOK, SessionOf
<1>2. /\ s.conn_id = c /\ c # 0 /\ c \notin DOMAIN A /\ e \notin DOMAIN I
      /\ DOMAIN m.pending_by_endpoint \cap DOMAIN I = {}
      /\ \A f \in DOMAIN I : I[f] \in DOMAIN A
  BY <1>1, Zenon DEF SessionOf, Identity, ManagerOK, MapsAgree, Range
<1>3. /\ d.pending_by_endpoint = P /\ d.active_by_conn_id = A
      /\ d.active_conn_id_by_endpoint = I
      /\ d.retired_conn_ids = m.retired_conn_ids /\ DOMAIN d = ManagerFields
      /\ DOMAIN P = DOMAIN m.pending_by_endpoint /\ P[e] = s
      /\ \A f \in DOMAIN P : f # e => P[f] = m.pending_by_endpoint[f]
  BY Zenon DEF ManagerOK, ManagerFields
<1>4. n = IF s.connection_state = "Established" THEN promote_pending_session(d, e)
          ELSE IF is_terminal_state(s) THEN cleanup_pending_session(d, e) ELSE d
  BY Zenon DEF try_dispatch_pending
<1> SUFFICES (\A f : f # e => SameView(m, n, f)) /\ Becomes(m, n, e, s)
  BY Zenon
<1> HIDE DEF s, d, n, P
<1>k. Kind(m, e) # "active" BY ViewOf, Zenon
<1>5. CASE s.connection_state = "Established"
  <2>1. /\ n.active_conn_id_by_endpoint = Put(I, e, c)
        /\ n.active_by_conn_id = Put(A, c, s)
        /\ n.pending_by_endpoint = Erase(P, e)
        /\ n.retired_conn_ids = m.retired_conn_ids
    BY <1>2, <1>3, <1>4, <1>5, Zenon DEF promote_pending_session, ManagerFields
  <2>2. DOMAIN Erase(P, e) = DOMAIN P \ {e} /\ \A k \in DOMAIN P \ {e} : Erase(P, e)[k] = P[k]
    BY EraseMap, ZenonT(30)
  <2>3. /\ DOMAIN Put(I, e, c) = DOMAIN I \cup {e} /\ Put(I, e, c)[e] = c
        /\ \A k \in DOMAIN I : Put(I, e, c)[k] = I[k]
    BY <1>2, Zenon DEF Put
  <2>4. /\ Put(A, c, s)[c] = s /\ \A k \in DOMAIN A : Put(A, c, s)[k] = A[k]
    BY <1>2, Zenon DEF Put
  <2>5. Kind(n, e) = "active" /\ At(n, e) = s
    BY <2>1, <2>2, <2>3, <2>4, Zenon DEF Kind, At
  <2>6. ASSUME NEW f, f # e PROVE SameView(m, n, f)
    <3>1. /\ f \in DOMAIN Erase(P, e) <=> f \in DOMAIN m.pending_by_endpoint
          /\ f \in DOMAIN Put(I, e, c) <=> f \in DOMAIN I
      BY <1>3, <2>2, <2>3, <2>6, Zenon
    <3>2. CASE f \in DOMAIN m.pending_by_endpoint
      <4>1. Erase(P, e)[f] = m.pending_by_endpoint[f] BY <1>3, <2>2, <2>6, <3>2, Zenon
      <4> QED BY <2>1, <3>1, <3>2, <4>1, Zenon DEF Kind, At, SameView
    <3>3. CASE f \notin DOMAIN m.pending_by_endpoint /\ f \notin DOMAIN I
      BY <2>1, <3>1, <3>3, Zenon DEF Kind, At, SameView
    <3>4. CASE f \notin DOMAIN m.pending_by_endpoint /\ f \in DOMAIN I
      <4>1. Put(I, e, c)[f] = I[f] /\ Put(A, c, s)[I[f]] = A[I[f]]
        BY <1>2, <2>3, <2>4, <3>4, Zenon
      <4> QED BY <2>1, <3>1, <3>4, <4>1, Zenon DEF Kind, At, SameView
    <3> QED BY <3>2, <3>3, <3>4, Zenon
  <2>7. ~is_terminal_state(s) BY <1>5, Zenon DEF is_terminal_state
  <2> QED BY <1>5, <2>1, <2>5, <2>6, <2>7, Zenon DEF Becomes
<1>6. CASE is_terminal_state(s)
  <2>1. s.connection_state # "Established" BY <1>6, Zenon DEF is_terminal_state
  <2>2. /\ n.active_conn_id_by_endpoint = I
        /\ n.active_by_conn_id = A
        /\ n.pending_by_endpoint = Erase(P, e)
        /\ n.retired_conn_ids = m.retired_conn_ids \cup {c}
    BY <1>2, <1>3, <1>4, <1>6, <2>1, Zenon DEF cleanup_pending_session, ManagerFields
  <2>3. DOMAIN Erase(P, e) = DOMAIN P \ {e} /\ \A k \in DOMAIN P \ {e} : Erase(P, e)[k] = P[k]
    BY EraseMap, ZenonT(30)
  <2>4. Kind(n, e) = "none" BY <1>2, <2>2, <2>3, Zenon DEF Kind
  <2>5. ASSUME NEW f, f # e PROVE SameView(m, n, f)
    BY <1>2, <1>3, <2>2, <2>3, <2>5 DEF Kind, At, SameView
  <2> QED BY <1>2, <1>6, <2>2, <2>4, <2>5, Zenon DEF Becomes
<1>7. CASE s.connection_state # "Established" /\ ~is_terminal_state(s)
  <2>1. n = d BY <1>4, <1>7, Zenon
  <2>2. Kind(n, e) = "pending" /\ At(n, e) = s BY <1>3, <2>1, Zenon DEF Kind, At
  <2>3. ASSUME NEW f, f # e PROVE SameView(m, n, f)
    BY <1>3, <2>1, <2>3, Zenon DEF Kind, At, SameView
  <2> QED BY <1>3, <1>k, <1>7, <2>1, <2>2, <2>3, Zenon DEF Becomes
<1> QED BY <1>5, <1>6, <1>7, Zenon

\* The same for an active session, which is never moved to another map.
LEMMA DispatchActiveView ==
  ASSUME NEW m, ManagerOK(m), NEW e, NEW p, NEW lingering,
         Kind(m, e) = "active", p.conn_id = At(m, e).conn_id
  PROVE  LET n == try_dispatch_active(m, e, p, lingering)
             s == on_datagram_received(At(m, e), p, lingering)
         IN  (\A f : f # e => SameView(m, n, f)) /\ Becomes(m, n, e, s)
<1> DEFINE old == At(m, e)
           s == on_datagram_received(old, p, lingering)
           c == p.conn_id
           P == m.pending_by_endpoint
           A == [m.active_by_conn_id EXCEPT ![c] = s]
           I == m.active_conn_id_by_endpoint
           d == [m EXCEPT !.active_by_conn_id[c] = s]
           n == try_dispatch_active(m, e, p, lingering)
<1>1. /\ e \in DOMAIN I /\ I[e] = c /\ c \in DOMAIN m.active_by_conn_id
      /\ m.active_by_conn_id[c] = old
  BY ViewActive, Zenon
<1>2. c # 0 /\ e \notin DOMAIN P BY ViewSession, ViewOf, Zenon
<1>3. \A f \in DOMAIN I : f # e => I[f] # c
  BY <1>1, Zenon DEF ManagerOK, MapsAgree
<1>4. /\ d.pending_by_endpoint = P /\ d.active_by_conn_id = A
      /\ d.active_conn_id_by_endpoint = I
      /\ d.retired_conn_ids = m.retired_conn_ids /\ DOMAIN d = ManagerFields
      /\ DOMAIN A = DOMAIN m.active_by_conn_id /\ A[c] = s
      /\ \A k \in DOMAIN A : k # c => A[k] = m.active_by_conn_id[k]
  BY <1>1, Zenon DEF ManagerOK, ManagerFields
<1>5. n = IF is_terminal_state(s) THEN cleanup_active_session(d, e, c) ELSE d
  BY <1>1, Zenon DEF try_dispatch_active
<1>6. \A f \in DOMAIN I : I[f] \in DOMAIN A
  BY <1>4, Zenon DEF ManagerOK, MapsAgree, Range
<1>s. s.conn_id = c BY ViewSession, ReceiveKeeps DEF SessionOf, Identity
<1> SUFFICES (\A f : f # e => SameView(m, n, f)) /\ Becomes(m, n, e, s)
  BY Zenon
<1> HIDE DEF s, d, n, A
<1>7. CASE is_terminal_state(s)
  <2>1. is_active_endpoint_match(d, e, c) BY <1>1, <1>4, Zenon DEF is_active_endpoint_match
  <2>2. /\ n.active_conn_id_by_endpoint = Erase(I, e)
        /\ n.active_by_conn_id = Erase(A, c)
        /\ n.pending_by_endpoint = P
        /\ n.retired_conn_ids = m.retired_conn_ids \cup {c}
    BY <1>2, <1>4, <1>5, <1>7, <2>1, Zenon DEF cleanup_active_session, ManagerFields
  <2>3. DOMAIN Erase(I, e) = DOMAIN I \ {e} /\ \A k \in DOMAIN I \ {e} : Erase(I, e)[k] = I[k]
    BY EraseMap, Zenon
  <2>4. \A k \in DOMAIN A \ {c} : Erase(A, c)[k] = A[k]
    BY EraseMap, Zenon
  <2>5. Kind(n, e) = "none" BY <1>2, <2>2, <2>3, Zenon DEF Kind
  <2>6. ASSUME NEW f, f # e PROVE SameView(m, n, f)
    <3>1. CASE f \in DOMAIN P \/ f \notin DOMAIN I
      BY <2>2, <2>3, <3>1, ZenonT(30) DEF Kind, At, SameView
    <3>2. CASE f \notin DOMAIN P /\ f \in DOMAIN I
      <4>1. I[f] \in DOMAIN A \ {c} BY <1>3, <1>6, <2>6, <3>2, Zenon
      <4>2. Erase(A, c)[I[f]] = m.active_by_conn_id[I[f]] BY <1>4, <2>4, <4>1, Zenon
      <4> QED BY <2>2, <2>3, <2>6, <3>2, <4>2, Zenon DEF Kind, At, SameView
    <3> QED BY <3>1, <3>2, Zenon
  <2> QED BY <1>s, <1>7, <2>2, <2>5, <2>6, Zenon DEF Becomes
<1>8. CASE ~is_terminal_state(s)
  <2>1. n = d BY <1>5, <1>8, Zenon
  <2>2. Kind(n, e) = "active" /\ At(n, e) = s BY <1>1, <1>2, <1>4, <2>1, ZenonT(30) DEF Kind, At
  <2>3. ASSUME NEW f, f # e PROVE SameView(m, n, f)
    <3>1. CASE f \in DOMAIN P \/ f \notin DOMAIN I
      BY <1>4, <2>1, <3>1, Zenon DEF Kind, At, SameView
    <3>2. CASE f \notin DOMAIN P /\ f \in DOMAIN I
      <4>1. A[I[f]] = m.active_by_conn_id[I[f]] BY <1>3, <1>4, <1>6, <2>3, <3>2, Zenon
      <4> QED BY <1>4, <2>1, <3>2, <4>1, Zenon DEF Kind, At, SameView
    <3> QED BY <3>1, <3>2, Zenon
  <2> QED BY <1>4, <1>8, <2>1, <2>2, <2>3, Zenon DEF Becomes
<1> QED BY <1>7, <1>8, Zenon

\* The session that a packet from e is given to, if any: e's own, or a fresh
\* one; never another endpoint's.
TakesPacket(m, e, p, id, s0) ==
  \/ Kind(m, e) = "active" /\ s0 = At(m, e) /\ p.conn_id = s0.conn_id
  \/ Kind(m, e) = "pending" /\ s0 = At(m, e)
  \/ /\ Kind(m, e) = "none" /\ p.conn_id = 0
     /\ \E i \in Seqs : s0 = [NewSession("Server", i) EXCEPT !.conn_id = id]

\* A packet from e that leaves n: nothing changes, or the session that takes it
\* becomes what on_datagram_received makes of it.
Receives(m, n, e, p, lingering, id) ==
  \/ n = m
  \/ \E s0 : /\ TakesPacket(m, e, p, id, s0)
             /\ Identity(s0, "Server", s0.conn_id)
             /\ Kind(m, e) = "none" => s0.conn_id \in FreeConnIds(m)
             /\ Becomes(m, n, e, on_datagram_received(s0, p, lingering))

LEMMA ReceiveView ==
  ASSUME NEW m, ManagerOK(m), NEW e, NEW p, NEW lingering, NEW id, NEW i \in Seqs,
         IsNewPeer(m, e, p) => id \in FreeConnIds(m)
  PROVE  LET n == manager_on_datagram_received(m, e, p, lingering, id, i)
         IN  /\ \A f : f # e => SameView(m, n, f)
             /\ Receives(m, n, e, p, lingering, id)
<1> DEFINE n == manager_on_datagram_received(m, e, p, lingering, id, i)
           fresh == [NewSession("Server", i) EXCEPT !.conn_id = id]
           added == [m EXCEPT !.pending_by_endpoint = Put(@, e, fresh)]
<1>1. CASE RoutesToActive(m, p) /\ is_active_endpoint_match(m, e, p.conn_id)
  <2>1. n = try_dispatch_active(m, e, p, lingering)
    BY <1>1, Zenon DEF manager_on_datagram_received
  <2>2. Kind(m, e) = "active" BY <1>1, ViewOf, Zenon DEF is_active_endpoint_match
  <2>3. p.conn_id = At(m, e).conn_id
    BY <1>1, <2>2, ViewActive, Zenon DEF is_active_endpoint_match
  <2> DEFINE s == on_datagram_received(At(m, e), p, lingering)
  <2>5. /\ \A f : f # e => SameView(m, n, f)
        /\ Becomes(m, n, e, s)
    BY <2>1, <2>2, <2>3, DispatchActiveView, Zenon
  <2>6. Identity(At(m, e), "Server", At(m, e).conn_id) BY <2>2, ViewSession, Zenon DEF SessionOf
  <2>7. TakesPacket(m, e, p, id, At(m, e)) BY <2>2, <2>3, Zenon DEF TakesPacket
  <2> QED BY <2>2, <2>5, <2>6, <2>7, Zenon DEF Receives
<1>2. CASE ~RoutesToActive(m, p) /\ e \in DOMAIN m.pending_by_endpoint
  <2>1. n = try_dispatch_pending(m, e, p, lingering)
    BY <1>2, Zenon DEF manager_on_datagram_received
  <2>2. Kind(m, e) = "pending" /\ At(m, e) = m.pending_by_endpoint[e] BY <1>2, ViewOf, Zenon
  <2> DEFINE s == on_datagram_received(At(m, e), p, lingering)
  <2>5. /\ \A f : f # e => SameView(m, n, f)
        /\ Becomes(m, n, e, s)
    BY <1>2, <2>1, <2>2, DispatchPendingView, Zenon
  <2>6. Identity(At(m, e), "Server", At(m, e).conn_id) BY <2>2, ViewSession, Zenon DEF SessionOf
  <2>7. TakesPacket(m, e, p, id, At(m, e)) BY <2>2, Zenon DEF TakesPacket
  <2> QED BY <2>2, <2>5, <2>6, <2>7, Zenon DEF Receives
<1>3. CASE IsNewPeer(m, e, p)
  <2>1. n = try_dispatch_pending(added, e, p, lingering)
    BY <1>3, Zenon DEF manager_on_datagram_received, IsNewPeer
  <2>2. /\ Kind(m, e) = "none" /\ p.conn_id = 0
        /\ e \notin DOMAIN m.pending_by_endpoint
        /\ e \notin DOMAIN m.active_conn_id_by_endpoint
    BY <1>3, Zenon DEF IsNewPeer, Kind
  <2>3. Identity(fresh, "Server", id)
    BY Zenon DEF NewSession, Identity, SessionFields
  <2>4. ManagerOK(added)
    BY <1>3, <2>2, <2>3, AddPending, Zenon DEF SessionOf
  <2>5. /\ DOMAIN added.pending_by_endpoint = DOMAIN m.pending_by_endpoint \cup {e}
        /\ added.pending_by_endpoint[e] = fresh
        /\ \A k \in DOMAIN m.pending_by_endpoint :
             added.pending_by_endpoint[k] = m.pending_by_endpoint[k]
        /\ added.active_by_conn_id = m.active_by_conn_id
        /\ added.active_conn_id_by_endpoint = m.active_conn_id_by_endpoint
        /\ added.retired_conn_ids = m.retired_conn_ids
    BY <2>2, Zenon DEF ManagerOK, ManagerFields, Put
  <2> HIDE DEF added, fresh
  <2>6. ASSUME NEW f, f # e PROVE SameView(m, added, f)
    BY <2>5, <2>6, Zenon DEF SameView, Kind, At
  <2> DEFINE s == on_datagram_received(fresh, p, lingering)
  <2>7. s.conn_id = id /\ fresh.conn_id = id
    BY <2>3, ReceiveKeeps DEF Identity
  <2>k. Kind(added, e) = "pending" BY <2>5, Zenon DEF Kind
  <2>b. (\A f : f # e => SameView(added, n, f)) /\ Becomes(added, n, e, s)
    BY <2>1, <2>4, <2>5, DispatchPendingView, Zenon
  <2>8. Becomes(m, n, e, s)
    BY <2>2, <2>5, <2>k, <2>b, Zenon DEF Becomes
  <2>9. ASSUME NEW f, f # e PROVE SameView(m, n, f)
    BY <2>6, <2>b, <2>9, Zenon DEF SameView
  <2>10. TakesPacket(m, e, p, id, fresh)
    BY <2>2, Zenon DEF TakesPacket, fresh
  <2> QED BY <1>3, <2>3, <2>7, <2>8, <2>9, <2>10, Zenon DEF Receives
<1>4. ASSUME NEW f PROVE SameView(m, m, f) BY Zenon DEF SameView
<1>5. CASE /\ ~(RoutesToActive(m, p) /\ is_active_endpoint_match(m, e, p.conn_id))
           /\ ~(~RoutesToActive(m, p) /\ e \in DOMAIN m.pending_by_endpoint)
           /\ ~IsNewPeer(m, e, p)
  BY <1>4, <1>5, Zenon DEF manager_on_datagram_received, Receives
<1> QED BY <1>1, <1>2, <1>3, <1>5, Zenon

\* poll_tx polls the session of every endpoint. One that is finished is
\* removed and its number retired; the others stay where they are.
PolledView(m, n, e, r) ==
  /\ m.retired_conn_ids \subseteq n.retired_conn_ids
  /\ Kind(m, e) = "none" => Kind(n, e) = "none"
  /\ Kind(m, e) # "none" /\ Finished(r) =>
       Kind(n, e) = "none" /\ At(m, e).conn_id \in n.retired_conn_ids
  /\ Kind(m, e) # "none" /\ ~Finished(r) =>
       Kind(n, e) = Kind(m, e) /\ At(n, e) = r.session

LEMMA PollView ==
  ASSUME NEW m, ManagerOK(m), NEW clock, NEW e
  PROVE  PolledView(m, manager_poll_tx(m, clock), e, poll_tx(At(m, e), clock[e]))
<1> DEFINE pending == PollPending(m, clock)
           active == PollActive(m, clock)
           J == m.active_conn_id_by_endpoint
           N == m.active_by_conn_id
           owner(c) == {f \in DOMAIN active : J[f] = c}
           gone == {f \in DOMAIN pending : Finished(pending[f])}
           over == {f \in DOMAIN active : Finished(active[f])}
           ids == {J[f] : f \in over}
           P == [f \in DOMAIN m.pending_by_endpoint \ gone |-> pending[f].session]
           A == [c \in DOMAIN N \ ids |-> IF owner(c) = {} THEN N[c]
                                          ELSE active[CHOOSE f \in owner(c) : TRUE].session]
           I == Restrict(J, DOMAIN J \ over)
           R == m.retired_conn_ids \cup (ids \ {0})
                  \cup ({m.pending_by_endpoint[f].conn_id : f \in gone} \ {0})
           n == manager_poll_tx(m, clock)
           r == poll_tx(At(m, e), clock[e])
<1>1. /\ n.pending_by_endpoint = P /\ n.active_by_conn_id = A
      /\ n.active_conn_id_by_endpoint = I /\ n.retired_conn_ids = R
  BY Zenon DEF ManagerOK, ManagerFields, manager_poll_tx
<1>2. /\ DOMAIN P = DOMAIN m.pending_by_endpoint \ gone
      /\ DOMAIN I = DOMAIN J \ over /\ \A f \in DOMAIN I : I[f] = J[f]
  BY Zenon DEF Restrict
<1> SUFFICES PolledView(m, n, e, r) BY Zenon
<1> HIDE DEF n, r
<1>r. m.retired_conn_ids \subseteq n.retired_conn_ids BY <1>1, Zenon
<1>3. CASE Kind(m, e) = "none"
  <2>1. e \notin DOMAIN m.pending_by_endpoint /\ e \notin DOMAIN J BY <1>3, ViewOf, Zenon
  <2>2. Kind(n, e) = "none" BY <1>1, <1>2, <2>1, ZenonT(30) DEF Kind
  <2> QED BY <1>r, <1>3, <2>2, Zenon DEF PolledView
<1>4. CASE Kind(m, e) = "pending"
  <2>1. /\ e \in DOMAIN m.pending_by_endpoint /\ e \notin DOMAIN J
        /\ At(m, e) = m.pending_by_endpoint[e]
    BY <1>4, ViewOf, Zenon
  <2>2. pending[e] = r /\ e \in DOMAIN pending BY <2>1, Zenon DEF PollPending, r
  <2>3. At(m, e).conn_id # 0 BY <1>4, ViewSession, Zenon
  <2>4. CASE Finished(r)
    <3>1. e \in gone /\ e \notin DOMAIN P BY <2>2, <2>4, Zenon
    <3>2. Kind(n, e) = "none" BY <1>1, <1>2, <2>1, <3>1, ZenonT(30) DEF Kind
    <3>3. At(m, e).conn_id \in R BY <2>1, <2>3, <3>1, Zenon
    <3> QED BY <1>1, <1>r, <1>4, <2>4, <3>2, <3>3, Zenon DEF PolledView
  <2>5. CASE ~Finished(r)
    <3>1. e \in DOMAIN P /\ P[e] = r.session BY <2>1, <2>2, <2>5, ZenonT(30)
    <3>2. Kind(n, e) = "pending" /\ At(n, e) = r.session
      BY <1>1, <3>1, Zenon DEF Kind, At
    <3> QED BY <1>r, <1>4, <2>5, <3>2, Zenon DEF PolledView
  <2> QED BY <2>4, <2>5, Zenon
<1>5. CASE Kind(m, e) = "active"
  <2> DEFINE c == At(m, e).conn_id
  <2>1. /\ e \in DOMAIN J /\ J[e] = c /\ c \in DOMAIN N /\ N[c] = At(m, e)
        /\ e \notin DOMAIN m.pending_by_endpoint
    BY <1>5, ViewActive, ViewOf, Zenon
  <2>2. active[e] = r /\ e \in DOMAIN active BY <2>1, Zenon DEF PollActive, r
  <2>3. c # 0 BY <1>5, ViewSession, Zenon
  <2>4. DOMAIN active \subseteq DOMAIN J BY Zenon DEF PollActive
  <2>5. owner(c) = {e} BY <2>1, <2>2, <2>4 DEF ManagerOK, MapsAgree
  <2>6. CASE Finished(r)
    <3>1. e \in over /\ e \notin DOMAIN I BY <1>2, <2>2, <2>6, Zenon
    <3>2. Kind(n, e) = "none" BY <1>1, <1>2, <2>1, <3>1, ZenonT(30) DEF Kind
    <3>3. c \in R BY <2>1, <2>3, <3>1, Zenon
    <3> QED BY <1>1, <1>r, <1>5, <2>6, <3>2, <3>3, Zenon DEF PolledView
  <2>7. CASE ~Finished(r)
    <3>1. e \notin over BY <2>2, <2>7, Zenon
    <3>2. e \in DOMAIN I /\ I[e] = c BY <1>2, <2>1, <3>1, Zenon
    <3>3. c \notin ids
      <4>1. SUFFICES ASSUME NEW f \in over, J[f] = c PROVE FALSE BY Zenon
      <4>2. f \in owner(c) BY <4>1, Zenon
      <4> QED BY <2>5, <3>1, <4>1, <4>2, Zenon
    <3>4. A[c] = r.session
      <4>1. owner(c) # {} /\ (CHOOSE f \in owner(c) : TRUE) = e BY <2>5, Zenon
      <4>2. A[c] = active[CHOOSE f \in owner(c) : TRUE].session
        BY <2>1, <3>3, <4>1, Zenon
      <4> QED BY <2>2, <4>1, <4>2, Zenon
    <3>5. e \notin DOMAIN P BY <1>2, <2>1, Zenon
    <3>6. Kind(n, e) = "active" /\ At(n, e) = r.session
      BY <1>1, <3>2, <3>4, <3>5, ZenonT(30) DEF Kind, At
    <3> QED BY <1>r, <1>5, <2>7, <3>6, Zenon DEF PolledView
  <2> QED BY <2>6, <2>7, Zenon
<1> QED BY <1>3, <1>4, <1>5, ViewOf, Zenon

\* drain_events empties the event queue of every session, and queue_send
\* changes at most the send state of one.
LEMMA DrainView ==
  ASSUME NEW m, ManagerOK(m), NEW e
  PROVE  LET n == manager_drain_events(m)
         IN  /\ Kind(n, e) = Kind(m, e)
             /\ Kind(m, e) # "none" =>
                  At(n, e) = [At(m, e) EXCEPT !.rx = drain_events(@)]
             /\ n.retired_conn_ids = m.retired_conn_ids
<1> DEFINE n == manager_drain_events(m)
<1>1. /\ n.pending_by_endpoint = DrainAll(m.pending_by_endpoint)
      /\ n.active_by_conn_id = DrainAll(m.active_by_conn_id)
      /\ n.active_conn_id_by_endpoint = m.active_conn_id_by_endpoint
      /\ n.retired_conn_ids = m.retired_conn_ids
  BY Zenon DEF manager_drain_events, ManagerOK, ManagerFields
<1>2. Kind(m, e) = "active" =>
        m.active_conn_id_by_endpoint[e] \in DOMAIN m.active_by_conn_id
  BY ViewActive, Zenon
<1>3. Kind(n, e) = Kind(m, e) BY <1>1, Zenon DEF Kind, DrainAll
<1>4. CASE Kind(m, e) = "pending"
  <2>1. e \in DOMAIN m.pending_by_endpoint BY <1>4, ViewOf, Zenon
  <2> QED BY <1>1, <1>3, <1>4, <2>1, Zenon DEF At, DrainAll
<1>5. CASE Kind(m, e) = "active"
  <2>1. e \notin DOMAIN m.pending_by_endpoint BY <1>5, ViewOf, Zenon
  <2> QED BY <1>1, <1>2, <1>3, <1>5, <2>1 DEF At, DrainAll
<1> QED BY <1>1, <1>3, <1>4, <1>5, ViewOf, Zenon

LEMMA QueueView ==
  ASSUME NEW m, ManagerOK(m), NEW c, NEW request, NEW e
  PROVE  LET n == manager_queue_send(m, c, request)
         IN  /\ Kind(n, e) = Kind(m, e)
             /\ Kind(m, e) # "none" =>
                  \/ At(n, e) = At(m, e)
                  \/ Kind(m, e) = "active" /\ At(n, e) = queue_send(At(m, e), request)
             /\ n.retired_conn_ids = m.retired_conn_ids
<1> DEFINE n == manager_queue_send(m, c, request)
<1>1. CASE c \notin DOMAIN m.active_by_conn_id
  BY <1>1, Zenon DEF manager_queue_send
<1>2. CASE c \in DOMAIN m.active_by_conn_id
  <2> DEFINE A == [m.active_by_conn_id EXCEPT ![c] = queue_send(@, request)]
  <2>1. /\ n.pending_by_endpoint = m.pending_by_endpoint
        /\ n.active_by_conn_id = A
        /\ n.active_conn_id_by_endpoint = m.active_conn_id_by_endpoint
        /\ n.retired_conn_ids = m.retired_conn_ids
    BY <1>2, Zenon DEF manager_queue_send, ManagerOK, ManagerFields
  <2>2. Kind(m, e) = "active" =>
          m.active_conn_id_by_endpoint[e] \in DOMAIN m.active_by_conn_id
    BY ViewActive, Zenon
  <2> QED BY <1>2, <2>1, <2>2, Zenon DEF Kind, At
<1> QED BY <1>1, <1>2, Zenon

\* The events that drain_events returns for e are those of its session.
LEMMA EventsView ==
  ASSUME NEW m, ManagerOK(m), NEW e, NEW S,
         Kind(m, e) # "none" => At(m, e).rx.pending_events \in Seq(S)
  PROVE  EventsOf(m, e) = IF Kind(m, e) = "none" THEN << >>
                          ELSE At(m, e).rx.pending_events
<1>1. << >> \in Seq(S) OBVIOUS
<1>2. ASSUME NEW q \in Seq(S) PROVE q \o << >> = q /\ << >> \o q = q
  OBVIOUS
<1>3. CASE Kind(m, e) = "none"
  <2>1. e \notin DOMAIN m.pending_by_endpoint /\ e \notin DOMAIN m.active_conn_id_by_endpoint
    BY <1>3, ViewOf, Zenon
  <2> QED BY <1>1, <1>2, <1>3, <2>1, Zenon DEF EventsOf, PendingEventsOf
<1>4. CASE Kind(m, e) = "pending"
  <2>1. /\ e \in DOMAIN m.pending_by_endpoint /\ e \notin DOMAIN m.active_conn_id_by_endpoint
        /\ At(m, e) = m.pending_by_endpoint[e]
    BY <1>4, ViewOf, Zenon
  <2> QED BY <1>2, <1>4, <2>1, Zenon DEF EventsOf, PendingEventsOf
<1>5. CASE Kind(m, e) = "active"
  <2>1. /\ e \notin DOMAIN m.pending_by_endpoint /\ e \in DOMAIN m.active_conn_id_by_endpoint
        /\ m.active_conn_id_by_endpoint[e] = At(m, e).conn_id
        /\ At(m, e).conn_id \in DOMAIN m.active_by_conn_id
        /\ m.active_by_conn_id[At(m, e).conn_id] = At(m, e)
    BY <1>5, ViewOf, ViewActive, Zenon
  <2> QED BY <1>2, <1>5, <2>1, Zenon DEF EventsOf, PendingEventsOf, ActiveEventsOf
<1> QED BY <1>3, <1>4, <1>5, ViewOf, Zenon

-----------------------------------------------------------------------------
\* What the manager's sessions keep between two calls, next to ManagerOK: a
\* session is well formed, and one that has ended is gone.
Served(m, e) ==
  Kind(m, e) # "none" => /\ e \in Endpoint
                         /\ OK(At(m, e))
                         /\ ~is_terminal_state(At(m, e))

\* An Established session is not a pending one.
Placed(m, e) == Kind(m, e) = "pending" => At(m, e).connection_state # "Established"

\* c is the number of e's session.
Names(m, c, e) == Kind(m, e) # "none" /\ At(m, e).conn_id = c

\* The tables are right about the manager: text goes to a listed session, and
\* every listed number is retired or that of the endpoint it is listed with.
\* NeverMisdirected says this of live numbers only, which a number drawn for a
\* new session could break: it may be drawn if and only if it is not retired.
Known(tables, m) ==
  /\ tables.preferred \subseteq DOMAIN tables.endpoints
  /\ \A c \in DOMAIN tables.endpoints :
       c \in m.retired_conn_ids \/ Names(m, c, tables.endpoints[c])

\* A step from m to n leaves a live number with the endpoint it belongs to, or
\* retires it; a retired one stays retired.
NumbersKept(m, n) ==
  /\ m.retired_conn_ids \subseteq n.retired_conn_ids
  /\ \A c, f : Names(m, c, f) => c \in n.retired_conn_ids \/ Names(n, c, f)

LEMMA KnownKept ==
  ASSUME NEW m, NEW n, NumbersKept(m, n), NEW tables, Known(tables, m)
  PROVE  Known(tables, n)
BY Zenon DEF NumbersKept, Known

LEMMA KeptTwice ==
  ASSUME NEW l, NEW m, NEW n, NumbersKept(l, m), NumbersKept(m, n)
  PROVE  NumbersKept(l, n)
BY Zenon DEF NumbersKept

\* The session that takes a packet is well formed, the fresh one included.
LEMMA TakenOK ==
  ASSUME NEW m, \A f : Served(m, f), NEW e, NEW p, NEW id, NEW s0,
         TakesPacket(m, e, p, id, s0),
         Kind(m, e) = "none" => s0.conn_id \in FreeConnIds(m)
  PROVE  OK(s0)
<1>1. CASE Kind(m, e) # "none"
  BY <1>1, Zenon DEF TakesPacket, Served
<1>2. CASE Kind(m, e) = "none"
  <2>1. PICK j \in Seqs : s0 = [NewSession("Server", j) EXCEPT !.conn_id = id]
    BY <1>2, Zenon DEF TakesPacket
  <2>2. OK(NewSession("Server", j)) BY NewSessionOK, Zenon DEF SessionRole
  <2>3. s0.conn_id \in ConnId BY <1>2, Zenon DEF FreeConnIds
  <2>4. s0.conn_id = id BY <2>1, <2>2, Zenon DEF OK, SessionState
  <2> HIDE DEF NewSession
  <2> QED BY <2>1, <2>2, <2>3, <2>4, Zenon DEF OK, SessionState
<1> QED BY <1>1, <1>2, Zenon

\* A datagram: the session it is given to stays well formed, or is removed in
\* the call that ends it; nobody else's session is touched.
LEMMA ReceiveServed ==
  ASSUME NEW m, ManagerOK(m), \A f : Served(m, f), NEW e \in Endpoint, NEW p \in Packet,
         NEW lingering \in BOOLEAN, NEW i \in Seqs,
         NEW id \in IF IsNewPeer(m, e, p) THEN FreeConnIds(m) ELSE {0}
  PROVE  LET n == manager_on_datagram_received(m, e, p, lingering, id, i)
         IN  /\ \A f : Served(n, f)
             /\ NumbersKept(m, n)
<1> DEFINE n == manager_on_datagram_received(m, e, p, lingering, id, i)
<1>1. ASSUME NEW f, f # e PROVE SameView(m, n, f) BY <1>1, ReceiveView, Zenon
<1>2. Receives(m, n, e, p, lingering, id) BY ReceiveView, Zenon
<1> HIDE DEF n
<1>3. ASSUME NEW f, f # e PROVE Served(n, f) BY <1>1, <1>3, Zenon DEF Served, SameView
<1>4. CASE n = m BY <1>4, Zenon DEF n, NumbersKept
<1>5. CASE n # m
  <2>1. PICK s0 : /\ TakesPacket(m, e, p, id, s0)
                  /\ Identity(s0, "Server", s0.conn_id)
                  /\ Kind(m, e) = "none" => s0.conn_id \in FreeConnIds(m)
                  /\ Becomes(m, n, e, on_datagram_received(s0, p, lingering))
    BY <1>2, <1>5, Zenon DEF Receives
  <2> DEFINE s == on_datagram_received(s0, p, lingering)
  <2>2. OK(s0) BY <2>1, TakenOK, Zenon
  <2>3. OK(s) BY <2>2, OnDatagramOK, Zenon
  <2>4. s.conn_id = s0.conn_id BY <2>1, ReceiveKeeps DEF Identity
  <2> HIDE DEF s
  <2>5. Becomes(m, n, e, s) BY <2>1, Zenon DEF s
  <2>6. Served(n, e) BY <2>3, <2>5, Zenon DEF Served, Becomes
  <2>7. m.retired_conn_ids \subseteq n.retired_conn_ids BY <2>5, Zenon DEF Becomes
  <2>8. ASSUME NEW c, NEW f, Names(m, c, f) PROVE c \in n.retired_conn_ids \/ Names(n, c, f)
    <3>1. CASE f # e BY <1>1, <2>8, <3>1, Zenon DEF Names, SameView
    <3>2. CASE f = e
      <4>1. s0 = At(m, e) BY <2>1, <2>8, <3>2, Zenon DEF TakesPacket, Names
      <4> QED BY <2>4, <2>5, <2>8, <3>2, <4>1, Zenon DEF Names, Becomes
    <3> QED BY <3>1, <3>2, Zenon
  <2>9. NumbersKept(m, n) BY <2>7, <2>8, Zenon DEF NumbersKept
  <2> QED BY <1>3, <2>6, <2>9, Zenon DEF n
<1> QED BY <1>4, <1>5, Zenon

\* A poll: a session that it resets has nothing to send, and is removed.
LEMMA PollServed ==
  ASSUME NEW m, ManagerOK(m), \A f : Served(m, f), NEW clock
  PROVE  LET n == manager_poll_tx(m, clock)
         IN  /\ \A f : Served(n, f)
             /\ NumbersKept(m, n)
<1> DEFINE n == manager_poll_tx(m, clock)
<1>1. m.retired_conn_ids \subseteq n.retired_conn_ids BY PollView, Zenon DEF PolledView
<1>2. ASSUME NEW f
      PROVE  /\ Served(n, f)
             /\ \A c : Names(m, c, f) => c \in n.retired_conn_ids \/ Names(n, c, f)
  <2> DEFINE s == At(m, f)
             r == poll_tx(s, clock[f])
  <2>1. PolledView(m, n, f, r) BY PollView, Zenon
  <2> HIDE DEF n
  <2>2. CASE Kind(m, f) = "none" \/ Finished(r)
    BY <2>1, <2>2, Zenon DEF PolledView, Served, Names
  <2>3. CASE Kind(m, f) # "none" /\ ~Finished(r)
    <3>1. /\ Identity(s, "Server", s.conn_id) /\ OK(s) /\ ~is_terminal_state(s)
          /\ f \in Endpoint
      BY <2>3, ViewSession, Zenon DEF SessionOf, Served
    <3>2. OK(r.session) BY <3>1, PollTxOK, Zenon
    <3>3. r.session.conn_id = s.conn_id BY <3>1, PollKeeps DEF Identity
    <3>4. \/ r.session.connection_state = "Reset" /\ r.out = {}
          \/ r.session.connection_state = PollMove(s)
      BY <3>1, PollStep, Zenon
    <3>5. PollMove(s) = s.connection_state BY <3>1, Zenon DEF PollMove, Identity
    <3> HIDE DEF r
    <3>6. ~is_terminal_state(r.session)
      BY <2>3, <3>1, <3>4, <3>5, Zenon DEF Finished, is_terminal_state
    <3> QED BY <2>1, <2>3, <3>1, <3>2, <3>3, <3>6, Zenon DEF PolledView, Served, Names
  <2> QED BY <2>2, <2>3, Zenon
<1> HIDE DEF n
<1>3. NumbersKept(m, n) BY <1>1, <1>2, Zenon DEF NumbersKept
<1> QED BY <1>2, <1>3, Zenon DEF n

\* Draining and queueing leave numbers and connection states alone.
LEMMA DrainServed ==
  ASSUME NEW m, ManagerOK(m), \A f : Served(m, f)
  PROVE  LET n == manager_drain_events(m)
         IN  /\ \A f : Served(n, f)
             /\ NumbersKept(m, n)
<1> DEFINE n == manager_drain_events(m)
<1>1. n.retired_conn_ids = m.retired_conn_ids BY DrainView, Zenon
<1>2. ASSUME NEW f
      PROVE  Served(n, f) /\ \A c : Names(m, c, f) => Names(n, c, f)
  <2> DEFINE s == At(m, f)
             t == [s EXCEPT !.rx = drain_events(@)]
  <2>1. Kind(n, f) = Kind(m, f) /\ (Kind(m, f) # "none" => At(n, f) = t) BY DrainView, Zenon
  <2>2. CASE Kind(m, f) = "none" BY <2>1, <2>2, Zenon DEF Served, Names
  <2>3. CASE Kind(m, f) # "none"
    <3>1. OK(s) /\ ~is_terminal_state(s) /\ f \in Endpoint BY <2>3, Zenon DEF Served
    <3>2. drain_events(s.rx) \in RxSessionState
      <4>1. << >> \in Seq(SessionEvent) OBVIOUS
      <4> QED BY <3>1, <4>1, Zenon DEF drain_events, OK, SessionState, RxSessionState
    <3> DEFINE rx == drain_events(s.rx)
    <3> HIDE DEF rx
    <3>3. t = [s EXCEPT !.rx = rx] BY Zenon DEF rx
    <3> HIDE DEF t
    <3>4. OK(t) /\ t.connection_state = s.connection_state /\ t.conn_id = s.conn_id
      BY <3>1, <3>2, <3>3, Zenon DEF OK, SessionState, rx
    <3> QED BY <2>1, <2>3, <3>1, <3>4, Zenon DEF Served, Names, is_terminal_state
  <2> QED BY <2>2, <2>3, Zenon
<1> HIDE DEF n
<1>3. NumbersKept(m, n) BY <1>1, <1>2, Zenon DEF NumbersKept
<1> QED BY <1>2, <1>3, Zenon DEF n

LEMMA QueueServed ==
  ASSUME NEW m, ManagerOK(m), \A f : Served(m, f), NEW c, NEW request \in SendRequest
  PROVE  LET n == manager_queue_send(m, c, request)
         IN  /\ \A f : Served(n, f)
             /\ NumbersKept(m, n)
<1> DEFINE n == manager_queue_send(m, c, request)
<1>1. n.retired_conn_ids = m.retired_conn_ids BY QueueView, Zenon
<1>2. ASSUME NEW f
      PROVE  Served(n, f) /\ \A k : Names(m, k, f) => Names(n, k, f)
  <2> DEFINE s == At(m, f)
             t == queue_send(s, request)
  <2>1. /\ Kind(n, f) = Kind(m, f)
        /\ Kind(m, f) # "none" => At(n, f) = s \/ At(n, f) = t
    BY QueueView
  <2>2. CASE Kind(m, f) = "none" BY <2>1, <2>2, Zenon DEF Served, Names
  <2>3. CASE Kind(m, f) # "none"
    <3>1. OK(s) /\ ~is_terminal_state(s) /\ f \in Endpoint BY <2>3, Zenon DEF Served
    <3>2. OK(t) BY <3>1, QueueSendOK, Zenon
    <3>3. t.connection_state = s.connection_state /\ t.conn_id = s.conn_id
      BY <3>1, Zenon DEF queue_send, OK, SessionState
    <3> HIDE DEF t
    <3> QED BY <2>1, <2>3, <3>1, <3>2, <3>3, Zenon DEF Served, Names, is_terminal_state
  <2> QED BY <2>2, <2>3, Zenon
<1> HIDE DEF n
<1>3. NumbersKept(m, n) BY <1>1, <1>2, Zenon DEF NumbersKept
<1> QED BY <1>2, <1>3, Zenon DEF n
==============================================================================
