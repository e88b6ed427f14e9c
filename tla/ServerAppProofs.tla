--------------------------- MODULE ServerAppProofs ---------------------------
(***************************************************************************)
(* The server program, for any endpoints, connection numbers, windows and  *)
(* inbound packets: the manager's four maps agree, ended sessions are gone *)
(* and the application's own tables name the right sessions.               *)
(***************************************************************************)
EXTENDS ServerApp, ManagerProofs, FiniteSetTheorems

-----------------------------------------------------------------------------
\* The loops of drain_server_events

\* A loop is a run of its body: there is a function of the number of rounds
\* that starts with the given tables and does one round at a time.
LEMMA EventsLoop ==
  ASSUME NEW tables, NEW events, Len(events) \in Nat
  PROVE  \E g : /\ g[0] = tables
                /\ \A k \in 1 .. Len(events) : g[k] = TakeEvent(g[k - 1], events[k])
                /\ TakeEvents(tables, events) = g[Len(events)]
<1> DEFINE N == Len(events)
           Fits(n, g) == /\ g[0] = tables
                         /\ \A k \in 1 .. n : g[k] = TakeEvent(g[k - 1], events[k])
           Body(g) == [k \in 0 .. N |->
                         IF k = 0 THEN tables ELSE TakeEvent(g[k - 1], events[k])]
           after == CHOOSE g : g = Body(g)
<1> HIDE DEF N
<1>1. N \in Nat BY Zenon DEF N
<1>2. \A n \in 0 .. N : \E g : Fits(n, g)
  <2> DEFINE S == {n \in 0 .. N : \E g : Fits(n, g)}
  <2>1. 0 \in S
    <3> DEFINE g == [k \in {0} |-> tables]
    <3>1. Fits(0, g) BY <1>1
    <3>2. 0 \in 0 .. N BY <1>1
    <3> QED BY <3>1, <3>2, Zenon
  <2>2. ASSUME NEW n \in 1 .. N, n - 1 \in S PROVE n \in S
    <3>1. PICK g : Fits(n - 1, g) BY <2>2, Zenon
    <3> DEFINE last == TakeEvent(g[n - 1], events[n])
               h == [k \in 0 .. n |-> IF k = n THEN last ELSE g[k]]
    <3>2. n \in Nat /\ n \in 0 .. N /\ n # 0 BY <1>1
    <3>3. h[0] = tables BY <3>1, <3>2
    <3>4. ASSUME NEW k \in 1 .. n PROVE h[k] = TakeEvent(h[k - 1], events[k])
      <4>1. k - 1 \in 0 .. n /\ k - 1 # n /\ k \in 0 .. n BY <3>2
      <4>2. h[k - 1] = g[k - 1] BY <4>1, Zenon
      <4>3. CASE k = n BY <4>1, <4>2, <4>3, Zenon
      <4>4. CASE k # n
        <5>1. k \in 1 .. n - 1 BY <3>2, <4>4
        <5> QED BY <3>1, <4>1, <4>2, <4>4, <5>1, Zenon
      <4> QED BY <4>3, <4>4, Zenon
    <3> QED BY <3>2, <3>3, <3>4, Zenon
  <2> HIDE DEF S
  <2>3. \A n \in 0 .. N : n \in S BY <1>1, <2>1, <2>2, Rounds, Zenon
  <2> QED BY <2>3, Zenon DEF S
<1>n. N \in 0 .. N BY <1>1
<1>3. PICK g : Fits(N, g) BY <1>2, <1>n, Zenon
<1> DEFINE h == [k \in 0 .. N |-> g[k]]
<1>4. h = Body(h)
  <2>1. ASSUME NEW k \in 0 .. N PROVE h[k] = Body(h)[k]
    <3>1. CASE k = 0 BY <1>3, <3>1, Zenon
    <3>2. CASE k # 0
      <4>1. k \in 1 .. N /\ k - 1 \in 0 .. N BY <1>1, <3>2
      <4>2. h[k] = g[k] /\ h[k - 1] = g[k - 1] /\ g[k] = TakeEvent(g[k - 1], events[k])
        BY <1>3, <4>1, Zenon
      <4> QED BY <3>2, <4>2, Zenon
    <3> QED BY <3>1, <3>2, Zenon
  <2> HIDE DEF Fits
  <2> QED BY <2>1, Zenon
<1>5. after = Body(after) BY <1>4, Zenon
<1>6. TakeEvents(tables, events) = after[N] BY Zenon DEF TakeEvents, N
<1> HIDE DEF after
<1>7. after[0] = tables BY <1>1, <1>5
<1>8. ASSUME NEW k \in 1 .. N PROVE after[k] = TakeEvent(after[k - 1], events[k])
  BY <1>1, <1>5
<1> QED BY <1>6, <1>7, <1>8, Zenon DEF N

LEMMA SessionsLoop ==
  ASSUME NEW tables, NEW m, NEW order, Len(order) \in Nat
  PROVE  \E g : /\ g[0] = tables
                /\ \A k \in 1 .. Len(order) :
                     g[k] = TakeEvents(g[k - 1], Wrapped(m, order[k]))
                /\ TakeSessions(tables, m, order) = g[Len(order)]
<1> DEFINE N == Len(order)
           Fits(n, g) == /\ g[0] = tables
                         /\ \A k \in 1 .. n :
                              g[k] = TakeEvents(g[k - 1], Wrapped(m, order[k]))
           Body(g) == [k \in 0 .. N |->
                         IF k = 0 THEN tables ELSE TakeEvents(g[k - 1], Wrapped(m, order[k]))]
           after == CHOOSE g : g = Body(g)
<1> HIDE DEF N
<1>1. N \in Nat BY Zenon DEF N
<1>2. \A n \in 0 .. N : \E g : Fits(n, g)
  <2> DEFINE S == {n \in 0 .. N : \E g : Fits(n, g)}
  <2>1. 0 \in S
    <3> DEFINE g == [k \in {0} |-> tables]
    <3>1. Fits(0, g) BY <1>1
    <3>2. 0 \in 0 .. N BY <1>1
    <3> QED BY <3>1, <3>2, Zenon
  <2>2. ASSUME NEW n \in 1 .. N, n - 1 \in S PROVE n \in S
    <3>1. PICK g : Fits(n - 1, g) BY <2>2, Zenon
    <3> DEFINE last == TakeEvents(g[n - 1], Wrapped(m, order[n]))
               h == [k \in 0 .. n |-> IF k = n THEN last ELSE g[k]]
    <3>2. n \in Nat /\ n \in 0 .. N /\ n # 0 BY <1>1
    <3>3. h[0] = tables BY <3>1, <3>2
    <3>4. ASSUME NEW k \in 1 .. n PROVE h[k] = TakeEvents(h[k - 1], Wrapped(m, order[k]))
      <4>1. k - 1 \in 0 .. n /\ k - 1 # n /\ k \in 0 .. n BY <3>2
      <4>2. h[k - 1] = g[k - 1] BY <4>1, Zenon
      <4>3. CASE k = n BY <4>1, <4>2, <4>3, Zenon
      <4>4. CASE k # n
        <5>1. k \in 1 .. n - 1 BY <3>2, <4>4
        <5> QED BY <3>1, <4>1, <4>2, <4>4, <5>1, Zenon
      <4> QED BY <4>3, <4>4, Zenon
    <3> QED BY <3>2, <3>3, <3>4, Zenon
  <2> HIDE DEF S
  <2>3. \A n \in 0 .. N : n \in S BY <1>1, <2>1, <2>2, Rounds, Zenon
  <2> QED BY <2>3, Zenon DEF S
<1>n. N \in 0 .. N BY <1>1
<1>3. PICK g : Fits(N, g) BY <1>2, <1>n, Zenon
<1> DEFINE h == [k \in 0 .. N |-> g[k]]
<1>4. h = Body(h)
  <2>1. ASSUME NEW k \in 0 .. N PROVE h[k] = Body(h)[k]
    <3>1. CASE k = 0 BY <1>3, <3>1, Zenon
    <3>2. CASE k # 0
      <4>1. k \in 1 .. N /\ k - 1 \in 0 .. N BY <1>1, <3>2
      <4>2. /\ h[k] = g[k] /\ h[k - 1] = g[k - 1]
            /\ g[k] = TakeEvents(g[k - 1], Wrapped(m, order[k]))
        BY <1>3, <4>1, Zenon
      <4> QED BY <3>2, <4>2, Zenon
    <3> QED BY <3>1, <3>2, Zenon
  <2> HIDE DEF Fits
  <2> QED BY <2>1, Zenon
<1>5. after = Body(after) BY <1>4, Zenon
<1>6. TakeSessions(tables, m, order) = after[N] BY Zenon DEF TakeSessions, N
<1> HIDE DEF after
<1>7. after[0] = tables BY <1>1, <1>5
<1>8. ASSUME NEW k \in 1 .. N
      PROVE  after[k] = TakeEvents(after[k - 1], Wrapped(m, order[k]))
  BY <1>1, <1>5
<1> QED BY <1>6, <1>7, <1>8, Zenon DEF N

-----------------------------------------------------------------------------
LEMMA TakeEventKnown ==
  ASSUME NEW m, NEW tables, Known(tables, m), NEW event,
         Names(m, event.conn_id, event.endpoint)
  PROVE  Known(TakeEvent(tables, event), m)
<1> DEFINE c == event.conn_id
           after == TakeEvent(tables, event)
<1>1. CASE c = 0 BY <1>1, Zenon DEF TakeEvent
<1>2. CASE c # 0 /\ EndsSession(event.type)
  <2>1. /\ after.preferred = {} /\ after.endpoints = Erase(tables.endpoints, c)
    BY <1>2, Zenon DEF TakeEvent
  <2>2. /\ DOMAIN Erase(tables.endpoints, c) = DOMAIN tables.endpoints \ {c}
        /\ \A k \in DOMAIN tables.endpoints \ {c} :
             Erase(tables.endpoints, c)[k] = tables.endpoints[k]
    BY EraseMap, Zenon
  <2> HIDE DEF after
  <2>3. Known(after, m) BY <2>1, <2>2, Zenon DEF Known
  <2> QED BY <2>3, Zenon DEF after
<1>3. CASE c # 0 /\ ~EndsSession(event.type)
  <2> DEFINE put == Put(tables.endpoints, c, event.endpoint)
  <2>1. after.preferred = {c} /\ after.endpoints = put BY <1>3, Zenon DEF TakeEvent
  <2>2. /\ DOMAIN put = DOMAIN tables.endpoints \cup {c} /\ put[c] = event.endpoint
        /\ \A k \in DOMAIN tables.endpoints : k # c => put[k] = tables.endpoints[k]
    BY Zenon DEF Put
  <2> HIDE DEF after, put
  <2>3. Known(after, m) BY <2>1, <2>2, Zenon DEF Known
  <2> QED BY <2>3, Zenon DEF after
<1> QED BY <1>1, <1>2, <1>3, Zenon

LEMMA TakeEventsKnown ==
  ASSUME NEW m, NEW tables, Known(tables, m), NEW events, Len(events) \in Nat,
         \A k \in 1 .. Len(events) : Names(m, events[k].conn_id, events[k].endpoint)
  PROVE  Known(TakeEvents(tables, events), m)
<1> DEFINE N == Len(events)
<1>1. PICK g : /\ g[0] = tables
               /\ \A k \in 1 .. N : g[k] = TakeEvent(g[k - 1], events[k])
               /\ TakeEvents(tables, events) = g[N]
  BY EventsLoop
<1> DEFINE S == {k \in 0 .. N : Known(g[k], m)}
<1>2. 0 \in S BY <1>1
<1>3. ASSUME NEW k \in 1 .. N, k - 1 \in S PROVE k \in S
  <2>1. Known(g[k - 1], m) /\ g[k] = TakeEvent(g[k - 1], events[k]) BY <1>1, <1>3, Zenon
  <2>2. Known(g[k], m) BY <2>1, TakeEventKnown, Zenon
  <2> QED BY <2>2
<1> HIDE DEF S
<1>4. \A k \in 0 .. N : k \in S BY <1>2, <1>3, Rounds, Zenon
<1>5. N \in S BY <1>4
<1> QED BY <1>1, <1>5, Zenon DEF S

\* The events of a session carry its number and its endpoint.
Wraps(wrapped, s, e) ==
  LET events == s.rx.pending_events
  IN  /\ Len(wrapped) = Len(events) /\ Len(events) \in Nat
      /\ DOMAIN events = 1 .. Len(events)
      /\ \A k \in 1 .. Len(events) : /\ wrapped[k].conn_id = s.conn_id
                                     /\ wrapped[k].endpoint = e
                                     /\ wrapped[k].type = events[k].type

LEMMA WrappedFacts ==
  ASSUME NEW m, ManagerOK(m), NEW e, Kind(m, e) # "none", OK(At(m, e))
  PROVE  Wraps(Wrapped(m, e), At(m, e), e)
<1> DEFINE s == At(m, e)
           events == s.rx.pending_events
           wrapped == Wrapped(m, e)
<1>1. events \in Seq(SessionEvent) BY Zenon DEF OK, SessionState, RxSessionState
<1>2. EventsOf(m, e) = events BY <1>1, EventsView, Zenon
<1>3. s.conn_id = IF e \in DOMAIN m.pending_by_endpoint
                  THEN m.pending_by_endpoint[e].conn_id
                  ELSE m.active_conn_id_by_endpoint[e]
  BY ViewOf, ViewActive, Zenon
<1>4. wrapped = [i \in DOMAIN events |->
                   [endpoint |-> e, conn_id |-> s.conn_id, type |-> events[i].type]]
  BY <1>2, <1>3, Zenon DEF Wrapped
<1> HIDE DEF wrapped, s
<1>5. DOMAIN events = 1 .. Len(events) /\ Len(events) \in Nat BY <1>1
<1> HIDE DEF events
<1>6. Len(wrapped) = Len(events) BY <1>4, <1>5
<1>7. ASSUME NEW k \in 1 .. Len(events)
      PROVE  /\ wrapped[k].conn_id = s.conn_id /\ wrapped[k].endpoint = e
             /\ wrapped[k].type = events[k].type
  BY <1>4, <1>5, Zenon
<1>8. Wraps(wrapped, s, e) BY <1>5, <1>6, <1>7, Zenon DEF Wraps, events
<1> QED BY <1>8, Zenon DEF wrapped, s

\* An order of S is a sequence of the members of S.
LEMMA OrderFacts ==
  ASSUME NEW S, Cardinality(S) \in Nat, NEW p \in Orders(S)
  PROVE  /\ p \in Seq(S) /\ Len(p) \in Nat /\ DOMAIN p = 1 .. Len(p)
         /\ \A e \in S : \E k \in 1 .. Len(p) : p[k] = e
         /\ \A k \in 1 .. Len(p) : p[k] \in S
<1>1. p \in [1 .. Cardinality(S) -> S] /\ Range(p) = S BY Zenon DEF Orders
<1>2. p \in Seq(S) /\ Len(p) = Cardinality(S) /\ DOMAIN p = 1 .. Len(p) BY <1>1
<1>3. \A e \in S : \E k \in DOMAIN p : p[k] = e BY <1>1, Zenon DEF Range
<1> QED BY <1>1, <1>2, <1>3, Zenon

\* The order of a drain visits the endpoints that have a session, and no other.
LEMMA DrainOrder ==
  ASSUME NEW m, ManagerOK(m), \A e : Served(m, e), NEW order \in DrainOrders(m)
  PROVE  /\ Len(order) \in Nat
         /\ \A k \in 1 .. Len(order) : Kind(m, order[k]) # "none"
         /\ \A e : Kind(m, e) # "none" => \E k \in 1 .. Len(order) : order[k] = e
<1> DEFINE S == DOMAIN m.pending_by_endpoint
           T == DOMAIN m.active_conn_id_by_endpoint
<1>1. S \subseteq Endpoint /\ T \subseteq Endpoint BY ViewOf, Zenon DEF Served
<1>2. Cardinality(S) \in Nat /\ Cardinality(T) \in Nat
  BY <1>1, ServerAppAssumption, FS_Subset, FS_CardinalityType, Zenon
<1>3. PICK p \in Orders(S), q \in Orders(T) : order = p \o q BY DEF DrainOrders
<1> HIDE DEF S, T
<1>4. /\ p \in Seq(S) /\ q \in Seq(T) /\ Len(p) \in Nat /\ Len(q) \in Nat
      /\ DOMAIN p = 1 .. Len(p) /\ DOMAIN q = 1 .. Len(q)
      /\ \A e \in S : \E k \in 1 .. Len(p) : p[k] = e
      /\ \A e \in T : \E k \in 1 .. Len(q) : q[k] = e
      /\ \A k \in 1 .. Len(p) : p[k] \in S
      /\ \A k \in 1 .. Len(q) : q[k] \in T
  BY <1>2, OrderFacts, Zenon
<1>5. /\ Len(order) = Len(p) + Len(q)
      /\ \A k \in 1 .. Len(order) :
           order[k] = IF k <= Len(p) THEN p[k] ELSE q[k - Len(p)]
  BY <1>3, <1>4
<1>6. ASSUME NEW k \in 1 .. Len(order) PROVE order[k] \in S \cup T
  <2>1. CASE k <= Len(p) BY <1>4, <1>5, <2>1
  <2>2. CASE ~(k <= Len(p))
    <3>1. k - Len(p) \in 1 .. Len(q) BY <1>4, <1>5, <2>2
    <3> QED BY <1>4, <1>5, <2>2, <3>1, Zenon
  <2> QED BY <2>1, <2>2, Zenon
<1>7. ASSUME NEW e \in S \cup T PROVE \E k \in 1 .. Len(order) : order[k] = e
  <2>1. CASE e \in S
    <3>1. PICK k \in 1 .. Len(p) : p[k] = e BY <1>4, <2>1, Zenon
    <3>2. k \in 1 .. Len(order) /\ k <= Len(p) BY <1>4, <1>5
    <3> QED BY <1>5, <3>1, <3>2, Zenon
  <2>2. CASE e \in T
    <3>1. PICK k \in 1 .. Len(q) : q[k] = e BY <1>4, <2>2, Zenon
    <3>2. /\ k + Len(p) \in 1 .. Len(order) /\ ~(k + Len(p) <= Len(p))
          /\ (k + Len(p)) - Len(p) = k
      BY <1>4, <1>5
    <3> QED BY <1>5, <3>1, <3>2, Zenon
  <2> QED BY <2>1, <2>2, Zenon
<1>8. ASSUME NEW e PROVE Kind(m, e) # "none" <=> e \in S \cup T
  BY ViewOf, Zenon DEF S, T
<1> QED BY <1>4, <1>5, <1>6, <1>7, <1>8

LEMMA TakeSessionsKnown ==
  ASSUME NEW m, ManagerOK(m), \A e : Served(m, e), NEW tables, Known(tables, m),
         NEW order \in DrainOrders(m)
  PROVE  Known(TakeSessions(tables, m, order), m)
<1> DEFINE N == Len(order)
<1>1. N \in Nat /\ \A k \in 1 .. N : Kind(m, order[k]) # "none" BY DrainOrder, Zenon
<1>2. PICK g : /\ g[0] = tables
               /\ \A k \in 1 .. N : g[k] = TakeEvents(g[k - 1], Wrapped(m, order[k]))
               /\ TakeSessions(tables, m, order) = g[N]
  BY <1>1, SessionsLoop
<1> DEFINE S == {k \in 0 .. N : Known(g[k], m)}
<1>3. ASSUME NEW k \in 1 .. N, k - 1 \in S PROVE k \in S
  <2> DEFINE e == order[k]
             wrapped == Wrapped(m, e)
  <2>1. Kind(m, e) # "none" /\ OK(At(m, e)) BY <1>1, Zenon DEF Served
  <2>2. Wraps(wrapped, At(m, e), e) BY <2>1, WrappedFacts, Zenon
  <2>3. Known(g[k - 1], m) /\ g[k] = TakeEvents(g[k - 1], wrapped) BY <1>2, <1>3, Zenon
  <2> HIDE DEF wrapped, e
  <2>4. Len(wrapped) \in Nat /\ \A i \in 1 .. Len(wrapped) :
          Names(m, wrapped[i].conn_id, wrapped[i].endpoint)
    BY <2>1, <2>2, Zenon DEF Wraps, Names
  <2>5. Known(g[k], m) BY <2>3, <2>4, TakeEventsKnown, Zenon
  <2> QED BY <2>5
<1>4. 0 \in S BY <1>1, <1>2
<1> HIDE DEF S
<1>5. \A k \in 0 .. N : k \in S BY <1>1, <1>3, <1>4, Rounds, Zenon
<1>6. N \in S BY <1>1, <1>5
<1> QED BY <1>2, <1>6, Zenon DEF S

-----------------------------------------------------------------------------
\* The inductive invariant of the server program.
Tables == [preferred |-> preferred_conn_id, endpoints |-> active_endpoints]

SInv == ManagerOK(manager) /\ (\A e : Served(manager, e)) /\ Known(Tables, manager)

\* drain_server_events, on the manager m that the call before it has left.
LEMMA DrainSInv ==
  ASSUME NEW m, ManagerOK(m), \A e : Served(m, e), Known(Tables, m),
         drain_server_events(m)
  PROVE  SInv' /\ NumbersKept(m, manager')
<1>1. /\ manager' = manager_drain_events(m)
      /\ \E order \in DrainOrders(m) :
           Tables' = [preferred |-> TakeSessions(Tables, m, order).preferred,
                      endpoints |-> TakeSessions(Tables, m, order).endpoints]
  BY Zenon DEF drain_server_events, Tables
<1>2. PICK order \in DrainOrders(m) :
        Tables' = [preferred |-> TakeSessions(Tables, m, order).preferred,
                   endpoints |-> TakeSessions(Tables, m, order).endpoints]
  BY <1>1, Zenon
<1> DEFINE after == TakeSessions(Tables, m, order)
<1>3. Known(after, m) BY TakeSessionsKnown, Zenon
<1> HIDE DEF after
<1>4. /\ Tables'.preferred = after.preferred
      /\ Tables'.endpoints = after.endpoints
  BY <1>2, Zenon DEF after
<1>5. Known(Tables', m) BY <1>3, <1>4, Zenon DEF Known
<1>6. NumbersKept(m, manager') /\ \A e : Served(manager', e) BY <1>1, DrainServed, Zenon
<1>8. Known(Tables', manager') BY <1>5, <1>6, KnownKept, Zenon
<1>7. ManagerOK(manager') BY <1>1, ManagerDrainOK, Zenon
<1> QED BY <1>6, <1>7, <1>8, Zenon DEF SInv

LEMMA InitSInv == Init => SInv
<1> SUFFICES ASSUME Init PROVE SInv BY Zenon
<1>1. ManagerOK(manager)
  BY Zenon DEF Init, NewManager, EmptyMap, ManagerOK, ManagerFields, MapsAgree, Range
<1>2. ASSUME NEW e PROVE Served(manager, e)
  BY Zenon DEF Init, NewManager, EmptyMap, Served, Kind
<1>3. Known(Tables, manager) BY Zenon DEF Init, EmptyMap, Known, Tables
<1> QED BY <1>1, <1>2, <1>3, Zenon DEF SInv

LEMMA NextSInv == SInv /\ [Next]_vars => SInv' /\ NumbersKept(manager, manager')
<1> SUFFICES ASSUME SInv, [Next]_vars PROVE SInv' /\ NumbersKept(manager, manager') BY Zenon
<1>1. /\ ManagerOK(manager) /\ (\A e : Served(manager, e)) /\ Known(Tables, manager)
  BY Zenon DEF SInv
<1>2. CASE Receive
  <2>1. PICK e \in Endpoint, p \in Inbound :
          \E id \in IF IsNewPeer(manager, e, p) THEN FreeConnIds(manager) ELSE {0},
             i \in InitialSeqs :
            drain_server_events(
              manager_on_datagram_received(manager, e, p, FALSE, id, i))
    BY <1>2, Zenon DEF Receive
  <2>2. PICK id \in IF IsNewPeer(manager, e, p) THEN FreeConnIds(manager) ELSE {0},
             i \in InitialSeqs :
            drain_server_events(
              manager_on_datagram_received(manager, e, p, FALSE, id, i))
    BY <2>1, Zenon
  <2> DEFINE m == manager_on_datagram_received(manager, e, p, FALSE, id, i)
  <2>3. p \in Packet /\ i \in Seqs BY ServerAppAssumption, Zenon
  <2>4. ManagerOK(m) BY <1>1, ManagerReceiveOK, Zenon
  <2>5. (\A f : Served(m, f)) /\ NumbersKept(manager, m)
    BY <1>1, <2>3, ReceiveServed, Zenon
  <2>6. Known(Tables, m) BY <1>1, <2>5, KnownKept, Zenon
  <2> HIDE DEF m
  <2>7. SInv' /\ NumbersKept(m, manager')
    BY <2>2, <2>4, <2>5, <2>6, DrainSInv, Zenon DEF m
  <2> QED BY <2>5, <2>7, KeptTwice, Zenon
<1>3. CASE handle_server_stdin
  <2>1. Tables' = Tables BY <1>3, Zenon DEF handle_server_stdin, Tables
  <2>2. CASE SendLine
    <3>1. PICK command \in SendCommands, payload \in Payload \ {NoPayload} :
            manager' = manager_queue_send(manager, command.conn_id,
                         [channel_id |-> command.channel.id,
                          channel_type |-> command.channel.type,
                          payload |-> payload])
      BY <2>2, Zenon DEF SendLine
    <3> DEFINE request == [channel_id |-> command.channel.id,
                           channel_type |-> command.channel.type,
                           payload |-> payload]
    <3>2. command.channel \in [id: ChannelId, type: ChannelType, is_default: BOOLEAN]
      <4> DEFINE R == [id: ChannelId, type: ChannelType, is_default: BOOLEAN]
      <4>1. Channels \in Seq(R) BY ServerAppAssumption, Zenon
      <4> HIDE DEF R
      <4>2. \A i \in DOMAIN Channels : Channels[i] \in R BY <4>1
      <4>3. default_channel \subseteq {Channels[i] : i \in DOMAIN Channels}
        <5> DEFINE marked == {i \in DOMAIN Channels : Channels[i].is_default}
        <5>1. Channels # << >> => 1 \in DOMAIN Channels BY <4>1
        <5>2. marked \subseteq Nat BY <4>1
        <5>3. marked # {} => Min(marked) \in marked BY <5>2, MinOfNats, Zenon
        <5> HIDE DEF marked
        <5>4. marked \subseteq DOMAIN Channels BY Zenon DEF marked
        <5> QED BY <5>1, <5>3, <5>4, Zenon DEF default_channel, marked
      <4> QED BY <4>2, <4>3 DEF SendCommands, R
    <3>3. request \in SendRequest BY <3>2, Zenon DEF SendRequest
    <3> HIDE DEF request
    <3>4. manager' = manager_queue_send(manager, command.conn_id, request)
      BY <3>1, Zenon DEF request
    <3>5. ManagerOK(manager') BY <1>1, <3>4, ManagerQueueSendOK, Zenon
    <3>6. (\A f : Served(manager', f)) /\ NumbersKept(manager, manager')
      BY <1>1, <3>3, <3>4, QueueServed, Zenon
    <3>7. Known(Tables, manager') BY <1>1, <3>6, KnownKept, Zenon
    <3> QED BY <2>1, <3>5, <3>6, <3>7, Zenon DEF SInv
  <2>3. CASE Quit BY <1>1, <2>1, <2>3, Zenon DEF Quit, SInv, NumbersKept
  <2> QED BY <1>3, <2>2, <2>3, Zenon DEF handle_server_stdin
<1>4. CASE Poll
  <2>1. PICK clock \in ServerClocks(manager) :
          drain_server_events(manager_poll_tx(manager, clock))
    BY <1>4, Zenon DEF Poll
  <2> DEFINE m == manager_poll_tx(manager, clock)
  <2>2. ManagerOK(m) BY <1>1, ManagerPollOK, Zenon
  <2>3. (\A f : Served(m, f)) /\ NumbersKept(manager, m) BY <1>1, PollServed, Zenon
  <2>4. Known(Tables, m) BY <1>1, <2>3, KnownKept, Zenon
  <2> HIDE DEF m
  <2>5. SInv' /\ NumbersKept(m, manager')
    BY <2>1, <2>2, <2>3, <2>4, DrainSInv, Zenon DEF m
  <2> QED BY <2>3, <2>5, KeptTwice, Zenon
<1>5. CASE Stop \/ Done \/ UNCHANGED vars
  <2>1. manager' = manager /\ Tables' = Tables
    BY <1>5, Zenon DEF Stop, Done, vars, Tables
  <2> QED BY <1>1, <2>1, Zenon DEF SInv, NumbersKept
<1> QED BY <1>2, <1>3, <1>4, <1>5, Zenon DEF Next

LEMMA AlwaysSInv == Spec => []SInv
<1>1. SInv /\ [Next]_vars => SInv' BY NextSInv, Zenon
<1> QED BY <1>1, InitSInv, PTL DEF Spec

\* IndexesAgree holds in every state of the server: whatever the peers send,
\* whatever the user types and whichever timers fire, no endpoint is pending and
\* active at once, the two maps of active sessions name the same connections,
\* and no number is live twice or used again (ServerSessionManager.cpp).
THEOREM MapsAlwaysAgree == Spec => []IndexesAgree
<1>1. SInv => IndexesAgree BY Zenon DEF SInv, ManagerOK, IndexesAgree
<1> QED BY <1>1, AlwaysSInv, PTL

\* TerminalIsRemoved: a session that has been reset or closed is in neither map
\* after the call that ended it, on every path of on_datagram_received and
\* poll_tx (ServerSessionManager.cpp): a packet removes it at once, and the
\* resets of poll_tx send nothing, which is what its clean-up asks for.
THEOREM EndedAreRemoved == Spec => []TerminalIsRemoved
<1>1. SInv => TerminalIsRemoved
  <2> SUFFICES ASSUME SInv PROVE TerminalIsRemoved BY Zenon
  <2>1. ManagerOK(manager) /\ \A e : Served(manager, e) BY Zenon DEF SInv
  <2>2. ASSUME NEW e \in DOMAIN manager.pending_by_endpoint
        PROVE  ~is_terminal_state(manager.pending_by_endpoint[e])
    BY <2>1, ViewOf, Zenon DEF Served
  <2>3. ASSUME NEW c \in DOMAIN manager.active_by_conn_id
        PROVE  ~is_terminal_state(manager.active_by_conn_id[c])
    BY <2>1, ActiveView DEF Served
  <2> QED BY <2>2, <2>3, Zenon DEF TerminalIsRemoved, is_terminal_state
<1> QED BY <1>1, AlwaysSInv, PTL

\* NeverMisdirected: plain text goes to a listed session, and no entry of
\* /sessions names the connection of another endpoint, whatever the peers send
\* and in whichever order the events of the sessions are drained
\* (drain_server_events). It rests on retired_conn_ids: an entry may outlive its
\* session, whose number is then never drawn again.
THEOREM TextReachesItsPeer == Spec => []NeverMisdirected
<1>1. SInv => NeverMisdirected
  <2> SUFFICES ASSUME SInv PROVE NeverMisdirected BY Zenon
  <2>1. /\ ManagerOK(manager)
        /\ preferred_conn_id \subseteq DOMAIN active_endpoints
        /\ \A c \in DOMAIN active_endpoints :
             c \in manager.retired_conn_ids \/ Names(manager, c, active_endpoints[c])
    BY Zenon DEF SInv, Known, Tables
  <2>2. ASSUME NEW c \in DOMAIN active_endpoints, NEW e \in Endpoint, c \in SessionIdAt(e)
        PROVE  active_endpoints[c] = e
    <3>1. Names(manager, c, e)
      BY <2>1, <2>2, ViewOf, ViewActive DEF SessionIdAt, Names
    <3>2. c \notin manager.retired_conn_ids BY <2>1, <3>1, ViewSession, Zenon DEF Names
    <3>3. Names(manager, c, active_endpoints[c]) BY <2>1, <3>2, Zenon
    <3> QED BY <2>1, <3>1, <3>3, ViewUnique, Zenon DEF Names
  <2> QED BY <2>1, <2>2, Zenon DEF NeverMisdirected
<1> QED BY <1>1, AlwaysSInv, PTL

\* SessionIdAt, of any manager.
IdAt(m, e) ==
  IF e \in DOMAIN m.pending_by_endpoint
  THEN {m.pending_by_endpoint[e].conn_id}
  ELSE {m.active_conn_id_by_endpoint[f] :
          f \in {e} \cap DOMAIN m.active_conn_id_by_endpoint}

LEMMA NumberOf ==
  ASSUME NEW m, ManagerOK(m), NEW c, NEW e
  PROVE  c \in IdAt(m, e) <=> Names(m, c, e)
<1>1. CASE Kind(m, e) = "pending" BY <1>1, ViewOf, Zenon DEF IdAt, Names
<1>2. CASE Kind(m, e) = "active"
  <2>1. e \notin DOMAIN m.pending_by_endpoint BY <1>2, ViewOf
  <2>2. /\ e \in DOMAIN m.active_conn_id_by_endpoint
        /\ m.active_conn_id_by_endpoint[e] = At(m, e).conn_id
    BY <1>2, ViewActive, Zenon
  <2> QED BY <1>2, <2>1, <2>2 DEF IdAt, Names
<1>3. CASE Kind(m, e) = "none" BY <1>3, ViewOf DEF IdAt, Names
<1> QED BY <1>1, <1>2, <1>3, ViewOf, Zenon

\* NumbersKeepTheirPeer: no step of the server moves a connection number from
\* one endpoint to another; it is handed on from the pending map to the active
\* one or retired for good (promote_pending_session, cleanup_pending_session,
\* cleanup_active_session, poll_tx).
THEOREM NumbersStay == Spec => NumbersKeepTheirPeer
<1> DEFINE Step ==
      /\ manager.retired_conn_ids \subseteq manager'.retired_conn_ids
      /\ \A e \in Endpoint :
           SessionIdAt(e) \subseteq SessionIdAt(e)' \cup manager'.retired_conn_ids
<1>1. ASSUME SInv, SInv', NumbersKept(manager, manager') PROVE Step
  <2>1. ManagerOK(manager) /\ ManagerOK(manager') BY <1>1, Zenon DEF SInv
  <2>2. ASSUME NEW e \in Endpoint, NEW c \in SessionIdAt(e)
        PROVE  c \in SessionIdAt(e)' \cup manager'.retired_conn_ids
    <3>1. c \in IdAt(manager, e) BY <2>2, Zenon DEF SessionIdAt, IdAt
    <3>2. Names(manager, c, e) BY <2>1, <3>1, NumberOf, Zenon
    <3>3. c \in manager'.retired_conn_ids \/ Names(manager', c, e)
      BY <1>1, <3>2, Zenon DEF NumbersKept
    <3>4. Names(manager', c, e) => c \in IdAt(manager', e) BY <2>1, NumberOf, Zenon
    <3>5. IdAt(manager', e) = SessionIdAt(e)' BY Zenon DEF SessionIdAt, IdAt
    <3> QED BY <3>3, <3>4, <3>5, Zenon
  <2> QED BY <1>1, <2>2, Zenon DEF NumbersKept
<1>2. SInv /\ SInv' /\ [Next]_vars => [Step]_vars BY <1>1, NextSInv, Zenon
<1> QED BY <1>2, AlwaysSInv, PTL DEF Spec, NumbersKeepTheirPeer

-----------------------------------------------------------------------------
\* Which sessions are listed

LEMMA NoEvents ==
  ASSUME NEW rx, rx.pending_events = << >> PROVE EventTypes(rx) = {}
BY DEF EventTypes

\* An event lists its session, unless it ends it, and leaves other numbers alone.
LEMMA TakeEventListed ==
  ASSUME NEW tables, NEW event, event.conn_id # 0
  PROVE  LET after == TakeEvent(tables, event)
         IN  /\ \A d \in DOMAIN tables.endpoints :
                  d # event.conn_id => d \in DOMAIN after.endpoints
             /\ ~EndsSession(event.type) => event.conn_id \in DOMAIN after.endpoints
<1> DEFINE c == event.conn_id
           after == TakeEvent(tables, event)
<1>1. CASE EndsSession(event.type)
  <2>1. after.endpoints = Erase(tables.endpoints, c) BY <1>1, Zenon DEF TakeEvent
  <2>2. DOMAIN Erase(tables.endpoints, c) = DOMAIN tables.endpoints \ {c} BY EraseMap, ZenonT(30)
  <2> QED BY <1>1, <2>1, <2>2, Zenon
<1>2. CASE ~EndsSession(event.type)
  <2>1. after.endpoints = Put(tables.endpoints, c, event.endpoint) BY <1>2, Zenon DEF TakeEvent
  <2>2. DOMAIN Put(tables.endpoints, c, event.endpoint) = DOMAIN tables.endpoints \cup {c}
    BY Zenon DEF Put
  <2> QED BY <1>2, <2>1, <2>2, Zenon
<1> QED BY <1>1, <1>2, Zenon

LEMMA TakeEventsOthers ==
  ASSUME NEW tables, NEW c, c # 0, NEW events, Len(events) \in Nat,
         \A k \in 1 .. Len(events) : events[k].conn_id = c,
         NEW d \in DOMAIN tables.endpoints, d # c
  PROVE  d \in DOMAIN TakeEvents(tables, events).endpoints
<1> DEFINE N == Len(events)
<1>1. PICK g : /\ g[0] = tables
               /\ \A k \in 1 .. N : g[k] = TakeEvent(g[k - 1], events[k])
               /\ TakeEvents(tables, events) = g[N]
  BY EventsLoop
<1> DEFINE S == {k \in 0 .. N : d \in DOMAIN g[k].endpoints}
<1>2. 0 \in S BY <1>1
<1>3. ASSUME NEW k \in 1 .. N, k - 1 \in S PROVE k \in S
  <2>1. d \in DOMAIN g[k - 1].endpoints /\ g[k] = TakeEvent(g[k - 1], events[k])
    BY <1>1, <1>3, Zenon
  <2>2. d \in DOMAIN g[k].endpoints BY <2>1, TakeEventListed, Zenon
  <2> QED BY <2>2
<1> HIDE DEF S
<1>4. \A k \in 0 .. N : k \in S BY <1>2, <1>3, Rounds, Zenon
<1>5. N \in S BY <1>4
<1> QED BY <1>1, <1>5, Zenon DEF S

LEMMA TakeEventsOwn ==
  ASSUME NEW tables, NEW c, c # 0, NEW events, Len(events) \in Nat,
         \A k \in 1 .. Len(events) :
           events[k].conn_id = c /\ ~EndsSession(events[k].type),
         c \in DOMAIN tables.endpoints \/ Len(events) > 0
  PROVE  c \in DOMAIN TakeEvents(tables, events).endpoints
<1> DEFINE N == Len(events)
<1>1. PICK g : /\ g[0] = tables
               /\ \A k \in 1 .. N : g[k] = TakeEvent(g[k - 1], events[k])
               /\ TakeEvents(tables, events) = g[N]
  BY EventsLoop
<1>2. CASE N = 0 BY <1>1, <1>2
<1>3. CASE N # 0
  <2>1. N \in 1 .. N BY <1>3
  <2> QED BY <1>1, <2>1, TakeEventListed
<1> QED BY <1>2, <1>3, Zenon

\* The session of e reports nothing that ends it, and is listed or reports
\* something.
Announced(tables, m, e) ==
  /\ \A type \in EventTypes(At(m, e).rx) : ~EndsSession(type)
  /\ At(m, e).conn_id \in DOMAIN tables.endpoints \/ EventTypes(At(m, e).rx) # {}

LEMMA TakeSessionsListed ==
  ASSUME NEW m, ManagerOK(m), \A f : Served(m, f), NEW tables,
         NEW order \in DrainOrders(m),
         NEW e, Kind(m, e) # "none", Announced(tables, m, e)
  PROVE  At(m, e).conn_id \in DOMAIN TakeSessions(tables, m, order).endpoints
<1> DEFINE N == Len(order)
           c == At(m, e).conn_id
<1>1. N \in Nat /\ \A k \in 1 .. N : Kind(m, order[k]) # "none" BY DrainOrder, Zenon
<1>2. PICK at \in 1 .. N : order[at] = e BY DrainOrder, Zenon
<1>3. PICK g : /\ g[0] = tables
               /\ \A k \in 1 .. N : g[k] = TakeEvents(g[k - 1], Wrapped(m, order[k]))
               /\ TakeSessions(tables, m, order) = g[N]
  BY <1>1, SessionsLoop
<1> DEFINE Due(k) == c \in DOMAIN tables.endpoints \/ k >= at
           S == {k \in 0 .. N : Due(k) => c \in DOMAIN g[k].endpoints}
<1>4. ASSUME NEW k \in 1 .. N, k - 1 \in S, Due(k)
      PROVE  c \in DOMAIN g[k].endpoints
  <2> DEFINE f == order[k]
             wrapped == Wrapped(m, f)
  <2>1. Kind(m, f) # "none" /\ OK(At(m, f)) BY <1>1, Zenon DEF Served
  <2>2. Wraps(wrapped, At(m, f), f) BY <2>1, WrappedFacts, Zenon
  <2>3. At(m, f).conn_id # 0 BY <2>1, ViewSession, Zenon
  <2>4. g[k] = TakeEvents(g[k - 1], wrapped) BY <1>3, Zenon
  <2>5. f = e \/ k # at BY <1>2, Zenon
  <2> HIDE DEF wrapped, f
  <2>6. CASE f # e
    <3> DEFINE b == At(m, f).conn_id
    <3>1. b # c BY <2>1, <2>6, ViewUnique, Zenon
    <3>2. Due(k - 1) BY <1>4, <2>5, <2>6
    <3>3. c \in DOMAIN g[k - 1].endpoints BY <1>4, <3>2, Zenon
    <3>4. Len(wrapped) \in Nat /\ \A i \in 1 .. Len(wrapped) : wrapped[i].conn_id = b
      BY <2>2, Zenon DEF Wraps
    <3> HIDE DEF b, c
    <3>5. b # 0 BY <2>3, Zenon DEF b
    <3>6. c \in DOMAIN TakeEvents(g[k - 1], wrapped).endpoints
      BY <3>1, <3>3, <3>4, <3>5, TakeEventsOthers, Zenon
    <3> QED BY <2>4, <3>6, Zenon
  <2>7. CASE f = e
    <3> DEFINE events == At(m, e).rx.pending_events
    <3>1. Wraps(wrapped, At(m, e), e) BY <2>2, <2>7, Zenon
    <3>2. /\ Len(wrapped) = Len(events) /\ Len(wrapped) \in Nat
          /\ DOMAIN events = 1 .. Len(wrapped)
          /\ \A i \in 1 .. Len(wrapped) : /\ wrapped[i].conn_id = c
                                          /\ wrapped[i].type = events[i].type
      BY <3>1, Zenon DEF Wraps
    <3>3. \A i \in 1 .. Len(wrapped) : wrapped[i].type \in EventTypes(At(m, e).rx)
      BY <3>2, Zenon DEF EventTypes
    <3>4. \A i \in 1 .. Len(wrapped) : wrapped[i].conn_id = c /\ ~EndsSession(wrapped[i].type)
      BY <3>2, <3>3, Zenon DEF Announced
    <3>5. c \in DOMAIN g[k - 1].endpoints \/ Len(wrapped) > 0
      <4>1. CASE DOMAIN events = {}
        <5>1. EventTypes(At(m, e).rx) = {} BY <4>1, Zenon DEF EventTypes
        <5>2. c \in DOMAIN tables.endpoints BY <5>1, Zenon DEF Announced
        <5> QED BY <1>4, <5>2, Zenon
      <4> HIDE DEF events
      <4>2. CASE DOMAIN events # {} BY <3>2, <4>2
      <4> QED BY <4>1, <4>2, Zenon
    <3>6. c # 0 BY <2>3, <2>7, Zenon
    <3> HIDE DEF c, events
    <3>7. c \in DOMAIN TakeEvents(g[k - 1], wrapped).endpoints
      BY <3>2, <3>4, <3>5, <3>6, TakeEventsOwn, Zenon
    <3> QED BY <2>4, <3>7, Zenon
  <2> QED BY <2>6, <2>7, Zenon
<1>5. ASSUME NEW k \in 1 .. N, k - 1 \in S PROVE k \in S
  <2>1. Due(k) => c \in DOMAIN g[k].endpoints BY <1>4, <1>5, Zenon
  <2>2. k \in 0 .. N BY <1>1
  <2> QED BY <2>1, <2>2, Zenon
<1>6. 0 \in S
  <2>1. ~(0 >= at) /\ 0 \in 0 .. N BY <1>1
  <2> QED BY <1>3, <2>1, Zenon
<1>7. Due(N) BY <1>1
<1> HIDE DEF S
<1>8. \A k \in 0 .. N : k \in S BY <1>1, <1>5, <1>6, Rounds, Zenon
<1>9. N \in S BY <1>1, <1>8
<1> QED BY <1>3, <1>7, <1>9, Zenon DEF S

\* A server's session that a packet leaves Established was so before, or has
\* just reported Connected, and has reported nothing that ends it.
LEMMA ReceiveAnnounces ==
  ASSUME NEW s, OK(s), s.role = "Server", EventTypes(s.rx) = {},
         NEW p \in Packet, NEW lingering,
         classify_control_kind(p.flags) # "Invalid",
         classify_control_kind(p.flags) = "Syn" => s.connection_state # "Established",
         on_datagram_received(s, p, lingering).connection_state = "Established"
  PROVE  LET types == EventTypes(on_datagram_received(s, p, lingering).rx)
         IN  /\ \A type \in types : ~EndsSession(type)
             /\ s.connection_state = "Established" \/ types # {}
<1> DEFINE kind == classify_control_kind(p.flags)
           t == on_datagram_received(s, p, lingering)
<1>1. Reset(s).connection_state = "Reset" BY Zenon DEF Reset, emit_local_error, OK, SessionState
<1>2. t = process_packet(s, kind, p) BY <1>1, ServerNeverAdopts, Zenon
<1> HIDE DEF kind
<1>3. \/ ProcessedAs(s, kind, t, s.connection_state, {})
      \/ ProcessedAs(s, kind, t, "Closed", {"ConnectionClosed"})
  BY <1>2, ProcessStep, Zenon
<1> HIDE DEF t
<1>4. t.connection_state = "Established" BY Zenon DEF t
<1>5. ProcessedAs(s, kind, t, s.connection_state, {})
  BY <1>3, <1>4, Zenon DEF ProcessedAs, decide_connection_transition, Decision
<1> DEFINE d == decide_connection_transition("Server", s.connection_state, kind)
<1>6. /\ kind # "Invalid" /\ (kind = "Syn" => s.connection_state # "Established")
  BY Zenon DEF kind
<1>7. \/ s.connection_state = "Established" /\ d.emit = "None"
      \/ d.emit = "Connected"
  BY <1>4, <1>5, <1>6, ZenonT(30) DEF ProcessedAs, decide_connection_transition, Decision
<1> HIDE DEF d
<1>8. /\ {d.emit} \ {"None"} \subseteq EventTypes(t.rx)
      /\ EventTypes(t.rx) \subseteq ({d.emit} \ {"None"}) \cup {"DataReceived"}
  BY <1>5, Zenon DEF ProcessedAs, d
<1>9. ~EndsSession("Connected") /\ ~EndsSession("DataReceived") BY Zenon DEF EndsSession
<1> QED BY <1>7, <1>8, <1>9, Zenon DEF t

\* Between two calls no event waits.
Quiet(m, e) == Kind(m, e) # "none" => EventTypes(At(m, e).rx) = {}

\* An Established session is listed.
Listed(tables, m, e) ==
  Kind(m, e) # "none" /\ At(m, e).connection_state = "Established" =>
    At(m, e).conn_id \in DOMAIN tables.endpoints

\* The same before the drain.
WillBeListed(tables, m, e) ==
  Kind(m, e) # "none" /\ At(m, e).connection_state = "Established" =>
    Announced(tables, m, e)

LInv == \A e : /\ Quiet(manager, e) /\ Placed(manager, e)
               /\ Listed(Tables, manager, e)

LEMMA ReceiveListed ==
  ASSUME NEW m, ManagerOK(m), \A f : Served(m, f),
         NEW tables, \A f : Quiet(m, f) /\ Placed(m, f) /\ Listed(tables, m, f),
         NEW e \in Endpoint, NEW p \in Packet,
         LET kind == classify_control_kind(p.flags)
         IN  kind # "Invalid" /\ (kind = "Syn" => p.conn_id = 0),
         NEW lingering \in BOOLEAN, NEW i \in Seqs,
         NEW id \in IF IsNewPeer(m, e, p) THEN FreeConnIds(m) ELSE {0}
  PROVE  LET n == manager_on_datagram_received(m, e, p, lingering, id, i)
         IN  \A f : Placed(n, f) /\ WillBeListed(tables, n, f)
<1> DEFINE n == manager_on_datagram_received(m, e, p, lingering, id, i)
           kind == classify_control_kind(p.flags)
<1>1. ASSUME NEW f, f # e PROVE SameView(m, n, f) BY <1>1, ReceiveView, Zenon
<1>2. Receives(m, n, e, p, lingering, id) BY ReceiveView, Zenon
<1> HIDE DEF n
<1>3. ASSUME NEW f, SameView(m, n, f) PROVE Placed(n, f) /\ WillBeListed(tables, n, f)
  BY <1>3, Zenon DEF SameView, Quiet, Placed, Listed, WillBeListed, Announced
<1>4. CASE n = m
  <2>1. ASSUME NEW f PROVE SameView(m, n, f) BY <1>4, Zenon DEF SameView
  <2> QED BY <1>3, <2>1, Zenon DEF n
<1>5. CASE n # m
  <2>1. PICK s0 : /\ TakesPacket(m, e, p, id, s0)
                  /\ Identity(s0, "Server", s0.conn_id)
                  /\ Kind(m, e) = "none" => s0.conn_id \in FreeConnIds(m)
                  /\ Becomes(m, n, e, on_datagram_received(s0, p, lingering))
    BY <1>2, <1>5, Zenon DEF Receives
  <2> DEFINE s == on_datagram_received(s0, p, lingering)
  <2>2. OK(s0) BY <2>1, TakenOK, Zenon
  <2>3. /\ EventTypes(s0.rx) = {}
        /\ kind = "Syn" => s0.connection_state # "Established"
        /\ s0.connection_state = "Established" => s0.conn_id \in DOMAIN tables.endpoints
    <3>1. CASE Kind(m, e) # "none"
      <4>1. s0 = At(m, e) BY <2>1, <3>1, Zenon DEF TakesPacket
      <4>2. EventTypes(s0.rx) = {} BY <3>1, <4>1, Zenon DEF Quiet
      <4>3. kind = "Syn" => s0.connection_state # "Established"
        <5>1. s0.conn_id # 0 BY <3>1, <4>1, ViewSession, Zenon
        <5>2. CASE Kind(m, e) = "active"
          BY <2>1, <5>1, <5>2, Zenon DEF TakesPacket
        <5>3. CASE Kind(m, e) # "active"
          BY <3>1, <4>1, <5>3, ViewOf, Zenon DEF Placed
        <5> QED BY <5>2, <5>3, Zenon
      <4>4. s0.connection_state = "Established" => s0.conn_id \in DOMAIN tables.endpoints
        BY <3>1, <4>1, Zenon DEF Listed
      <4> QED BY <4>2, <4>3, <4>4, Zenon
    <3>2. CASE Kind(m, e) = "none"
      <4>1. PICK j \in Seqs : s0 = [NewSession("Server", j) EXCEPT !.conn_id = id]
        BY <2>1, <3>2, Zenon DEF TakesPacket
      <4>2. s0.connection_state = "Closed" /\ s0.rx.pending_events = << >>
        BY <4>1, Zenon DEF NewSession, RxInit
      <4>3. EventTypes(s0.rx) = {} BY <4>2, NoEvents, Zenon
      <4> QED BY <4>2, <4>3, Zenon
    <3> QED BY <3>1, <3>2, Zenon
  <2>4. s0.role = "Server" BY <2>1, Zenon DEF Identity
  <2>5. Identity(s, "Server", s0.conn_id) BY <2>1, ReceiveKeeps, Zenon
  <2>6. s.conn_id = s0.conn_id BY <2>5, Zenon DEF Identity
  <2>7. s.connection_state = "Established" =>
          /\ \A type \in EventTypes(s.rx) : ~EndsSession(type)
          /\ s0.connection_state = "Established" \/ EventTypes(s.rx) # {}
    BY <2>2, <2>3, <2>4, ReceiveAnnounces, Zenon
  <2> HIDE DEF s
  <2>8. Becomes(m, n, e, s) BY <2>1, Zenon DEF s
  <2>9. Placed(n, e) BY <2>8, ZenonT(30) DEF Placed, Becomes
  <2>10. WillBeListed(tables, n, e)
    BY <2>3, <2>6, <2>7, <2>8, Zenon DEF WillBeListed, Becomes, Announced
  <2> QED BY <1>1, <1>3, <2>9, <2>10, Zenon DEF n
<1> QED BY <1>4, <1>5, Zenon

\* A poll reports nothing for a session that it keeps.
LEMMA PollListed ==
  ASSUME NEW m, ManagerOK(m), \A f : Served(m, f),
         NEW tables, \A f : Quiet(m, f) /\ Placed(m, f) /\ Listed(tables, m, f), NEW clock
  PROVE  LET n == manager_poll_tx(m, clock)
         IN  \A f : Placed(n, f) /\ WillBeListed(tables, n, f)
<1> DEFINE n == manager_poll_tx(m, clock)
<1>1. ASSUME NEW f PROVE Placed(n, f) /\ WillBeListed(tables, n, f)
  <2> DEFINE s == At(m, f)
             r == poll_tx(s, clock[f])
  <2>1. PolledView(m, n, f, r) BY PollView, Zenon
  <2>2. CASE Kind(m, f) = "none" \/ Finished(r)
    BY <2>1, <2>2, Zenon DEF PolledView, Placed, WillBeListed
  <2>3. CASE Kind(m, f) # "none" /\ ~Finished(r)
    <3>1. Identity(s, "Server", s.conn_id) BY <2>3, ViewSession, Zenon DEF SessionOf
    <3>2. r.session.conn_id = s.conn_id BY <3>1, PollKeeps, ZenonT(60) DEF Identity
    <3>3. \/ r.session.connection_state = "Reset"
          \/ r.session.connection_state = PollMove(s) /\ r.session.rx = s.rx
      BY <3>1, PollStep, ZenonT(30)
    <3>4. PollMove(s) = s.connection_state BY <3>1, Zenon DEF PollMove, Identity
    <3> HIDE DEF r
    <3>5. r.session.connection_state = "Established" =>
            s.connection_state = "Established" /\ r.session.rx = s.rx
      BY <3>3, <3>4, Zenon
    <3>6. Quiet(m, f) /\ Placed(m, f) /\ Listed(tables, m, f) BY Zenon
    <3> HIDE DEF n
    <3> QED BY <2>1, <2>3, <3>2, <3>5, <3>6, Zenon
         DEF PolledView, Quiet, Placed, Listed, WillBeListed, Announced
  <2> QED BY <2>2, <2>3, Zenon
<1> QED BY <1>1, Zenon

\* After the drain no event waits, and what was announced is listed.
LEMMA DrainListed ==
  ASSUME SInv, NEW m, ManagerOK(m), \A f : Served(m, f),
         \A f : Placed(m, f) /\ WillBeListed(Tables, m, f),
         drain_server_events(m)
  PROVE  LInv'
<1>1. /\ manager' = manager_drain_events(m)
      /\ \E order \in DrainOrders(m) :
           Tables' = [preferred |-> TakeSessions(Tables, m, order).preferred,
                      endpoints |-> TakeSessions(Tables, m, order).endpoints]
  BY Zenon DEF drain_server_events, Tables
<1>2. PICK order \in DrainOrders(m) :
        Tables' = [preferred |-> TakeSessions(Tables, m, order).preferred,
                   endpoints |-> TakeSessions(Tables, m, order).endpoints]
  BY <1>1, Zenon
<1>3. Tables'.endpoints = TakeSessions(Tables, m, order).endpoints BY <1>2, Zenon
<1> DEFINE n == manager_drain_events(m)
<1>4. ASSUME NEW f PROVE Quiet(n, f) /\ Placed(n, f) /\ Listed(Tables', n, f)
  <2> DEFINE s == At(m, f)
             t == [s EXCEPT !.rx = drain_events(@)]
  <2>1. Kind(n, f) = Kind(m, f) /\ (Kind(m, f) # "none" => At(n, f) = t) BY DrainView, Zenon
  <2>2. CASE Kind(m, f) = "none" BY <2>1, <2>2, Zenon DEF Quiet, Placed, Listed
  <2>3. CASE Kind(m, f) # "none"
    <3>1. OK(s) BY <2>3, Zenon DEF Served
    <3>2. /\ t.connection_state = s.connection_state /\ t.conn_id = s.conn_id
          /\ t.rx.pending_events = << >>
      BY <3>1, Zenon DEF OK, SessionState, RxSessionState, drain_events
    <3>3. EventTypes(t.rx) = {} BY <3>2, NoEvents, Zenon
    <3>4. s.connection_state = "Established" => s.conn_id \in DOMAIN Tables'.endpoints
      BY <1>3, <2>3, TakeSessionsListed, Zenon DEF WillBeListed
    <3>5. Placed(m, f) BY Zenon
    <3> HIDE DEF t
    <3> QED BY <2>1, <2>3, <3>2, <3>3, <3>4, <3>5, ZenonT(30) DEF Quiet, Placed, Listed
  <2> QED BY <2>2, <2>3, Zenon
<1> QED BY <1>1, <1>4, Zenon DEF LInv

LEMMA QueueListed ==
  ASSUME NEW m, ManagerOK(m), \A f : Served(m, f),
         NEW tables, \A f : Quiet(m, f) /\ Placed(m, f) /\ Listed(tables, m, f),
         NEW c, NEW request
  PROVE  LET n == manager_queue_send(m, c, request)
         IN  \A f : Quiet(n, f) /\ Placed(n, f) /\ Listed(tables, n, f)
<1> DEFINE n == manager_queue_send(m, c, request)
<1>1. ASSUME NEW f PROVE Quiet(n, f) /\ Placed(n, f) /\ Listed(tables, n, f)
  <2> DEFINE s == At(m, f)
             t == queue_send(s, request)
  <2>1. /\ Kind(n, f) = Kind(m, f)
        /\ Kind(m, f) # "none" => At(n, f) = s \/ At(n, f) = t
    BY QueueView
  <2>2. Quiet(m, f) /\ Placed(m, f) /\ Listed(tables, m, f) BY Zenon
  <2>3. CASE Kind(m, f) = "none" BY <2>1, <2>3, ZenonT(30) DEF Quiet, Placed, Listed
  <2>4. CASE Kind(m, f) # "none"
    <3>1. OK(s) BY <2>4, Zenon DEF Served
    <3>2. /\ t.connection_state = s.connection_state /\ t.conn_id = s.conn_id
          /\ t.rx = s.rx
      BY <3>1, Zenon DEF queue_send, OK, SessionState
    <3> HIDE DEF t, n
    <3> QED BY <2>1, <2>2, <2>4, <3>2, Zenon DEF Quiet, Placed, Listed
  <2> QED BY <2>3, <2>4, Zenon
<1> QED BY <1>1, Zenon

LEMMA NextLInv ==
  ASSUME PeersConform, SInv, LInv, [Next]_vars
  PROVE  LInv'
<1>1. /\ ManagerOK(manager) /\ (\A f : Served(manager, f)) /\ Known(Tables, manager)
      /\ \A f : Quiet(manager, f) /\ Placed(manager, f) /\ Listed(Tables, manager, f)
  BY Zenon DEF SInv, LInv
<1>2. CASE Receive
  <2>1. PICK e \in Endpoint, p \in Inbound :
          \E id \in IF IsNewPeer(manager, e, p) THEN FreeConnIds(manager) ELSE {0},
             i \in InitialSeqs :
            drain_server_events(
              manager_on_datagram_received(manager, e, p, FALSE, id, i))
    BY <1>2, Zenon DEF Receive
  <2>2. PICK id \in IF IsNewPeer(manager, e, p) THEN FreeConnIds(manager) ELSE {0},
             i \in InitialSeqs :
            drain_server_events(
              manager_on_datagram_received(manager, e, p, FALSE, id, i))
    BY <2>1, Zenon
  <2> DEFINE m == manager_on_datagram_received(manager, e, p, FALSE, id, i)
             kind == classify_control_kind(p.flags)
  <2>3. /\ p \in Packet /\ i \in Seqs
        /\ kind # "Invalid" /\ (kind = "Syn" => p.conn_id = 0)
    BY ServerAppAssumption, Zenon DEF PeersConform
  <2>4. ManagerOK(m) BY <1>1, ManagerReceiveOK, Zenon
  <2>5. \A f : Served(m, f) BY <1>1, <2>3, ReceiveServed, Zenon
  <2>6. \A f : Placed(m, f) /\ WillBeListed(Tables, m, f)
    BY <1>1, <2>3, ReceiveListed, ZenonT(30)
  <2> HIDE DEF m
  <2> QED BY <2>2, <2>4, <2>5, <2>6, DrainListed, Zenon DEF m
<1>3. CASE handle_server_stdin
  <2>1. Tables' = Tables BY <1>3, Zenon DEF handle_server_stdin, Tables
  <2>2. CASE SendLine
    <3>1. PICK c, request : manager' = manager_queue_send(manager, c, request)
      BY <2>2, Zenon DEF SendLine
    <3>2. \A f : Quiet(manager', f) /\ Placed(manager', f) /\ Listed(Tables, manager', f)
      BY <1>1, <3>1, QueueListed, Zenon
    <3> QED BY <2>1, <3>2, Zenon DEF LInv
  <2>3. CASE Quit BY <1>1, <2>1, <2>3, Zenon DEF Quit, LInv
  <2> QED BY <1>3, <2>2, <2>3, Zenon DEF handle_server_stdin
<1>4. CASE Poll
  <2>1. PICK clock \in ServerClocks(manager) :
          drain_server_events(manager_poll_tx(manager, clock))
    BY <1>4, Zenon DEF Poll
  <2> DEFINE m == manager_poll_tx(manager, clock)
  <2>2. ManagerOK(m) BY <1>1, ManagerPollOK, Zenon
  <2>3. \A f : Served(m, f) BY <1>1, PollServed, Zenon
  <2>4. \A f : Placed(m, f) /\ WillBeListed(Tables, m, f) BY <1>1, PollListed, Zenon
  <2> HIDE DEF m
  <2> QED BY <2>1, <2>2, <2>3, <2>4, DrainListed, Zenon DEF m
<1>5. CASE Stop \/ Done \/ UNCHANGED vars
  <2>1. manager' = manager /\ Tables' = Tables
    BY <1>5, Zenon DEF Stop, Done, vars, Tables
  <2> QED BY <1>1, <2>1, Zenon DEF LInv
<1> QED BY <1>2, <1>3, <1>4, <1>5, Zenon DEF Next

\* EstablishedIsListed: among peers that send well-formed flags and SYNs without
\* a number, every session that can transfer data is in the table that
\* /sessions prints, although the call that emits Connected also moves the
\* session to another map (drain_server_events). No packet, timer or command
\* takes an Established session off the table.
THEOREM EstablishedAreListed ==
  ASSUME PeersConform
  PROVE  Spec => []EstablishedIsListed
<1>1. Init => LInv
  <2>1. ASSUME Init, NEW e
        PROVE  Quiet(manager, e) /\ Placed(manager, e) /\ Listed(Tables, manager, e)
    BY <2>1, Zenon DEF Init, NewManager, EmptyMap, Quiet, Placed, Listed, Kind
  <2> QED BY <2>1, Zenon DEF LInv
<1>2. SInv /\ LInv /\ [Next]_vars => LInv' BY NextLInv, Zenon
<1>3. SInv /\ LInv => EstablishedIsListed
  <2> SUFFICES ASSUME SInv, LInv, NEW c \in DOMAIN manager.active_by_conn_id,
                      manager.active_by_conn_id[c].connection_state = "Established"
               PROVE  c \in DOMAIN active_endpoints
    BY Zenon DEF EstablishedIsListed
  <2>1. PICK e : Kind(manager, e) = "active" /\ At(manager, e) = manager.active_by_conn_id[c]
                 /\ At(manager, e).conn_id = c
    BY ActiveView DEF SInv
  <2> QED BY <2>1, Zenon DEF LInv, Listed, Tables
<1> QED BY <1>1, <1>2, <1>3, AlwaysSInv, PTL DEF Spec
=============================================================================
